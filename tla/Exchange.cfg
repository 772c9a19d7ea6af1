SPECIFICATION MCSpec
CONSTANTS
    Ops = {o1, o2}
    o1 = o1
    o2 = o2
    Peers = {p1, p2}
    p1 = p1
    p2 = p2
    Callers = {c1, c2}
    c1 = c1
    c2 = c2
    Workers = {w1, w2}
    w1 = w1
    w2 = w2
    Listeners = {l}
    l = l
    QueueSize = 1
    MaxCalls = 2
    Lossy = TRUE
    None = None
    Targets = {p1, p2}
    Entries = {1, 2}
    MetaBytes <- MCMetaBytes
    OwnCap = 2
    PeerCap = 1
    OutgoingCap = 1
    IncomingCap = 1
    MaxPublishes = 2
    MaxCuts = 2
    Contacts = {p1}
    Rounds = {1, 2}
    Every = 1
    LagFloor = 1
    LagCeiling = 2
    IntentWait = 1
    MinWait = 1
    ProbeEvery = 3
    SendTime = 1
    InfoLife = 7
    CountLife = 6
    ResignAt = 3
    MaxRestarts = 1
    MaxCount = 2
    LastTick = 9
INVARIANTS NoOrphanRequest NoGhostCounted
PROPERTIES RequestsSettle PublishedArrives
CHECK_DEADLOCK FALSE
