SPECIFICATION FairSpec
CONSTANTS
    Ops = {o1, o2}
    o1 = o1
    o2 = o2
    Peers = {p1, p2}
    p1 = p1
    p2 = p2
    Callers = {c1}
    c1 = c1
    Workers = {w1}
    w1 = w1
    Listeners = {l}
    l = l
    QueueSize = 1
    MaxCalls = 1
    Lossy = FALSE
    None = None
PROPERTIES ListenersAreTold
CHECK_DEADLOCK FALSE
