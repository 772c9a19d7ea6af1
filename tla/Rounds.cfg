SPECIFICATION RoundsSpec
CONSTANTS
    Nodes = {a, b}
    a = a
    b = b
    Ops = {1, 2}
    Sector <- MCSector
    Slice <- MCSlice
    Rings = 1
    FirstBoundary = 1
    LastBoundary = 1
    Sids = {s1, s2}
    Ties = {1, 2}
    MaxAccepted = 1
    MaxOpBytes = 1
    Pasts = {"recent", "old"}
    MaxFaults = 1
    BlockSize <- MCBlockSize
    Home <- MCHome
    MaxLevel = 1
    Agents = {1, 2, 3}
    R = 1
    ClampMinPeers = 0
    Wait = 2
    GrowNeed = 1
    ShrinkNeed = 3
    Lag = 1
    Stall = 0
    Detect = 2
    Patient = TRUE
    Alongside = TRUE
    Withdraw = TRUE
    Quiet = {}
    HeadStart = 1
    MaxDeaths = 0
    Horizon = 10
INVARIANTS
    OneRoundPerPair ClaimsHold
    AtTarget PhantomAnnounced RaceResolves
PROPERTIES BookmarkSkipsNothing
SYMMETRY NodeSymmetry
