SPECIFICATION Spec
CONSTANTS
    Authors = {a1, a2, a3}
    Workers = {w1, w2}
    MaxEntries = 2
    LastTime = 2
    Skew = 0
    MaxLife = 2
    Lives <- MCLives
    SectorSize = 3
    SectorCount = 2
    Ops = {1, 2, 3}
    NoHash = NoHash
    Loc <- MCLoc
    Created <- MCCreated
    Factor = 2
    Unit = 2
    Origin = 21
    MaxTime = 30
    MaxFaults = 1
SYMMETRY Alike
PROPERTIES PutIsStored
CHECK_DEADLOCK FALSE
