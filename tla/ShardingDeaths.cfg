SPECIFICATION ShardingSpec
CONSTANTS
    BlockSize <- MCBlockSize
    Home <- MCHome
    MaxLevel = 1
    Agents = {1, 2, 3}
    R = 1
    ClampMinPeers = 2
    Wait = 1
    GrowNeed = 1
    ShrinkNeed = 2
    Lag = 0
    Stall = 0
    Detect = 2
    Patient = TRUE
    Alongside = TRUE
    Withdraw = TRUE
    Quiet = {}
    HeadStart = 0
    MaxDeaths = 2
    Horizon = 10
INVARIANTS RepairStarts
PROPERTIES ShrinkLeavesTarget
