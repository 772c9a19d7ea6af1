SPECIFICATION OneHolderSpec
CONSTANTS
    Nodes = {a, b}
    a = a
    b = b
    Ops = {2}
    Sector <- MCSector
    Slice <- MCSlice
    Rings = 1
    FirstBoundary = 1
    LastBoundary = 2
    Sids = {s1, s2}
    Ties = {1, 2}
    MaxAccepted = 1
    MaxOpBytes = 1
    Pasts = {"old"}
    MaxFaults = 1
PROPERTIES Converges
