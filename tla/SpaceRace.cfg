SPECIFICATION SpacesSpec
CONSTANTS
    Callers = {c1, c2}
    MaxGens = 2
    MaxUrl = 0
INVARIANTS SpaceIsGiven
CHECK_DEADLOCK FALSE
