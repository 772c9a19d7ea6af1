SPECIFICATION Spec
CONSTANTS
    Callers = {c1, c2}
    MaxGens = 2
    MaxUrl = 1
    Peers = {p1, p2, p3}
    Near = {p1, p3}
    Polite = {p1}
    Rude = {p2}
    Silent = {p2}
    Banned = {p3}
    Second = me
    None = none
    BurstFactor = 2
    BurstWindow = 1
    MaxAccepted = 1
    MaxEvents = 2
SYMMETRY Alike
INVARIANTS HeldIsServed AddressArrives TurnsAreFair PoliteIsHeard
CHECK_DEADLOCK FALSE
