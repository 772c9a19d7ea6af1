SPECIFICATION Spec
CONSTANTS
    Nodes = {1, 2}
    Conns = {1, 2}
    Senders = {1, 2}
    Home <- MCHome
    Target <- MCTarget
    Fragile = {1}
    Shaky = {1}
    MaxTroubles = 1
    MemNodes = {m1, m2}
    MemSends = {q1, q2}
    MaxLinks = 2
    MaxFaults = 1
    Sockets = {s1, s2}
    Threads = {t1}
    Listeners = 2
    MaxAsks = 2
    Burst = 1
    Rate = 1
    MaxFrame = 2
    MaxAge = 1
INVARIANTS
    EndsAgree NoFalseUnresponsive EndsAreReported WrittenArrives NoStuckSend
    SendsSucceed SendsAreAnswered
    EstablishedStays ShutdownEnds ReadsArePaced
PROPERTIES ImplementsSlots
CHECK_DEADLOCK FALSE
