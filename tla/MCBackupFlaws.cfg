CONSTANTS
    T1 = T1
    T2 = T2
    P1 = P1
    P2 = P2
    Tables = {T1, T2}
    Paths = {P1, P2}
    NoPath = none
    MaxChain = 1
    MaxRows = 3
    MaxOps = 12
    MaxCrashes = 1
SPECIFICATION FlawSpec
INVARIANT DocumentedRestores
CHECK_DEADLOCK FALSE
