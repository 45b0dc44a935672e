SPECIFICATION Spec
CONSTANTS
    Around = {c1, c2}
    Direct = {d1}
    NumLeaves = 2
    TokenOf <- MCTokenOf
    Workloads <- MCWorkloads
    Replaced = {"single"}
    Windows <- MCWindows
    MaxSourceTokens = 2
    BestOfN = 3
    MaxVersion = 2
    MaxFaults = 1
INVARIANTS
    SingleFlight
    ServedExact
    PurgeReachesCache
SYMMETRY MCSymmetry
CHECK_DEADLOCK FALSE
