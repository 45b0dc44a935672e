SPECIFICATION Spec
CONSTANTS
    Workers = {a, m}
    TTL = 1
    Leaves = {1, 2}
    Surfaces = {"pr", "PR", "junk"}
    Malformed = {"junk"}
    Canonical <- MCCanonical
    Outputs <- MCOutputs
    Stubborn = {1}
    PerTickLimit = 1
    MaxAttempts = 2
    StrikeLimit = 2
    Looping = {a}
    MaxManual = 1
    MaxFaults = 2
    MaxStalls = 1
INVARIANTS
    CountsMatch
PROPERTIES
    EventuallySettled
CHECK_DEADLOCK FALSE
