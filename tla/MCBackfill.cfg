SPECIFICATION Spec
CONSTANTS
    Workers = {a, m}
    TTL = 1
    MaxRetries = 2
    Docs = {1, 3}
    Tokens <- MCTokens
    MaxDocTokens = 2
    MaxBatchTokens = 2
    PerTickLimit = 3
    SelectCap = 2
    StrikeLimit = 2
    Poison = {3}
    Looping = {a}
    MaxManual = 1
    MaxFaults = 1
    MaxStalls = 1
INVARIANTS
    VecMatchesMeta
    MirrorExact
    WrittenOnce
PROPERTIES
    Drained
CHECK_DEADLOCK FALSE
