SPECIFICATION Spec
CONSTANTS
    Calls = {c1, c2}
    NoEntry = NoEntry
    Prompts = {1, 5}
    Cached = {2}
    Estimates = {1}
    Results = {2}
    RefusalTokens = 2
    Lengths = {0, 8}
    Reserves = {50}
    Cap = 2
    Window = 1
    Threshold = 2
    Cooldown = 2
    MaxTokens = 9
    MaxNow = 3
    MaxAttempts = 4
SYMMETRY CallSymmetry
INVARIANTS
    CacheExact
    AttemptsBounded
PROPERTIES
    OutageBackoff
    NoStaleRefusal
CHECK_DEADLOCK FALSE
