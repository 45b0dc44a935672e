SPECIFICATION Spec
CONSTANTS
    FreshTailCount = 2
    FreshTailMaxTokens = 2
    LeafChunkTokens = 2
    LeafMinFanout = 2
    CondensedMinFanout = 2
    HardFanout = 1
    CondensedMinTokens = 1
    Threshold = 2
    Targets = {3}
    LiveCounts = {4}
    MaxRounds = 2
    MsgTokens = {1, 2}
    SumTokens = {1}
    MaxMsgs = 4
    MaxSums = 4
INVARIANTS
    NothingUnreachable
    SuppressedNotInContext
    ScanClean
    SweepAccounts
PROPERTY ImplementsContextLog
CHECK_DEADLOCK FALSE
