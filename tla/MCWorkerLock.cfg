SPECIFICATION LiveSpec
CONSTANTS
    Workers = {w1, w2}
    TTL = 3
INVARIANTS
    LeaseExclusive
PROPERTIES
    LiveRowKeptFromOthers
    LockNeverStuck
    TheftNoticed
