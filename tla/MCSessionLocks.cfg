SPECIFICATION LocksSpec
CONSTANTS
    Threads = {t1, t2, t3}
    Sessions = {s1, s2, s3}
    LockIds = {l1, l2, l3, l4}
    HighWaterMark = 1
SYMMETRY RegistrySymmetry
INVARIANTS
    SessionExclusive
    IdleBounded
