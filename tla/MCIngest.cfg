SPECIFICATION LiveSpec
CONSTANTS
    Callers = {c1, c2}
    Texts = {"hello", "data"}
    Turns <- MCTurns
    MaxMishaps = 2
INVARIANTS
    StoredInOrder
    CursorHonest
    StubsResolve
PROPERTY EventuallyStored
CHECK_DEADLOCK FALSE
