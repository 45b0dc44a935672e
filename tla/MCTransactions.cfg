SPECIFICATION MCSpec
CONSTANTS
    thread1 = thread1
    thread2 = thread2
    other = other
    reader = reader
    db1 = db1
    db2 = db2
    db3 = db3
    Actors = {thread1, thread2, other, reader}
    Conns = {db1, db2, db3}
    Conn <- MCConn
    Opens <- MCOpens
    Nests <- MCNests
    Journals = {"wal", "delete"}
    Timeouts <- MCTimeouts
    MaxRows = 3
    MaxDepth = 2
    None = None
INVARIANTS
    AllOrNothing
    NoUniqueRace
CHECK_DEADLOCK FALSE
