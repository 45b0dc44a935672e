----------------------------- MODULE Transactions -----------------------------
(***************************************************************************)
(* The transaction helpers on a SQLite connection: with_transaction of     *)
(* ConversationStore and of SummaryStore, which look at in_transaction,    *)
(* and with_database_transaction (transaction_mutex.py), which has a lock  *)
(* per connection and a depth per thread.  An actor is a thread; actors of *)
(* different processes have connections of their own, and every statement  *)
(* is a step.                                                              *)
(*                                                                         *)
(* SQLite itself is external: snapshots and one writer with a write-ahead  *)
(* log, and the rollback journal that _apply_wal_with_fallback falls back  *)
(* to, in which a reader of another process blocks COMMIT.  A statement    *)
(* that waits for a lock may go on later or fail with SQLITE_BUSY.         *)
(***************************************************************************)
EXTENDS Integers, Sequences, FiniteSetsExt, SequencesExt

CONSTANTS
    Actors,     \* threads
    Conns,      \* connections to the one database
    Conn,       \* Conn[a]: the connection of a
    Opens,      \* Opens[a]: the helpers a calls outside any other
    Nests,      \* <<k, l>>: an operation under helper k calls helper l
    Journals,   \* the journal modes the file system allows
    Timeouts,   \* Timeouts[a]: the statements of a whose busy_timeout may run out
    MaxRows,    \* bound: rows inserted
    MaxDepth,   \* bound: nested calls of one thread
    None        \* no connection, no thread

Kinds == {"conversation", "summary", "mutex"}

ASSUME TransactionsAssumption ==
    /\ Conn \in [Actors -> Conns]
    /\ Opens \in [Actors -> SUBSET Kinds]
    /\ Nests \subseteq Kinds \X Kinds
    /\ Journals \subseteq {"wal", "delete"}
    /\ Timeouts \in [Actors -> SUBSET {"begin", "commit"}]
    /\ {MaxRows, MaxDepth} \subseteq Nat \ {0}
    /\ None \notin Conns \cup Actors

VARIABLES
    journal,   \* journal_mode of the database
    disk,      \* the committed rows: an id and a seq each
    conn,      \* conn[c]: BEGIN and SAVEPOINTs open on c, and its snapshot
    writer,    \* the connection with the write lock
    rlock,     \* rlock[c]: the thread that holds _locks_by_db[c]
    calls,     \* calls[a]: the helpers that a is in, outermost first
    depth,     \* depth[a]: depth_by_db_id of a for its connection
    last,      \* last[a]: the local variable max_seq of _persist
    fate,      \* history: what the caller was told of each row
    lapsed     \* history: a failed statement left a transaction or a depth behind

txvars == <<journal, disk, conn, writer, rlock, calls, depth, last, fate, lapsed>>

Ids == 1 .. MaxRows

Unread == -1

\* A connection in autocommit mode (isolation_level=None).
Idle == [frames |-> <<>>, reading |-> FALSE, seen |-> {}]

\* _apply_wal_with_fallback settles the journal mode when the file is opened.
TxInit ==
    /\ journal \in Journals
    /\ disk = {}
    /\ conn = [c \in Conns |-> Idle]
    /\ writer = None
    /\ rlock = [c \in Conns |-> None]
    /\ calls = [a \in Actors |-> <<>>]
    /\ depth = [a \in Actors |-> 0]
    /\ last = [a \in Actors |-> Unread]
    /\ fate = [i \in Ids |-> "unused"]
    /\ lapsed = FALSE

-----------------------------------------------------------------------------
(* SQLite.                                                                 *)

InTxn(c) == conn[c].frames # <<>>

RowsFrom(c, i) ==
    UNION {conn[c].frames[j].rows : j \in i .. Len(conn[c].frames)}

\* What a SELECT on c sees.
View(c) == RowsFrom(c, 1) \cup IF conn[c].reading THEN conn[c].seen ELSE disk

\* The innermost savepoint of that name, or 0.
Find(c, tag) ==
    Max({0} \cup {i \in DOMAIN conn[c].frames : conn[c].frames[i].tag = tag})

Readers(c) == \E d \in Conns \ {c} : conn[d].reading

\* With a rollback journal, the COMMIT of changes waits for readers to leave.
CommitBlocked(c) == journal = "delete" /\ RowsFrom(c, 1) # {} /\ Readers(c)

\* The transaction of c is over and these of its rows are stored.
Finish(c, rows) ==
    /\ disk' = disk \cup rows
    /\ conn' = [conn EXCEPT ![c] = Idle]
    /\ writer' = IF writer = c THEN None ELSE writer

SetFrames(c, frames) ==
    /\ conn' = [conn EXCEPT ![c].frames = frames]
    /\ UNCHANGED <<disk, writer>>

Frame(tag) == [tag |-> tag, rows |-> {}]

\* BEGIN has no name.
BeginTag == <<None, 0>>

\* RELEASE of the savepoint at i > 1: its rows become those of the frame below.
Merged(c, i) ==
    [SubSeq(conn[c].frames, 1, i - 1)
        EXCEPT ![i - 1].rows = @ \cup RowsFrom(c, i)]

-----------------------------------------------------------------------------
(* The calls of a thread.                                                  *)

Top(a) == Last(calls[a])

\* The name of the savepoint that the next call of a would make.
Tag(a) == <<a, Len(calls[a]) + 1>>

\* An operation calls its helpers between its own read and insert, never in
\* the middle of them.
MayCall(a, k) ==
    /\ Len(calls[a]) < MaxDepth
    /\ IF calls[a] = <<>> THEN k \in Opens[a]
       ELSE <<Top(a).kind, k>> \in Nests /\ last[a] = Unread

\* A call with the rows it inserts.
Push(a, k, mode) ==
    calls' = [calls EXCEPT ![a] =
        Append(@, [kind |-> k, mode |-> mode, tag |-> Tag(a), ids |-> {}])]

\* The test for a nested call: in_transaction, or the depth of this thread.
Nested(a, k) == IF k = "mutex" THEN depth[a] > 0 ELSE InTxn(Conn[a])

\* SAVEPOINT; without an open transaction it starts one, as BEGIN would.
EnterNested(a, k) ==
    /\ MayCall(a, k) /\ Nested(a, k)
    /\ SetFrames(Conn[a], Append(conn[Conn[a]].frames, Frame(Tag(a))))
    /\ Push(a, k, "savepoint")
    /\ depth' = IF k = "mutex" THEN [depth EXCEPT ![a] = @ + 1] ELSE depth
    /\ UNCHANGED <<journal, rlock, last, fate, lapsed>>

\* lock.acquire() of _get_db_lock goes through.
LockFree(a) == rlock[Conn[a]] = None

\* BEGIN IMMEDIATE takes the write lock; the BEGIN of SummaryStore takes none.
Begun(c, k) ==
    IF k = "summary" THEN [Idle EXCEPT !.frames = <<Frame(BeginTag)>>]
    ELSE [frames |-> <<Frame(BeginTag)>>, reading |-> TRUE,
          seen |-> disk \cup RowsFrom(c, 1)]

\* The outermost call of the stores: BEGIN.
EnterStore(a, k) ==
    LET c == Conn[a]
    IN  /\ k # "mutex" /\ MayCall(a, k) /\ ~Nested(a, k)
        /\ k = "conversation" => writer = None
        /\ conn' = [conn EXCEPT ![c] = Begun(c, k)]
        /\ writer' = IF k = "conversation" THEN c ELSE writer
        /\ Push(a, k, "begin")
        /\ UNCHANGED <<journal, disk, rlock, depth, last, fate, lapsed>>

\* The outermost with_database_transaction: it commits what is open on the
\* connection, whoever opened it, and begins.
EnterMutex(a) ==
    LET c == Conn[a]
    IN  /\ MayCall(a, "mutex") /\ ~Nested(a, "mutex")
        /\ LockFree(a) /\ writer \in {None, c} /\ ~CommitBlocked(c)
        /\ disk' = disk \cup RowsFrom(c, 1)
        /\ conn' = [conn EXCEPT ![c] = Begun(c, "mutex")]
        /\ writer' = c
        /\ rlock' = [rlock EXCEPT ![c] = a]
        /\ depth' = [depth EXCEPT ![a] = 1]
        /\ Push(a, "mutex", "begin")
        /\ UNCHANGED <<journal, last, fate, lapsed>>

\* Other threads use the connection of a.
Shared(a) == \E b \in Actors \ {a} : Conn[b] = Conn[a]

\* Its BEGIN fails: the lock is released, but the statement is before the try
\* block whose finally clause clears the depth, and the next call of a takes
\* itself for nested.  (The failed BEGIN of a store changes nothing.)
EnterMutexFails(a) ==
    LET c == Conn[a]
    IN  /\ MayCall(a, "mutex") /\ ~Nested(a, "mutex")
        /\ LockFree(a) /\ "begin" \in Timeouts[a]
        /\ writer \notin {None, c} \/ CommitBlocked(c)
        /\ IF CommitBlocked(c) THEN UNCHANGED <<disk, conn, writer>>
           ELSE Finish(c, RowsFrom(c, 1))
        /\ depth' = [depth EXCEPT ![a] = 1]
        /\ lapsed' = (lapsed \/ Shared(a))
        /\ UNCHANGED <<journal, rlock, calls, last, fate>>

-----------------------------------------------------------------------------
(* The operation: _persist reads the last seq and inserts the next.        *)

\* Mutant of MayRead: the last seq is read before the transaction.
MayReadBefore(a) == TRUE

MayRead(a) == calls[a] # <<>>

\* get_max_seq.  The first read of a deferred transaction takes its snapshot.
Read(a) ==
    LET c == Conn[a]
    IN  /\ MayRead(a) /\ last[a] = Unread
        /\ last' = [last EXCEPT ![a] = Max({0} \cup {r.seq : r \in View(c)})]
        /\ conn' = IF InTxn(c) /\ ~conn[c].reading
                   THEN [conn EXCEPT ![c].reading = TRUE, ![c].seen = disk]
                   ELSE conn
        /\ UNCHANGED <<journal, disk, writer, rlock, calls, depth, fate, lapsed>>

\* c has the write lock or gets it with this statement: nobody else has it,
\* and the snapshot is not stale (SQLITE_BUSY_SNAPSHOT).
MayWrite(c) ==
    \/ writer = c
    \/ writer = None /\ (conn[c].reading => conn[c].seen = disk)

Mine(a, ids) == [calls EXCEPT ![a][Len(calls[a])].ids = @ \cup ids]

\* create_message and what follows it in the operation.  A seq that is taken
\* is the UNIQUE conflict that _persist reports as "already ingested".  After
\* the transaction was ended under the operation, statements autocommit.
Insert(a) ==
    LET c == Conn[a]
        id == Min({i \in Ids : fate[i] = "unused"})
        row == [id |-> id, seq |-> last[a] + 1]
        taken == \E r \in View(c) : r.seq = row.seq
        n == Len(conn[c].frames)
        base == IF writer = c THEN conn[c].seen ELSE disk
    IN  /\ calls[a] # <<>> /\ last[a] # Unread
        /\ \E i \in Ids : fate[i] = "unused"
        /\ MayWrite(c)
        /\ last' = [last EXCEPT ![a] = Unread]
        /\ fate' = [fate EXCEPT ![id] = IF taken THEN "skipped" ELSE "open"]
        /\ calls' = IF taken THEN calls ELSE Mine(a, {id})
        /\ IF taken THEN UNCHANGED <<disk, conn, writer>>
           ELSE IF InTxn(c)
           THEN /\ conn' = [conn EXCEPT ![c] =
                       [frames |-> [conn[c].frames EXCEPT ![n].rows = @ \cup {row}],
                        reading |-> TRUE, seen |-> base]]
                /\ writer' = c
                /\ UNCHANGED disk
           ELSE disk' = disk \cup {row} /\ UNCHANGED <<conn, writer>>
        /\ UNCHANGED <<journal, rlock, depth, lapsed>>

-----------------------------------------------------------------------------
(* The end of a call.                                                      *)

\* COMMIT, or the RELEASE of a savepoint that started the transaction.
Commits(a) == Top(a).mode = "begin" \/ Find(Conn[a], Top(a).tag) = 1

\* "no transaction is active", "no such savepoint"
Gone(a) ==
    IF Top(a).mode = "begin" THEN ~InTxn(Conn[a])
    ELSE Find(Conn[a], Top(a).tag) = 0

\* COMMIT or RELEASE.
End(a) ==
    LET c == Conn[a]
    IN  IF Commits(a) THEN Finish(c, RowsFrom(c, 1))
        ELSE SetFrames(c, Merged(c, Find(c, Top(a).tag)))

\* Mutant of Undo: a nested call that fails releases its savepoint.
UndoReleases(a) == IF Gone(a) THEN UNCHANGED <<disk, conn, writer>> ELSE End(a)

\* ROLLBACK, or ROLLBACK TO and RELEASE.
Undo(a) ==
    LET c == Conn[a]
        i == Find(c, Top(a).tag)
    IN  IF Gone(a) THEN UNCHANGED <<disk, conn, writer>>
        ELSE IF Commits(a) THEN Finish(c, {})
        ELSE SetFrames(c, SubSeq(conn[c].frames, 1, i - 1))

Told(ids, what) == [i \in Ids |-> IF i \in ids THEN what ELSE fate[i]]

\* The call returns: the caller takes its rows as stored, once no call is
\* around it.
Returned(a) ==
    LET rest == Front(calls[a])
        n == Len(rest)
    IN  /\ calls' = [calls EXCEPT ![a] =
               IF n = 0 THEN <<>>
               ELSE [rest EXCEPT ![n].ids = @ \cup Top(a).ids]]
        /\ fate' = IF n = 0 THEN Told(Top(a).ids, "kept") ELSE fate

\* The call raises: the caller takes its rows as rolled back.
Raised(a) ==
    /\ calls' = [calls EXCEPT ![a] = Front(@)]
    /\ fate' = Told(Top(a).ids, "undone")

\* The finally clauses: the depth counts down, or its entry is popped.
DepthAfter(a) ==
    IF Top(a).mode = "begin" THEN 0 ELSE Max({0, depth[a] - 1})

Unlock(a) ==
    /\ depth' = IF Top(a).kind = "mutex"
                THEN [depth EXCEPT ![a] = DepthAfter(a)] ELSE depth
    /\ rlock' = IF Top(a).kind = "mutex" /\ Top(a).mode = "begin"
                THEN [rlock EXCEPT ![Conn[a]] = None] ELSE rlock
    /\ last' = [last EXCEPT ![a] = Unread]
    /\ UNCHANGED journal

\* The operation returned and so does the statement that ends it.
Return(a) ==
    /\ calls[a] # <<>> /\ ~Gone(a)
    /\ ~(Commits(a) /\ CommitBlocked(Conn[a]))
    /\ End(a) /\ Returned(a) /\ Unlock(a) /\ UNCHANGED lapsed

\* The operation raises.
OperationRaises(a) ==
    /\ calls[a] # <<>>
    /\ Undo(a) /\ Raised(a) /\ Unlock(a) /\ UNCHANGED lapsed

\* Whether COMMIT and RELEASE are inside the try block.
UndoesFailedEnd(k) == k # "conversation"

\* The statement that ends the call fails: SQLITE_BUSY, or nothing to end.
EndFails(a) ==
    /\ calls[a] # <<>>
    /\ ~Gone(a) => /\ "commit" \in Timeouts[a]
                   /\ Commits(a) /\ CommitBlocked(Conn[a])
    /\ IF UndoesFailedEnd(Top(a).kind) THEN Undo(a)
       ELSE UNCHANGED <<disk, conn, writer>>
    /\ Raised(a) /\ Unlock(a)
    /\ lapsed' = (lapsed \/ (~UndoesFailedEnd(Top(a).kind) /\ Commits(a)))

\* The process of c ends, or close_lcm_db closes c: SQLite rolls back what is
\* open.  Threads of other connections go on.
Close(c) ==
    LET mine == {a \in Actors : Conn[a] = c}
        lost == UNION {UNION {call.ids : call \in Range(calls[a])} : a \in mine}
    IN  /\ Finish(c, {})
        /\ rlock' = [rlock EXCEPT ![c] = None]
        /\ calls' = [a \in Actors |-> IF a \in mine THEN <<>> ELSE calls[a]]
        /\ depth' = [a \in Actors |-> IF a \in mine THEN 0 ELSE depth[a]]
        /\ last' = [a \in Actors |-> IF a \in mine THEN Unread ELSE last[a]]
        /\ fate' = Told(lost, "undone")
        /\ UNCHANGED <<journal, lapsed>>

TxNext ==
    \/ \E a \in Actors :
         \/ \E k \in Kinds : EnterNested(a, k) \/ EnterStore(a, k)
         \/ EnterMutex(a) \/ EnterMutexFails(a)
         \/ Read(a) \/ Insert(a)
         \/ Return(a) \/ OperationRaises(a) \/ EndFails(a)
    \/ \E c \in Conns : Close(c)

TxSpec == TxInit /\ [][TxNext]_txvars

-----------------------------------------------------------------------------
(* Properties.                                                             *)

\* How the code uses the helpers.  No operation of a store begins a repair, and
\* threads that share a connection begin with with_database_transaction (ADR 018
\* gives with_transaction a connection per thread).
Disciplined ==
    /\ \A k \in Kinds : <<k, "mutex">> \in Nests => k = "mutex"
    /\ \A a \in Actors : Shared(a) => Opens[a] \subseteq {"mutex"}

\* What with_transaction and with_database_transaction promise their callers:
\* the rows of a call that returned are stored and stay so through crashes,
\* those of a call that raised are not stored then or later, whatever the calls
\* around it do, and nothing is stored while the outermost call still runs.
\* It ends with the first COMMIT of ConversationStore that fails and leaves its
\* transaction open, and with the first BEGIN of a thread that shares its
\* connection to time out and leave its depth behind.
AllOrNothing ==
    LET stored == {r.id : r \in disk}
    IN  ~lapsed => \A i \in Ids :
          /\ fate[i] = "kept" => i \in stored
          /\ fate[i] \in {"open", "undone", "skipped"} => i \notin stored

\* "With BEGIN IMMEDIATE this should be unreachable": the seq that _persist
\* computes is still free when it inserts, so no message is dropped as already
\* ingested, and the stored seqs have no gap; up to the same two failures.
NoUniqueRace ==
    ~lapsed =>
    /\ \A i \in Ids : fate[i] # "skipped"
    /\ {r.seq : r \in disk} = 1 .. Cardinality(disk)
=============================================================================
