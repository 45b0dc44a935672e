------------------------ MODULE DatabaseLocksProofs ------------------------
(***************************************************************************)
(* Proofs about the two mechanisms that exclude through the database.      *)
(*                                                                         *)
(* First WorkerLock, for any set of workers and any TTL.  The inductive    *)
(* invariant is TypeOK /\ LeaseMatchesRow: exclusion alone says nothing of *)
(* the row, so it does not survive a heartbeat; once a lease is tied to    *)
(* the row and to the row's expiry, the uniqueness of the row does the     *)
(* rest.                                                                   *)
(*                                                                         *)
(* Then Transactions, for any threads, connections, journal modes, depth   *)
(* of nesting and statements that time out, with the helpers used as the   *)
(* code does (Disciplined), up to the first failure that leaves something  *)
(* behind (lapsed).  The inductive invariant is lapsed \/ TxInv: who owns  *)
(* the frames of a connection, how the seqs of the rows that are committed *)
(* and pending follow one another, and where a row is for each answer its  *)
(* caller may have been given.                                             *)
(***************************************************************************)
EXTENDS WorkerLock, Transactions, FiniteSetTheorems, SequenceTheorems,
        NaturalsInduction, WellFoundedInduction, TLAPS

-----------------------------------------------------------------------------
(***************************************************************************)
(* Worker lock.                                                            *)
(***************************************************************************)
IInv == TypeOK /\ LeaseMatchesRow

(***************************************************************************)
(* What the SQL statements do to a row.                                    *)
(***************************************************************************)

\* A row of a worker differs from no row, and its fields are what was stored.
LEMMA RowFields ==
    /\ NoRow.held = FALSE
    /\ \A w, n : RowOf(w, n).held = TRUE /\ RowOf(w, n).worker = w /\ RowOf(w, n).left = n
  BY DEF NoRow, RowOf

\* The rows are NoRow and the rows of a worker with at most TTL ticks left.
LEMMA RowCases ==
    ASSUME NEW r \in Rows
    PROVE  /\ r.held \in BOOLEAN
           /\ ~r.held => r = NoRow
           /\ r.held => /\ r.worker \in Workers
                        /\ r.left \in 0 .. TTL
                        /\ r = RowOf(r.worker, r.left)
  <1>1. CASE r = NoRow
    BY <1>1, RowFields
  <1>2. CASE r # NoRow
    <2>1. PICK w \in Workers, n \in 0 .. TTL : r = RowOf(w, n)
      BY <1>2 DEF Rows
    <2>2. r.held = TRUE /\ r.worker = w /\ r.left = n
      BY <2>1, RowFields
    <2>3. QED
      BY <2>1, <2>2
  <1>3. QED
    BY <1>1, <1>2

\* Every statement yields a row again.
LEMMA StatementTypes ==
    ASSUME NEW r \in Rows, NEW w \in Workers
    PROVE  /\ NoRow \in Rows
           /\ GcExpired(r) \in Rows
           /\ InsertOrIgnore(r, w) \in Rows
           /\ HeartbeatLock(r, w) \in Rows
           /\ ReleaseLock(r, w) \in Rows
           /\ Age(r) \in Rows
  <1>1. NoRow \in Rows
    BY DEF Rows
  <1>2. \A v \in Workers, n \in 0 .. TTL : RowOf(v, n) \in Rows
    BY DEF Rows
  <1>3. TTL \in 0 .. TTL
    BY TTLAssumption
  <1>4. \A n \in 0 .. TTL : Dec(n) \in 0 .. TTL
    BY TTLAssumption DEF Dec
  <1>5. GcExpired(r) \in Rows
    BY <1>1 DEF GcExpired
  <1>6. InsertOrIgnore(r, w) \in Rows
    BY <1>2, <1>3 DEF InsertOrIgnore
  <1>7. HeartbeatLock(r, w) \in Rows
    BY <1>2, <1>3 DEF HeartbeatLock
  <1>8. ReleaseLock(r, w) \in Rows
    BY <1>1 DEF ReleaseLock
  <1>9. Age(r) \in Rows
    BY <1>2, <1>4, RowCases DEF Age
  <1>10. QED
    BY <1>1, <1>5, <1>6, <1>7, <1>8, <1>9

-----------------------------------------------------------------------------
(***************************************************************************)
(* Type correctness.                                                       *)
(***************************************************************************)

\* Every step of the workers, the operator and the clock keeps the types.
LEMMA TypeStep == TypeOK /\ [Next]_vars => TypeOK'
  <1> SUFFICES ASSUME TypeOK, [Next]_vars PROVE TypeOK'
    OBVIOUS
  <1> USE DEF TypeOK, PCs
  <1>0. TTL \in 0 .. TTL /\ 0 \in 0 .. TTL
    BY TTLAssumption
  <1>1. ASSUME NEW w \in Workers, WorkerStep(w) PROVE TypeOK'
    <2>1. CASE AcquireGc(w)
      BY <2>1, StatementTypes DEF AcquireGc
    <2>2. CASE AcquireInsert(w)
      BY <2>2, <1>0, StatementTypes DEF AcquireInsert
    <2>3. CASE AcquireRefused(w)
      BY <2>3, StatementTypes DEF AcquireRefused
    <2>4. CASE HeartbeatOk(w)
      BY <2>4, <1>0, StatementTypes DEF HeartbeatOk
    <2>5. CASE HeartbeatLost(w)
      BY <2>5, StatementTypes DEF HeartbeatLost
    <2>6. CASE HeartbeatError(w)
      BY <2>6 DEF HeartbeatError
    <2>7. CASE BodyExit(w)
      BY <2>7 DEF BodyExit
    <2>8. CASE Release(w)
      BY <2>8, <1>0, StatementTypes DEF Release
    <2>9. CASE ReleaseError(w)
      BY <2>9, <1>0 DEF ReleaseError
    <2>10. QED
      BY <1>1, <2>1, <2>2, <2>3, <2>4, <2>5, <2>6, <2>7, <2>8, <2>9 DEF WorkerStep
  <1>2. ASSUME NEW w \in Workers, Crash(w) PROVE TypeOK'
    BY <1>2, <1>0 DEF Crash
  <1>3. ASSUME NEW w \in Workers, Restart(w) PROVE TypeOK'
    BY <1>3 DEF Restart
  <1>4. ASSUME NEW w \in Workers, GuardedRead(w) PROVE TypeOK'
    BY <1>4 DEF GuardedRead
  <1>5. CASE ForceRelease
    <2>1. row.worker \in Workers
      BY <1>5, RowCases DEF ForceRelease
    <2>2. NoRow \in Rows
      BY DEF Rows
    <2>3. QED
      BY <1>5, <2>1, <2>2 DEF ForceRelease
  <1>6. CASE GuardedDelete
    <2>1. guard \in Workers
      BY <1>6 DEF GuardedDelete
    <2>2. QED
      BY <1>6, <2>1, StatementTypes DEF GuardedDelete
  <1>7. CASE Tick
    <2>1. \A n \in 0 .. TTL : Dec(n) \in 0 .. TTL
      BY TTLAssumption DEF Dec
    <2>2. Age(row) \in Rows
      BY StatementTypes, RowCases DEF Age
    <2>3. QED
      BY <1>7, <2>1, <2>2 DEF Tick
  <1>8. CASE UNCHANGED vars
    BY <1>8 DEF vars
  <1>9. QED
    BY <1>1, <1>2, <1>3, <1>4, <1>5, <1>6, <1>7, <1>8 DEF Next

\* The type invariant of the lock table, the workers and the operator.
THEOREM TypeCorrect == Spec => []TypeOK
  <1>1. Init => TypeOK
    BY TTLAssumption DEF Init, TypeOK, PCs, Rows
  <1>2. QED
    BY <1>1, TypeStep, PTL DEF Spec

-----------------------------------------------------------------------------
(***************************************************************************)
(* Exclusion.                                                              *)
(***************************************************************************)

\* A worker within its lease owns the row, for as long as the lease lasts:
\* the invariant is preserved by every step.
LEMMA LeaseStep == IInv /\ [Next]_vars => LeaseMatchesRow'
  <1> SUFFICES ASSUME TypeOK, LeaseMatchesRow, [Next]_vars,
                      NEW v \in Workers, InLease(v)'
               PROVE  IsRowOf(row', v) /\ row'.left = lease'[v]
    BY DEF IInv, LeaseMatchesRow
  <1>0. InLease(v) => IsRowOf(row, v) /\ row.left = lease[v]
    BY DEF LeaseMatchesRow
  <1> USE DEF InLease, Running
  <1>1. ASSUME NEW w \in Workers, WorkerStep(w)
        PROVE  IsRowOf(row', v) /\ row'.left = lease'[v]
    <2>1. CASE AcquireGc(w)
      BY <2>1, <1>0 DEF AcquireGc, GcExpired, IsRowOf, TypeOK
    <2>2. CASE AcquireInsert(w)
      <3>1. CASE v = w
        BY <2>2, <3>1, RowFields DEF AcquireInsert, InsertOrIgnore, IsRowOf, TypeOK
      <3>2. CASE v # w
        BY <2>2, <3>2, <1>0 DEF AcquireInsert, IsRowOf, TypeOK
      <3>3. QED
        BY <3>1, <3>2
    <2>3. CASE AcquireRefused(w)
      BY <2>3, <1>0 DEF AcquireRefused, InsertOrIgnore, TypeOK
    <2>4. CASE HeartbeatOk(w)
      <3>1. row' = RowOf(w, TTL)
        BY <2>4 DEF HeartbeatOk, HeartbeatLock
      <3>2. CASE v = w
        BY <2>4, <3>1, <3>2, RowFields DEF HeartbeatOk, IsRowOf, TypeOK
      <3>3. CASE v # w
        BY <2>4, <3>3, <1>0 DEF HeartbeatOk, Renewable, IsRowOf, TypeOK
      <3>4. QED
        BY <3>2, <3>3
    <2>5. CASE HeartbeatLost(w)
      BY <2>5, <1>0 DEF HeartbeatLost, HeartbeatLock
    <2>6. CASE HeartbeatError(w)
      BY <2>6, <1>0 DEF HeartbeatError
    <2>7. CASE BodyExit(w)
      BY <2>7, <1>0 DEF BodyExit, TypeOK
    <2>8. CASE Release(w)
      BY <2>8, <1>0 DEF Release, ReleaseLock, IsRowOf, TypeOK
    <2>9. CASE ReleaseError(w)
      BY <2>9, <1>0 DEF ReleaseError, TypeOK
    <2>10. QED
      BY <1>1, <2>1, <2>2, <2>3, <2>4, <2>5, <2>6, <2>7, <2>8, <2>9 DEF WorkerStep
  <1>2. ASSUME NEW w \in Workers, Crash(w)
        PROVE  IsRowOf(row', v) /\ row'.left = lease'[v]
    BY <1>2, <1>0 DEF Crash, TypeOK
  <1>3. ASSUME NEW w \in Workers, Restart(w)
        PROVE  IsRowOf(row', v) /\ row'.left = lease'[v]
    BY <1>3, <1>0 DEF Restart, TypeOK
  <1>4. ASSUME NEW w \in Workers, GuardedRead(w)
        PROVE  IsRowOf(row', v) /\ row'.left = lease'[v]
    BY <1>4, <1>0 DEF GuardedRead
  <1>5. CASE ForceRelease
    BY <1>5, <1>0 DEF ForceRelease, IsRowOf
  <1>6. CASE GuardedDelete
    BY <1>6, <1>0 DEF GuardedDelete, ReleaseLock, IsRowOf
  <1>7. CASE Tick
    <2>1. lease'[v] = Dec(lease[v]) /\ lease[v] \in 0 .. TTL
      BY <1>7 DEF Tick, TypeOK
    <2>2. lease[v] > 0
      BY <1>7, <2>1, TTLAssumption DEF Dec
    <2>3. row.held /\ row.worker = v /\ row.left = lease[v]
      BY <1>7, <2>2, <1>0 DEF Tick, IsRowOf
    <2>4. row' = RowOf(v, Dec(lease[v]))
      BY <1>7, <2>3 DEF Tick, Age
    <2>5. QED
      BY <2>1, <2>4, RowFields DEF IsRowOf
  <1>8. CASE UNCHANGED vars
    BY <1>8, <1>0 DEF vars
  <1>9. QED
    BY <1>1, <1>2, <1>3, <1>4, <1>5, <1>6, <1>7, <1>8 DEF Next

\* The inductive invariant holds in every reachable state.
LEMMA Invariance == Spec => []IInv
  <1>1. Init => IInv
    BY TTLAssumption
    DEF Init, IInv, TypeOK, PCs, Rows, LeaseMatchesRow, InLease, Running
  <1>2. IInv /\ [Next]_vars => IInv'
    BY TypeStep, LeaseStep DEF IInv
  <1>3. QED
    BY <1>1, <1>2, PTL DEF Spec

\* A worker within the lease it last obtained owns the row of its job kind.
THEOREM LeaseOwnsRow == Spec => []LeaseMatchesRow
  BY Invariance, PTL DEF IInv

\* No two workers are within their leases at once: acquire_lock never hands
\* out a lock that some running worker may still rely on.
THEOREM Exclusion == Spec => []LeaseExclusive
  <1>1. IInv => LeaseExclusive
    BY DEF IInv, LeaseMatchesRow, LeaseExclusive, IsRowOf
  <1>2. QED
    BY <1>1, Invariance, PTL

\* A step that takes a live row from its owner is the owner's own release or
\* an operator's override.
THEOREM LiveRowKept == Spec => LiveRowKeptFromOthers
  <1> DEFINE Kept == row.held /\ row.left > 0 /\ ~IsRowOf(row', row.worker)
                     => pc[row.worker] = "closing" \/ row.worker \in evicted'
  <1>1. ASSUME TypeOK, [Next]_vars, row.held, row.left > 0,
               ~IsRowOf(row', row.worker)
        PROVE  pc[row.worker] = "closing" \/ row.worker \in evicted'
    <2>1. ASSUME NEW w \in Workers, WorkerStep(w) \/ Crash(w) \/ Restart(w) \/ GuardedRead(w)
          PROVE  pc[row.worker] = "closing"
      <3>1. row.left \in 0 .. TTL /\ row.worker \in Workers
        BY <1>1, RowCases DEF TypeOK
      <3>2. row' = row \/ Release(w) \/ HeartbeatOk(w)
        BY <1>1, <2>1, <3>1
        DEF WorkerStep, AcquireGc, AcquireInsert, AcquireRefused, HeartbeatLost,
            HeartbeatError, BodyExit, ReleaseError, Crash, Restart, GuardedRead,
            GcExpired, InsertOrIgnore, HeartbeatLock
      <3>3. CASE row' = row
        BY <1>1, <3>3 DEF IsRowOf
      <3>4. CASE Release(w)
        BY <1>1, <3>4 DEF Release, ReleaseLock, IsRowOf
      <3>5. CASE HeartbeatOk(w)
        BY <1>1, <3>5, RowFields DEF HeartbeatOk, HeartbeatLock, Renewable, IsRowOf
      <3>6. QED
        BY <3>2, <3>3, <3>4, <3>5
    <2>2. CASE ForceRelease
      BY <2>2 DEF ForceRelease
    <2>3. CASE GuardedDelete
      BY <1>1, <2>3 DEF GuardedDelete, ReleaseLock, IsRowOf
    <2>4. CASE Tick
      BY <1>1, <2>4, RowFields DEF Tick, Age, IsRowOf
    <2>5. CASE UNCHANGED vars
      BY <1>1, <2>5 DEF vars, IsRowOf
    <2>6. QED
      BY <1>1, <2>1, <2>2, <2>3, <2>4, <2>5 DEF Next
  <1>2. TypeOK /\ [Next]_vars => [Kept]_vars
    BY <1>1
  <1>3. QED
    BY <1>2, TypeCorrect, PTL DEF Spec, LiveRowKeptFromOthers

-----------------------------------------------------------------------------
(***************************************************************************)
(* Transactions.                                                           *)
(***************************************************************************)
\* Rows of a seq-numbered table, as tables and frames hold them.
DbRows == [id : Ids, seq : Nat]

\* One BEGIN or SAVEPOINT of a connection and the rows written under it.
FrameSet == [tag : (Actors \cup {None}) \X Nat, rows : SUBSET DbRows]

\* One open call of a helper and the ids its block has inserted.
CallSet ==
    [kind : Kinds, mode : {"begin", "savepoint"},
     tag : Actors \X Nat, ids : SUBSET Ids]

\* The types of the database, the connections and the threads.
TxTypeOK ==
    /\ journal \in Journals
    /\ disk \subseteq DbRows
    /\ conn \in [Conns -> [frames : Seq(FrameSet), reading : BOOLEAN,
                           seen : SUBSET DbRows]]
    /\ writer \in Conns \cup {None}
    /\ rlock \in [Conns -> Actors \cup {None}]
    /\ calls \in [Actors -> Seq(CallSet)]
    /\ depth \in [Actors -> Nat]
    /\ last \in [Actors -> Nat \cup {Unread}]
    /\ fate \in [Ids -> {"unused", "open", "kept", "undone", "skipped"}]

\* a is inside a helper.
Busy(a) == calls[a] # <<>>

\* The tag of the frame that a call opened.
FrameTag(call) == IF call.mode = "begin" THEN BeginTag ELSE call.tag

\* The i-th open call of a made the i-th open frame of its connection.
Stacked(a) ==
    /\ Len(conn[Conn[a]].frames) = Len(calls[a])
    /\ \A i \in 1 .. Len(calls[a]) :
          /\ calls[a][i].tag = <<a, i>>
          /\ conn[Conn[a]].frames[i].tag = FrameTag(calls[a][i])
          /\ {r.id : r \in conn[Conn[a]].frames[i].rows} = calls[a][i].ids
          /\ calls[a][i].mode = "begin" => i = 1
          /\ calls[a][i].kind = "mutex" =>
                depth[a] >= i /\ calls[a][1].kind = "mutex"

\* How the outermost call of a was let in.
Outer(a) ==
    /\ calls[a][1].kind \in Opens[a]
    /\ calls[a][1].mode = "begin" \/ ~Shared(a)
    /\ calls[a][1].kind = "mutex" \/ ~Shared(a) \/ depth[a] = 0
    /\ \/ calls[a][1].kind = "summary"
       \/ calls[a][1].kind \in {"conversation", "mutex"} /\ writer = Conn[a]
       \/ calls[a][1].kind = "mutex" /\ ~Shared(a)
    /\ \A b \in Actors \ {a} : Conn[b] = Conn[a] => rlock[Conn[a]] = a

\* Frames, locks and depths follow the open calls of one thread per connection.
Owned ==
    /\ \A a \in Actors : Busy(a) => Stacked(a) /\ Outer(a)
    /\ \A a \in Actors : ~Busy(a) =>
          last[a] = Unread /\ (Shared(a) => depth[a] = 0)
    /\ \A c \in Conns :
          conn[c] # Idle => \E a \in Actors : Conn[a] = c /\ Busy(a)

\* The rows of the frames up to the i-th.
Under(f, i) == UNION {f[j].rows : j \in 1 .. i}

\* Seqs without gap and from 1 on: what MAX(seq) + 1 extends.
Dense(S) == IsFiniteSet(S) /\ {r.seq : r \in S} = 1 .. Cardinality(S)

\* The rows of a connection number on from the stored ones, whatever savepoint
\* they are cut back to, and only the writer has any.
Sequenced ==
    /\ Dense(disk)
    /\ \A c \in Conns :
          IF writer = c
          THEN /\ conn[c].reading /\ conn[c].seen = disk
               /\ \A i \in 0 .. Len(conn[c].frames) :
                     Dense(disk \cup Under(conn[c].frames, i))
          ELSE /\ Dense(conn[c].seen)
               /\ Under(conn[c].frames, Len(conn[c].frames)) = {}
    /\ \A a \in Actors : last[a] # Unread =>
          /\ conn[Conn[a]].reading
          /\ last[a] = Max({0} \cup {r.seq : r \in View(Conn[a])})

\* Where the rows of an id are for each answer its caller may have had.
Fated ==
    /\ \A i \in Ids : fate[i] = "kept" <=> \E r \in disk : r.id = i
    /\ \A i \in Ids : fate[i] = "open" <=>
          \E a \in Actors : \E j \in 1 .. Len(calls[a]) : i \in calls[a][j].ids
    /\ \A i \in Ids : fate[i] # "skipped"
    /\ \A a, b \in Actors : \A j \in 1 .. Len(calls[a]), k \in 1 .. Len(calls[b]) :
          a # b \/ j # k => calls[a][j].ids \cap calls[b][k].ids = {}

\* The inductive invariant.
TxInv == TxTypeOK /\ Owned /\ Sequenced /\ Fated

-----------------------------------------------------------------------------
(* Rows and their numbers.                                                 *)

\* All frames of a connection.
LEMMA RowsFromOne ==
    ASSUME NEW c
    PROVE  RowsFrom(c, 1) = Under(conn[c].frames, Len(conn[c].frames))
  BY DEF RowsFrom, Under

\* Numbering on: the next row has the next seq.
LEMMA DenseNext ==
    ASSUME NEW S, Dense(S), S \subseteq DbRows, NEW r \in DbRows,
           r.seq = Cardinality(S) + 1
    PROVE  Dense(S \cup {r}) /\ (\A s \in S : s.seq # r.seq)
  <1>1. Cardinality(S) \in Nat
    BY FS_CardinalityType DEF Dense
  <1>2. ASSUME NEW s \in S PROVE s.seq # r.seq
    <2>1. s.seq \in 1 .. Cardinality(S)
      BY DEF Dense
    <2>2. QED
      BY <1>1, <2>1
  <1>3. r \notin S
    BY <1>2
  <1>4. IsFiniteSet(S \cup {r}) /\ Cardinality(S \cup {r}) = Cardinality(S) + 1
    BY <1>3, FS_AddElement DEF Dense
  <1>5. {s.seq : s \in S \cup {r}} = {s.seq : s \in S} \cup {r.seq}
    OBVIOUS
  <1>6. {s.seq : s \in S \cup {r}} = 1 .. Cardinality(S) + 1
    <2> HIDE DEF Dense
    <2>1. {s.seq : s \in S} = 1 .. Cardinality(S)
      BY DEF Dense
    <2>2. QED
      BY <1>1, <1>5, <2>1
  <1>7. QED
    BY <1>2, <1>4, <1>6 DEF Dense

\* get_max_seq of rows that are numbered from 1 is their number.
LEMMA DenseMax ==
    ASSUME NEW S, Dense(S)
    PROVE  Max({0} \cup {r.seq : r \in S}) = Cardinality(S)
  <1>1. Cardinality(S) \in Nat
    BY FS_CardinalityType DEF Dense
  <1>2. {0} \cup {r.seq : r \in S} = 0 .. Cardinality(S)
    <2>1. {r.seq : r \in S} = 1 .. Cardinality(S)
      BY DEF Dense
    <2>2. QED
      BY <1>1, <2>1
  <1>3. Max(0 .. Cardinality(S)) = Cardinality(S)
    <2> DEFINE n == Cardinality(S)
    <2> HIDE DEF n
    <2>1. n \in Nat
      BY <1>1 DEF n
    <2>2. \E x \in 0 .. n : \A y \in 0 .. n : x >= y
      BY <2>1
    <2>3. Max(0 .. n) \in 0 .. n /\ \A y \in 0 .. n : Max(0 .. n) >= y
      BY <2>2 DEF Max
    <2>4. Max(0 .. n) = n
      BY <2>1, <2>3
    <2>5. QED
      BY <2>4 DEF n
  <1>4. QED
    BY <1>2, <1>3

\* A set of numbers that is not empty has a least one.
LEMMA LeastId ==
    ASSUME NEW S, S \subseteq Nat, S # {}
    PROVE  Min(S) \in S
  <1>1. PICK x \in S : \A y \in S : ~(<<y, x>> \in OpToRel(<, Nat))
    BY NatLessThanWellFounded, WFMin
  <1>2. ASSUME NEW y \in S, y < x PROVE FALSE
    <2>1. <<y, x>> \in Nat \X Nat /\ <<y, x>>[1] < <<y, x>>[2]
      BY <1>2
    <2>2. <<y, x>> \in OpToRel(<, Nat)
      BY <2>1 DEF OpToRel
    <2>3. QED
      BY <1>1, <2>2
  <1>3. \A y \in S : x <= y
    BY <1>2
  <1>4. QED
    BY <1>3 DEF Min

\* What frames hold are rows.
LEMMA UnderType ==
    ASSUME NEW f \in Seq(FrameSet), NEW i \in 0 .. Len(f)
    PROVE  Under(f, i) \subseteq DbRows
  <1>1. ASSUME NEW j \in 1 .. i PROVE f[j].rows \subseteq DbRows
    <2>1. f[j] \in FrameSet
      OBVIOUS
    <2>2. QED
      BY <2>1 DEF FrameSet
  <1>2. QED
    BY <1>1 DEF Under

\* SAVEPOINT opens a frame without rows.
LEMMA UnderPushed ==
    ASSUME NEW f \in Seq(FrameSet), NEW t
    PROVE  \A i \in 0 .. Len(f) + 1 :
              Under(Append(f, Frame(t)), i) =
                  Under(f, IF i <= Len(f) THEN i ELSE Len(f))
  <1> DEFINE g == Append(f, Frame(t))
  <1>1. \A j \in 1 .. Len(f) : g[j] = f[j]
    OBVIOUS
  <1>2. g[Len(f) + 1].rows = {}
    BY DEF Frame
  <1>3. Len(f) \in Nat
    OBVIOUS
  <1> HIDE DEF g
  <1>4. ASSUME NEW i \in 0 .. Len(f) PROVE Under(g, i) = Under(f, i)
    BY <1>1, <1>3 DEF Under
  <1>5. Under(g, Len(f) + 1) = Under(f, Len(f))
    <2>1. 1 .. Len(f) + 1 = (1 .. Len(f)) \cup {Len(f) + 1}
      BY <1>3
    <2>2. QED
      BY <1>1, <1>2, <2>1 DEF Under
  <1>6. QED
    BY <1>3, <1>4, <1>5 DEF g

\* ROLLBACK TO cuts the last frame off.
LEMMA UnderCut ==
    ASSUME NEW f \in Seq(FrameSet), Len(f) >= 1
    PROVE  \A i \in 0 .. Len(f) - 1 :
              Under(SubSeq(f, 1, Len(f) - 1), i) = Under(f, i)
  <1>1. \A j \in 1 .. Len(f) - 1 : SubSeq(f, 1, Len(f) - 1)[j] = f[j]
    OBVIOUS
  <1>2. QED
    BY <1>1 DEF Under

\* The frames after RELEASE of the last savepoint.
Released(f) ==
    [SubSeq(f, 1, Len(f) - 1) EXCEPT ![Len(f) - 1].rows = @ \cup f[Len(f)].rows]

\* RELEASE hands the rows of the last savepoint to the frame below.
LEMMA ReleasedFacts ==
    ASSUME NEW f \in Seq(FrameSet), Len(f) >= 2
    PROVE  /\ Released(f) \in Seq(FrameSet)
           /\ Len(Released(f)) = Len(f) - 1
           /\ \A j \in 1 .. Len(f) - 2 : Released(f)[j] = f[j]
           /\ Released(f)[Len(f) - 1].tag = f[Len(f) - 1].tag
           /\ Released(f)[Len(f) - 1].rows =
                  f[Len(f) - 1].rows \cup f[Len(f)].rows
           /\ \A i \in 0 .. Len(f) - 2 : Under(Released(f), i) = Under(f, i)
           /\ Under(Released(f), Len(f) - 1) = Under(f, Len(f))
  <1> DEFINE n == Len(f) - 1
             s == SubSeq(f, 1, n)
             e == [s[n] EXCEPT !.rows = @ \cup f[n + 1].rows]
  <1>1. n \in Nat /\ n >= 1 /\ Len(f) = n + 1
    OBVIOUS
  <1>2. s \in Seq(FrameSet) /\ Len(s) = n /\ \A j \in 1 .. n : s[j] = f[j]
    OBVIOUS
  <1>3. f[n] \in FrameSet /\ f[n + 1] \in FrameSet
    OBVIOUS
  <1>4. e \in FrameSet /\ e.tag = f[n].tag /\ e.rows = f[n].rows \cup f[n + 1].rows
    <2>1. s[n] = f[n]
      BY <1>1, <1>2
    <2> HIDE DEF s, n
    <2>2. QED
      BY <1>3, <2>1 DEF FrameSet
  <1>5. Released(f) = [s EXCEPT ![n] = e]
    BY <1>1 DEF Released
  <1>6. /\ Released(f) \in Seq(FrameSet)
        /\ Len(Released(f)) = n
        /\ \A j \in 1 .. n : Released(f)[j] = IF j = n THEN e ELSE s[j]
    <2> HIDE DEF e, s, n
    <2>1. n \in 1 .. Len(s)
      BY <1>1, <1>2
    <2>2. QED
      BY <1>2, <1>4, <1>5, <2>1, ExceptSeq
  <1> HIDE DEF e, s, n
  <1>7. \A j \in 1 .. n - 1 : Released(f)[j] = f[j]
    BY <1>1, <1>2, <1>6
  <1>8. Released(f)[n] = e
    BY <1>1, <1>6
  <1>9. ASSUME NEW i \in 0 .. n - 1 PROVE Under(Released(f), i) = Under(f, i)
    BY <1>1, <1>7 DEF Under
  <1>10. Under(Released(f), n) = Under(f, n + 1)
    <2>1. 1 .. n = (1 .. n - 1) \cup {n}
      BY <1>1
    <2>2. 1 .. n + 1 = (1 .. n - 1) \cup {n, n + 1}
      BY <1>1
    <2>3. Under(Released(f), n) =
              (UNION {f[j].rows : j \in 1 .. n - 1}) \cup f[n].rows \cup f[n + 1].rows
      <3>1. \A j \in 1 .. n - 1 : Released(f)[j].rows = f[j].rows
        BY <1>7
      <3>2. Released(f)[n].rows = f[n].rows \cup f[n + 1].rows
        BY <1>4, <1>8
      <3>3. Under(Released(f), n) =
                (UNION {Released(f)[j].rows : j \in 1 .. n - 1}) \cup Released(f)[n].rows
        BY <2>1 DEF Under
      <3>4. {Released(f)[j].rows : j \in 1 .. n - 1} = {f[j].rows : j \in 1 .. n - 1}
        BY <3>1
      <3>5. QED
        BY <3>2, <3>3, <3>4
    <2>4. Under(f, n + 1) =
              (UNION {f[j].rows : j \in 1 .. n - 1}) \cup f[n].rows \cup f[n + 1].rows
      BY <2>2 DEF Under
    <2>5. QED
      BY <2>3, <2>4
  <1>11. Len(f) - 2 = n - 1 /\ Len(f) - 1 = n
    BY <1>1 DEF n
  <1>12. QED
    BY <1>1, <1>4, <1>6, <1>7, <1>8, <1>9, <1>10, <1>11

\* The frames after an INSERT.
Inserted(f, r) == [f EXCEPT ![Len(f)].rows = @ \cup {r}]

\* INSERT adds a row to the last frame and to no savepoint below.
LEMMA InsertedFacts ==
    ASSUME NEW f \in Seq(FrameSet), Len(f) >= 1, NEW r \in DbRows
    PROVE  /\ Inserted(f, r) \in Seq(FrameSet)
           /\ Len(Inserted(f, r)) = Len(f)
           /\ \A j \in 1 .. Len(f) - 1 : Inserted(f, r)[j] = f[j]
           /\ Inserted(f, r)[Len(f)].tag = f[Len(f)].tag
           /\ Inserted(f, r)[Len(f)].rows = f[Len(f)].rows \cup {r}
           /\ \A i \in 0 .. Len(f) - 1 : Under(Inserted(f, r), i) = Under(f, i)
           /\ Under(Inserted(f, r), Len(f)) = Under(f, Len(f)) \cup {r}
  <1> DEFINE n == Len(f)
             e == [f[n] EXCEPT !.rows = @ \cup {r}]
  <1>1. n \in Nat /\ n >= 1 /\ f[n] \in FrameSet
    OBVIOUS
  <1>2. e \in FrameSet /\ e.tag = f[n].tag /\ e.rows = f[n].rows \cup {r}
    BY <1>1 DEF FrameSet
  <1>3. Inserted(f, r) = [f EXCEPT ![n] = e]
    BY DEF Inserted
  <1>4. /\ Inserted(f, r) \in Seq(FrameSet)
        /\ Len(Inserted(f, r)) = n
        /\ \A j \in 1 .. n : Inserted(f, r)[j] = IF j = n THEN e ELSE f[j]
    <2> HIDE DEF e
    <2>1. QED
      BY <1>1, <1>2, <1>3, ExceptSeq
  <1> HIDE DEF e
  <1>5. \A j \in 1 .. n - 1 : Inserted(f, r)[j] = f[j]
    BY <1>1, <1>4
  <1>6. Inserted(f, r)[n] = e
    BY <1>1, <1>4
  <1> HIDE DEF n
  <1>7. ASSUME NEW i \in 0 .. n - 1 PROVE Under(Inserted(f, r), i) = Under(f, i)
    BY <1>1, <1>5 DEF Under
  <1>8. Under(Inserted(f, r), n) = Under(f, n) \cup {r}
    <2>1. 1 .. n = (1 .. n - 1) \cup {n}
      BY <1>1
    <2>2. QED
      BY <1>2, <1>5, <1>6, <2>1 DEF Under
  <1>9. QED
    BY <1>2, <1>4, <1>5, <1>6, <1>7, <1>8 DEF n

-----------------------------------------------------------------------------
(* What the invariant says of a thread and its connection.                 *)

\* One frame for each open call.
LEMMA BusyFacts ==
    ASSUME TxInv, NEW a \in Actors, Busy(a)
    PROVE  /\ Conn[a] \in Conns
           /\ calls[a] \in Seq(CallSet)
           /\ Len(calls[a]) \in Nat \ {0}
           /\ conn[Conn[a]].frames \in Seq(FrameSet)
           /\ Len(conn[Conn[a]].frames) = Len(calls[a])
           /\ InTxn(Conn[a])
           /\ Top(a) = calls[a][Len(calls[a])]
           /\ Top(a) \in CallSet
           /\ Stacked(a) /\ Outer(a)
  <1>1. Conn[a] \in Conns
    BY TransactionsAssumption
  <1>2. calls[a] \in Seq(CallSet) /\ conn[Conn[a]].frames \in Seq(FrameSet)
    BY <1>1 DEF TxInv, TxTypeOK
  <1>3. Len(calls[a]) \in Nat \ {0}
    BY <1>2 DEF Busy
  <1>4. Stacked(a) /\ Outer(a)
    BY DEF TxInv, Owned
  <1>5. Len(conn[Conn[a]].frames) = Len(calls[a])
    BY <1>4 DEF Stacked
  <1>6. InTxn(Conn[a])
    BY <1>2, <1>3, <1>5 DEF InTxn
  <1>7. Top(a) = calls[a][Len(calls[a])] /\ Top(a) \in CallSet
    BY <1>2, <1>3 DEF Top, Last
  <1>8. QED
    BY <1>1, <1>2, <1>3, <1>4, <1>5, <1>6, <1>7

\* The savepoint of the innermost call is the innermost savepoint.
LEMMA FindTop ==
    ASSUME TxInv, NEW a \in Actors, Busy(a), Top(a).mode # "begin"
    PROVE  Find(Conn[a], Top(a).tag) = Len(calls[a])
  <1> DEFINE n == Len(calls[a])
             f == conn[Conn[a]].frames
             D == {i \in DOMAIN f : f[i].tag = Top(a).tag}
  <1>1. n \in Nat \ {0} /\ f \in Seq(FrameSet) /\ Len(f) = n /\ Stacked(a)
    BY BusyFacts
  <1>2. Top(a) = calls[a][n]
    BY BusyFacts
  <1>3. Top(a).tag = <<a, n>> /\ f[n].tag = <<a, n>>
    BY <1>1, <1>2 DEF Stacked, FrameTag
  <1>4. ASSUME NEW i \in 1 .. n, f[i].tag = <<a, n>> PROVE i = n
    <2>1. f[i].tag = BeginTag \/ f[i].tag = <<a, i>>
      BY <1>1 DEF Stacked, FrameTag
    <2>2. QED
      BY <1>1, <1>4, <2>1 DEF BeginTag
  <1>5. DOMAIN f = 1 .. n
    BY <1>1
  <1>6. {0} \cup D = {0, n}
    <2>1. \A i \in D : i \in 1 .. n /\ f[i].tag = <<a, n>>
      BY <1>3, <1>5
    <2>2. n \in D
      BY <1>1, <1>3, <1>5
    <2>3. \A i \in D : i = n
      BY <1>4, <2>1
    <2> HIDE DEF D, n
    <2>4. QED
      BY <2>2, <2>3
  <1>7. Find(Conn[a], Top(a).tag) = Max({0, n})
    BY <1>6 DEF Find
  <1>8. \E x \in {0, n} : \A y \in {0, n} : x >= y
    BY <1>1
  <1>9. Max({0, n}) \in {0, n} /\ Max({0, n}) >= n
    BY <1>8 DEF Max
  <1>10. QED
    BY <1>1, <1>7, <1>9

\* The outermost call commits, and nobody ended its transaction under it.
LEMMA EndFacts ==
    ASSUME TxInv, NEW a \in Actors, Busy(a)
    PROVE  /\ Commits(a) <=> Len(calls[a]) = 1
           /\ ~Gone(a)
  <1>1. CASE Top(a).mode = "begin"
    <2>1. Len(calls[a]) = 1
      <3>1. Len(calls[a]) \in 1 .. Len(calls[a])
        BY BusyFacts
      <3>2. QED
        BY <1>1, <3>1, BusyFacts DEF Stacked
    <2>2. QED
      BY <1>1, <2>1, BusyFacts DEF Commits, Gone
  <1>2. CASE Top(a).mode # "begin"
    <2>1. Find(Conn[a], Top(a).tag) = Len(calls[a])
      BY <1>2, FindTop
    <2>2. QED
      BY <1>2, <2>1, BusyFacts DEF Commits, Gone
  <1>3. QED
    BY <1>1, <1>2

\* One thread at a time is inside a transaction of a connection.
LEMMA Alone ==
    ASSUME TxInv, NEW a \in Actors, Busy(a),
           NEW b \in Actors, b # a, Conn[b] = Conn[a]
    PROVE  ~Busy(b)
  BY BusyFacts DEF Outer

\* Who is inside a helper has its connection in a transaction.
LEMMA IdleConn ==
    ASSUME TxInv, NEW a \in Actors, conn[Conn[a]] = Idle
    PROVE  ~Busy(a)
  BY BusyFacts DEF Idle, InTxn

\* The writer is inside a transaction.
LEMMA WriterBusy ==
    ASSUME TxInv, NEW c \in Conns, writer = c
    PROVE  conn[c] # Idle
  BY DEF TxInv, Sequenced, Idle

\* A nested call is inside one of its own thread, or in the repair that follows
\* a failed BEGIN, which takes itself for nested.
LEMMA EnterNestedFacts ==
    ASSUME TxInv, Disciplined, NEW a \in Actors, NEW k \in Kinds, EnterNested(a, k)
    PROVE  /\ Busy(a) /\ k = "mutex" =>
                 depth[a] >= Len(calls[a]) /\ calls[a][1].kind = "mutex"
           /\ ~Busy(a) => /\ conn[Conn[a]] = Idle
                          /\ k = "mutex" /\ k \in Opens[a]
                          /\ ~Shared(a)
                          /\ \A b \in Actors \ {a} : Conn[b] # Conn[a]
  <1>1. MayCall(a, k) /\ Nested(a, k)
    BY DEF EnterNested
  <1>2. ASSUME Busy(a), k = "mutex"
        PROVE  depth[a] >= Len(calls[a]) /\ calls[a][1].kind = "mutex"
    <2>1. <<Top(a).kind, "mutex">> \in Nests
      BY <1>1, <1>2 DEF MayCall, Busy
    <2>2. Top(a).kind = "mutex"
      BY <1>2, <2>1, BusyFacts DEF Disciplined, CallSet
    <2>3. Len(calls[a]) \in 1 .. Len(calls[a])
      BY <1>2, BusyFacts
    <2>4. QED
      BY <1>2, <2>2, <2>3, BusyFacts DEF Stacked
  <1>3. ASSUME ~Busy(a)
        PROVE  /\ conn[Conn[a]] = Idle
               /\ k = "mutex" /\ k \in Opens[a]
               /\ ~Shared(a)
               /\ \A b \in Actors \ {a} : Conn[b] # Conn[a]
    <2>1. k \in Opens[a]
      BY <1>1, <1>3 DEF MayCall, Busy
    <2>2. Conn[a] \in Conns
      BY TransactionsAssumption
    <2>3. k = "mutex"
      <3>1. SUFFICES ASSUME k # "mutex" PROVE FALSE
        OBVIOUS
      <3>2. InTxn(Conn[a])
        BY <1>1, <3>1 DEF Nested
      <3>3. conn[Conn[a]] # Idle
        BY <3>2 DEF Idle, InTxn
      <3>4. PICK b \in Actors : Conn[b] = Conn[a] /\ Busy(b)
        BY <2>2, <3>3 DEF TxInv, Owned
      <3>5. QED
        BY <1>3, <2>1, <3>1, <3>4 DEF Disciplined, Shared
    <2>4. ~Shared(a)
      <3>1. depth[a] > 0
        BY <1>1, <2>3 DEF Nested
      <3>2. QED
        BY <1>3, <3>1 DEF TxInv, Owned
    <2>5. \A b \in Actors \ {a} : Conn[b] # Conn[a]
      BY <2>4 DEF Shared
    <2>6. conn[Conn[a]] = Idle
      BY <1>3, <2>2, <2>5 DEF TxInv, Owned
    <2>7. QED
      BY <2>1, <2>3, <2>4, <2>5, <2>6
  <1>4. QED
    BY <1>2, <1>3

\* with_transaction begins only on a connection of its own.
LEMMA EnterStoreFacts ==
    ASSUME TxInv, Disciplined, NEW a \in Actors, NEW k \in Kinds, EnterStore(a, k)
    PROVE  /\ ~Busy(a) /\ conn[Conn[a]] = Idle /\ k \in Opens[a]
           /\ \A b \in Actors \ {a} : Conn[b] # Conn[a]
  <1>1. MayCall(a, k) /\ ~InTxn(Conn[a]) /\ k # "mutex"
    BY DEF EnterStore, Nested
  <1>2. ~Busy(a)
    BY <1>1, BusyFacts
  <1>3. k \in Opens[a]
    BY <1>1, <1>2 DEF MayCall, Busy
  <1>4. \A b \in Actors \ {a} : Conn[b] # Conn[a]
    BY <1>1, <1>3 DEF Disciplined, Shared
  <1>5. conn[Conn[a]] = Idle
    BY <1>2, <1>4, TransactionsAssumption DEF TxInv, Owned
  <1>6. QED
    BY <1>2, <1>3, <1>4, <1>5

\* The lock is free only when the connection is, so that the COMMIT of what is
\* open finds nothing.
LEMMA EnterMutexFacts ==
    ASSUME TxInv, Disciplined, NEW a \in Actors,
           EnterMutex(a) \/ EnterMutexFails(a)
    PROVE  ~Busy(a) /\ conn[Conn[a]] = Idle /\ "mutex" \in Opens[a]
  <1>1. /\ MayCall(a, "mutex") /\ depth[a] <= 0 /\ rlock[Conn[a]] = None
    <2>1. MayCall(a, "mutex") /\ ~(depth[a] > 0) /\ rlock[Conn[a]] = None
      BY DEF EnterMutex, EnterMutexFails, Nested, LockFree
    <2>2. depth[a] \in Nat
      BY DEF TxInv, TxTypeOK
    <2>3. QED
      BY <2>1, <2>2
  <1>2. ~Busy(a)
    <2>1. SUFFICES ASSUME Busy(a) PROVE FALSE
      OBVIOUS
    <2>2. <<Top(a).kind, "mutex">> \in Nests
      BY <1>1, <2>1 DEF MayCall, Busy
    <2>3. Top(a).kind = "mutex"
      BY <2>1, <2>2, BusyFacts DEF Disciplined, CallSet
    <2>4. Len(calls[a]) \in 1 .. Len(calls[a]) /\ Len(calls[a]) >= 1
      BY <2>1, BusyFacts
    <2>5. depth[a] >= Len(calls[a])
      BY <2>1, <2>3, <2>4, BusyFacts DEF Stacked
    <2>6. depth[a] \in Nat
      BY DEF TxInv, TxTypeOK
    <2>7. QED
      BY <1>1, <2>4, <2>5, <2>6
  <1>3. "mutex" \in Opens[a]
    BY <1>1, <1>2 DEF MayCall, Busy
  <1>4. conn[Conn[a]] = Idle
    <2>1. SUFFICES ASSUME conn[Conn[a]] # Idle PROVE FALSE
      OBVIOUS
    <2>2. PICK b \in Actors : Conn[b] = Conn[a] /\ Busy(b)
      BY <2>1, TransactionsAssumption DEF TxInv, Owned
    <2>3. rlock[Conn[b]] = b
      BY <1>2, <2>2, BusyFacts DEF Outer
    <2>4. QED
      BY <1>1, <2>2, <2>3, TransactionsAssumption
  <1>5. QED
    BY <1>2, <1>3, <1>4

\* What BEGIN and SAVEPOINT have in common: a call and a frame without rows.
Opened(a, k, mode) ==
    LET c == Conn[a]
        tag == <<a, Len(calls[a]) + 1>>
        new == [kind |-> k, mode |-> mode, tag |-> tag, ids |-> {}]
    IN  /\ Busy(a) \/ conn[c] = Idle
        /\ Busy(a) => mode = "savepoint"
        /\ calls' = [calls EXCEPT ![a] = Append(calls[a], new)]
        /\ \E reading \in BOOLEAN, seen \in SUBSET DbRows :
              /\ conn' = [conn EXCEPT ![c] =
                    [frames |-> Append(conn[c].frames, Frame(FrameTag(new))),
                     reading |-> reading, seen |-> seen]]
              /\ \/ /\ reading = conn[c].reading /\ seen = conn[c].seen
                    /\ writer' = writer
                 \/ /\ reading = TRUE /\ seen = disk
                    /\ conn[c] = Idle /\ writer' = c /\ writer \in {None, c}
        /\ UNCHANGED <<journal, disk, last, fate>>

\* with_transaction within a transaction opens a savepoint.
LEMMA NestedOpens ==
    ASSUME TxInv, Disciplined, NEW a \in Actors, NEW k \in Kinds, EnterNested(a, k)
    PROVE  Opened(a, k, "savepoint")
  <1> DEFINE c == Conn[a]
             new == [kind |-> k, mode |-> "savepoint",
                     tag |-> <<a, Len(calls[a]) + 1>>, ids |-> {}]
  <1>1. c \in Conns
    BY TransactionsAssumption
  <1>2. /\ conn[c].reading \in BOOLEAN /\ conn[c].seen \in SUBSET DbRows
        /\ conn[c] = [frames |-> conn[c].frames, reading |-> conn[c].reading,
                      seen |-> conn[c].seen]
    BY <1>1 DEF TxInv, TxTypeOK
  <1>3. FrameTag(new) = Tag(a)
    BY DEF FrameTag, Tag
  <1>4. conn' = [conn EXCEPT ![c].frames = Append(conn[c].frames, Frame(Tag(a)))]
    BY DEF EnterNested, SetFrames
  <1>5. conn' = [conn EXCEPT ![c] =
                    [frames |-> Append(conn[c].frames, Frame(FrameTag(new))),
                     reading |-> conn[c].reading, seen |-> conn[c].seen]]
    <2>1. [conn[c] EXCEPT !.frames = Append(conn[c].frames, Frame(Tag(a)))] =
              [frames |-> Append(conn[c].frames, Frame(Tag(a))),
               reading |-> conn[c].reading, seen |-> conn[c].seen]
      BY <1>2
    <2>2. QED
      BY <1>3, <1>4, <2>1
  <1>6. calls' = [calls EXCEPT ![a] = Append(calls[a], new)]
    BY DEF EnterNested, Push, Tag
  <1>7. Busy(a) \/ conn[c] = Idle
    BY EnterNestedFacts
  <1>8. UNCHANGED <<journal, disk, last, fate, writer>>
    BY DEF EnterNested, SetFrames
  <1> HIDE DEF new, c
  <1>9. QED
    BY <1>2, <1>5, <1>6, <1>7, <1>8 DEF Opened, new, c

\* with_transaction outside of one begins; ConversationStore takes the write
\* lock (BEGIN IMMEDIATE).
LEMMA StoreOpens ==
    ASSUME TxInv, Disciplined, NEW a \in Actors, NEW k \in Kinds, EnterStore(a, k)
    PROVE  /\ Opened(a, k, "begin")
           /\ k \in {"conversation", "summary"}
           /\ k = "conversation" => writer' = Conn[a]
  <1> DEFINE c == Conn[a]
             new == [kind |-> k, mode |-> "begin",
                     tag |-> <<a, Len(calls[a]) + 1>>, ids |-> {}]
  <1>1. ~Busy(a) /\ conn[c] = Idle
    BY EnterStoreFacts
  <1>2. FrameTag(new) = BeginTag
    BY DEF FrameTag
  <1>3. RowsFrom(c, 1) = {} /\ Append(conn[c].frames, Frame(BeginTag)) = <<Frame(BeginTag)>>
    BY <1>1 DEF RowsFrom, Idle
  <1>4. calls' = [calls EXCEPT ![a] = Append(calls[a], new)]
    BY DEF EnterStore, Push, Tag
  <1>5. UNCHANGED <<journal, disk, last, fate>>
    BY DEF EnterStore
  <1>6. k \in {"conversation", "summary"}
    BY DEF EnterStore, Kinds
  <1>7. disk \in SUBSET DbRows /\ {} \in SUBSET DbRows
    BY DEF TxInv, TxTypeOK
  <1>8. CASE k = "summary"
    <2>1. conn' = [conn EXCEPT ![c] = [frames |-> <<Frame(BeginTag)>>,
                                       reading |-> FALSE, seen |-> {}]]
      <3>1. Begun(c, k) = [frames |-> <<Frame(BeginTag)>>, reading |-> FALSE, seen |-> {}]
        BY <1>8 DEF Begun, Idle
      <3>2. conn' = [conn EXCEPT ![c] = Begun(c, k)]
        BY DEF EnterStore
      <3>3. QED
        BY <3>1, <3>2
    <2>2. writer' = writer
      BY <1>8 DEF EnterStore
    <2>3. conn[c].reading = FALSE /\ conn[c].seen = {}
      BY <1>1 DEF Idle
    <2> HIDE DEF new, c
    <2>4. Opened(a, k, "begin")
      BY <1>1, <1>2, <1>3, <1>4, <1>5, <1>7, <2>1, <2>2, <2>3 DEF Opened, new, c
    <2>5. QED
      BY <1>6, <1>8, <2>4
  <1>9. CASE k = "conversation"
    <2>1. conn' = [conn EXCEPT ![c] = [frames |-> <<Frame(BeginTag)>>,
                                       reading |-> TRUE, seen |-> disk]]
      BY <1>3, <1>9 DEF EnterStore, Begun
    <2>2. writer' = c /\ writer = None
      BY <1>9 DEF EnterStore
    <2> HIDE DEF new, c
    <2>3. Opened(a, k, "begin")
      BY <1>1, <1>2, <1>3, <1>4, <1>5, <1>7, <2>1, <2>2 DEF Opened, new, c
    <2>4. QED
      BY <1>6, <2>2, <2>3 DEF c
  <1>10. QED
    BY <1>6, <1>8, <1>9

\* with_database_transaction begins and takes the write lock.
LEMMA MutexOpens ==
    ASSUME TxInv, Disciplined, NEW a \in Actors, EnterMutex(a)
    PROVE  Opened(a, "mutex", "begin") /\ writer' = Conn[a]
  <1> DEFINE c == Conn[a]
             new == [kind |-> "mutex", mode |-> "begin",
                     tag |-> <<a, Len(calls[a]) + 1>>, ids |-> {}]
  <1>1. ~Busy(a) /\ conn[c] = Idle
    BY EnterMutexFacts
  <1>2. FrameTag(new) = BeginTag
    BY DEF FrameTag
  <1>3. RowsFrom(c, 1) = {} /\ Append(conn[c].frames, Frame(BeginTag)) = <<Frame(BeginTag)>>
    BY <1>1 DEF RowsFrom, Idle
  <1>4. calls' = [calls EXCEPT ![a] = Append(calls[a], new)]
    BY DEF EnterMutex, Push, Tag
  <1>5. UNCHANGED <<journal, disk, last, fate>>
    BY <1>3 DEF EnterMutex
  <1>6. disk \in SUBSET DbRows
    BY DEF TxInv, TxTypeOK
  <1>7. conn' = [conn EXCEPT ![c] = [frames |-> <<Frame(BeginTag)>>,
                                     reading |-> TRUE, seen |-> disk]]
    BY <1>3 DEF EnterMutex, Begun
  <1>8. writer' = c /\ writer \in {None, c}
    BY DEF EnterMutex
  <1> HIDE DEF new, c
  <1>9. Opened(a, "mutex", "begin")
    BY <1>1, <1>2, <1>3, <1>4, <1>5, <1>6, <1>7, <1>8 DEF Opened, new, c
  <1>10. QED
    BY <1>8, <1>9 DEF c

-----------------------------------------------------------------------------
(* The numbering through a step.                                           *)

\* A step of a on its connection c leaves the other connections alone.
LEMMA SequencedStep ==
    ASSUME TxInv, NEW a \in Actors, NEW now, NEW l,
           conn' = [conn EXCEPT ![Conn[a]] = now],
           last' = [last EXCEPT ![a] = l],
           \A d \in Conns \ {Conn[a]} : writer' = d <=> writer = d,
           \A d \in Conns \ {Conn[a]} : writer = d => disk' = disk,
           \A b \in Actors \ {a} : Conn[b] = Conn[a] => last[b] = Unread,
           Dense(disk'),
           IF writer' = Conn[a]
           THEN /\ now.reading /\ now.seen = disk'
                /\ \A i \in 0 .. Len(now.frames) : Dense(disk' \cup Under(now.frames, i))
           ELSE Dense(now.seen) /\ Under(now.frames, Len(now.frames)) = {},
           l # Unread =>
              /\ now.reading
              /\ l = Max({0} \cup
                         {r.seq : r \in now.seen \cup Under(now.frames, Len(now.frames))})
    PROVE  Sequenced'
  <1> DEFINE c == Conn[a]
  <1>1. c \in Conns /\ \A b \in Actors : Conn[b] \in Conns
    BY TransactionsAssumption
  <1>2. conn'[c] = now /\ \A d \in Conns \ {c} : conn'[d] = conn[d]
    BY <1>1 DEF TxInv, TxTypeOK
  <1>3. last'[a] = l /\ \A b \in Actors \ {a} : last'[b] = last[b]
    BY DEF TxInv, TxTypeOK
  <1>4. Sequenced
    BY DEF TxInv
  <1>5. ASSUME NEW d \in Conns
        PROVE  IF writer' = d
               THEN /\ conn'[d].reading /\ conn'[d].seen = disk'
                    /\ \A i \in 0 .. Len(conn'[d].frames) :
                          Dense(disk' \cup Under(conn'[d].frames, i))
               ELSE /\ Dense(conn'[d].seen)
                    /\ Under(conn'[d].frames, Len(conn'[d].frames)) = {}
    <2>1. CASE d = c
      BY <1>2, <2>1
    <2>2. CASE d # c /\ writer = d
      <3>1. disk' = disk /\ writer' = d /\ conn'[d] = conn[d]
        BY <1>2, <2>2
      <3>2. QED
        BY <1>4, <2>2, <3>1 DEF Sequenced
    <2>3. CASE d # c /\ writer # d
      <3>1. writer' # d /\ conn'[d] = conn[d]
        BY <1>2, <2>3
      <3>2. QED
        BY <1>4, <2>3, <3>1 DEF Sequenced
    <2>4. QED
      BY <2>1, <2>2, <2>3
  <1>6. ASSUME NEW b \in Actors, last'[b] # Unread
        PROVE  /\ conn'[Conn[b]].reading
               /\ last'[b] = Max({0} \cup {r.seq : r \in View(Conn[b])'})
    <2>1. CASE b = a
      <3>1. conn'[c].reading /\ l # Unread
        BY <1>2, <1>3, <1>6, <2>1
      <3>2. View(c)' = now.seen \cup Under(now.frames, Len(now.frames))
        BY <1>2, <3>1 DEF View, RowsFrom, Under
      <3>3. QED
        BY <1>2, <1>3, <2>1, <3>1, <3>2
    <2>2. CASE b # a
      <3>1. last'[b] = last[b] /\ Conn[b] # c
        BY <1>3, <1>6, <2>2
      <3>2. conn'[Conn[b]] = conn[Conn[b]]
        BY <1>1, <1>2, <3>1
      <3>3. conn[Conn[b]].reading /\ last[b] = Max({0} \cup {r.seq : r \in View(Conn[b])})
        BY <1>4, <1>6, <3>1 DEF Sequenced
      <3>4. View(Conn[b])' = View(Conn[b])
        BY <3>2, <3>3 DEF View, RowsFrom
      <3>5. QED
        BY <3>1, <3>2, <3>3, <3>4
    <2>3. QED
      BY <2>1, <2>2
  <1>7. Dense(disk)'
    BY DEF Dense
  <1>8. QED
    BY <1>5, <1>6, <1>7 DEF Sequenced, Dense, Under

\* Opening a frame without rows changes no seq.
LEMMA OpenedSequenced ==
    ASSUME TxInv, NEW a \in Actors, NEW k, NEW mode, Opened(a, k, mode)
    PROVE  Sequenced'
  <1> DEFINE c == Conn[a]
             f == conn[c].frames
             new == [kind |-> k, mode |-> mode,
                     tag |-> <<a, Len(calls[a]) + 1>>, ids |-> {}]
             g == Append(f, Frame(FrameTag(new)))
  <1>1. PICK reading \in BOOLEAN, seen \in SUBSET DbRows :
           /\ conn' = [conn EXCEPT ![c] = [frames |-> g, reading |-> reading, seen |-> seen]]
           /\ \/ /\ reading = conn[c].reading /\ seen = conn[c].seen
                 /\ writer' = writer
              \/ /\ reading = TRUE /\ seen = disk
                 /\ conn[c] = Idle /\ writer' = c /\ writer \in {None, c}
    BY DEF Opened
  <1> DEFINE now == [frames |-> g, reading |-> reading, seen |-> seen]
  <1>2. c \in Conns /\ f \in Seq(FrameSet) /\ None \notin Conns
    BY TransactionsAssumption DEF TxInv, TxTypeOK
  <1>3. Len(g) = Len(f) + 1 /\ Len(f) \in Nat
    BY <1>2
  <1>4. \A i \in 0 .. Len(f) + 1 : Under(g, i) = Under(f, IF i <= Len(f) THEN i ELSE Len(f))
    BY <1>2, UnderPushed
  <1> HIDE DEF g
  <1>5. Under(g, Len(g)) = Under(f, Len(f))
    <2>1. Len(f) + 1 \in 0 .. Len(f) + 1 /\ ~(Len(f) + 1 <= Len(f))
      BY <1>3
    <2>2. QED
      BY <1>3, <1>4, <2>1
  <1>6. UNCHANGED <<disk, last>> /\ (Busy(a) \/ conn[c] = Idle)
    BY DEF Opened
  <1>7. \A b \in Actors \ {a} : Conn[b] = c => last[b] = Unread
    <2>1. ASSUME NEW b \in Actors \ {a}, Conn[b] = c PROVE last[b] = Unread
      <3>1. ~Busy(b)
        BY <1>6, <2>1, Alone, IdleConn
      <3>2. QED
        BY <3>1 DEF TxInv, Owned
    <2>2. QED
      BY <2>1
  <1>8. Sequenced
    BY DEF TxInv
  <1>9. conn' = [conn EXCEPT ![c] = now] /\ last' = [last EXCEPT ![a] = last[a]]
    BY <1>1, <1>6 DEF TxInv, TxTypeOK
  <1>10. \A d \in Conns \ {c} : writer' = d <=> writer = d
    BY <1>1, <1>2
  <1>11. Dense(disk')
    BY <1>6, <1>8 DEF Sequenced
  <1>12. IF writer' = c
         THEN /\ now.reading /\ now.seen = disk'
              /\ \A i \in 0 .. Len(now.frames) : Dense(disk' \cup Under(now.frames, i))
         ELSE Dense(now.seen) /\ Under(now.frames, Len(now.frames)) = {}
    <2>1. CASE writer' = writer /\ writer = c
      <3>1. /\ reading = conn[c].reading /\ seen = conn[c].seen
        BY <1>1, <1>2, <2>1, WriterBusy
      <3>2. conn[c].reading /\ conn[c].seen = disk
        BY <1>2, <1>8, <2>1 DEF Sequenced
      <3>3. \A i \in 0 .. Len(f) : Dense(disk \cup Under(f, i))
        BY <1>2, <1>8, <2>1 DEF Sequenced
      <3>4. \A i \in 0 .. Len(g) : Dense(disk \cup Under(g, i))
        <4>1. ASSUME NEW i \in 0 .. Len(g) PROVE Dense(disk \cup Under(g, i))
          <5>1. (IF i <= Len(f) THEN i ELSE Len(f)) \in 0 .. Len(f)
            BY <1>3
          <5>2. QED
            BY <1>3, <1>4, <3>3, <5>1
        <4>2. QED
          BY <4>1
      <3>5. QED
        BY <1>6, <2>1, <3>1, <3>2, <3>4
    <2>2. CASE writer' = writer /\ writer # c
      <3>1. Under(f, Len(f)) = {} /\ Dense(conn[c].seen)
        BY <1>2, <1>8, <2>2 DEF Sequenced
      <3>2. seen = conn[c].seen
        BY <1>1, <2>2
      <3>3. QED
        BY <1>5, <2>2, <3>1, <3>2
    <2>3. CASE writer' = c /\ writer # c
      <3>1. reading = TRUE /\ seen = disk /\ conn[c] = Idle
        BY <1>1, <2>3
      <3>2. Len(f) = 0
        BY <3>1 DEF Idle
      <3>3. \A i \in 0 .. Len(g) : Under(g, i) = {}
        <4>1. Under(f, 0) = {}
          BY DEF Under
        <4>2. ASSUME NEW i \in 0 .. Len(g) PROVE Under(g, i) = Under(f, 0)
          BY <1>3, <1>4, <3>2
        <4>3. QED
          BY <4>1, <4>2
      <3>4. \A i \in 0 .. Len(g) : Dense(disk \cup Under(g, i))
        BY <1>6, <1>11, <3>3
      <3>5. QED
        BY <1>6, <2>3, <3>1, <3>4
    <2>4. QED
      BY <1>1, <2>1, <2>2, <2>3
  <1>13. last[a] # Unread =>
            /\ now.reading
            /\ last[a] = Max({0} \cup
                   {r.seq : r \in now.seen \cup Under(now.frames, Len(now.frames))})
    <2>1. SUFFICES ASSUME last[a] # Unread
                   PROVE  /\ reading
                          /\ last[a] = Max({0} \cup {r.seq : r \in seen \cup Under(g, Len(g))})
      OBVIOUS
    <2>2. Busy(a)
      BY <2>1 DEF TxInv, Owned
    <2>3. reading = conn[c].reading /\ seen = conn[c].seen
      BY <1>1, <2>2, IdleConn
    <2>4. conn[c].reading /\ last[a] = Max({0} \cup {r.seq : r \in View(c)})
      BY <1>8, <2>1 DEF Sequenced
    <2>5. View(c) = conn[c].seen \cup Under(f, Len(f))
      BY <2>4, RowsFromOne DEF View
    <2>6. QED
      BY <1>5, <2>3, <2>4, <2>5
  <1>14. \A d \in Conns \ {c} : writer = d => disk' = disk
    BY <1>6
  <1> HIDE DEF now, c
  <1>15. QED
    BY <1>7, <1>9, <1>10, <1>11, <1>12, <1>13, <1>14, SequencedStep DEF c

\* Opening a call keeps the types.
LEMMA OpenedTypes ==
    ASSUME TxInv, NEW a \in Actors, NEW k \in Kinds,
           NEW mode \in {"begin", "savepoint"}, Opened(a, k, mode),
           depth' \in [Actors -> Nat], rlock' \in [Conns -> Actors \cup {None}]
    PROVE  TxTypeOK'
  <1> DEFINE c == Conn[a]
             f == conn[c].frames
             new == [kind |-> k, mode |-> mode,
                     tag |-> <<a, Len(calls[a]) + 1>>, ids |-> {}]
             g == Append(f, Frame(FrameTag(new)))
  <1>1. PICK reading \in BOOLEAN, seen \in SUBSET DbRows :
           /\ conn' = [conn EXCEPT ![c] = [frames |-> g, reading |-> reading, seen |-> seen]]
           /\ writer' \in {writer, c}
    BY DEF Opened
  <1>2. c \in Conns /\ f \in Seq(FrameSet) /\ calls[a] \in Seq(CallSet)
    BY TransactionsAssumption DEF TxInv, TxTypeOK
  <1>3. new \in CallSet
    <2>1. Len(calls[a]) + 1 \in Nat
      BY <1>2
    <2>2. QED
      BY <2>1 DEF CallSet
  <1>4. Frame(FrameTag(new)) \in FrameSet
    <2>1. Len(calls[a]) + 1 \in Nat
      BY <1>2
    <2>2. FrameTag(new) \in (Actors \cup {None}) \X Nat
      BY <2>1 DEF FrameTag, BeginTag
    <2>3. QED
      BY <2>2 DEF Frame, FrameSet
  <1>5. g \in Seq(FrameSet) /\ Append(calls[a], new) \in Seq(CallSet)
    BY <1>2, <1>3, <1>4
  <1>6. calls' = [calls EXCEPT ![a] = Append(calls[a], new)]
    BY DEF Opened
  <1>7. UNCHANGED <<journal, disk, last, fate>>
    BY DEF Opened
  <1> HIDE DEF g, new
  <1>8. calls' \in [Actors -> Seq(CallSet)]
    BY <1>5, <1>6 DEF TxInv, TxTypeOK
  <1>9. conn' \in [Conns -> [frames : Seq(FrameSet), reading : BOOLEAN, seen : SUBSET DbRows]]
    BY <1>1, <1>5 DEF TxInv, TxTypeOK
  <1>10. QED
    BY <1>1, <1>2, <1>7, <1>8, <1>9 DEF TxInv, TxTypeOK

\* A call that has inserted nothing decides nothing.
LEMMA OpenedFated ==
    ASSUME TxInv, NEW a \in Actors, NEW k, NEW mode, Opened(a, k, mode)
    PROVE  Fated'
  <1> DEFINE new == [kind |-> k, mode |-> mode,
                     tag |-> <<a, Len(calls[a]) + 1>>, ids |-> {}]
             n == Len(calls[a])
  <1>1. calls' = [calls EXCEPT ![a] = Append(calls[a], new)] /\ fate' = fate /\ disk' = disk
    BY DEF Opened
  <1>2. calls \in [Actors -> Seq(CallSet)] /\ n \in Nat
    BY DEF TxInv, TxTypeOK
  <1>3. calls'[a] = Append(calls[a], new) /\ \A b \in Actors \ {a} : calls'[b] = calls[b]
    BY <1>1, <1>2
  <1>4. /\ Len(calls'[a]) = n + 1
        /\ \A j \in 1 .. n : calls'[a][j] = calls[a][j]
        /\ calls'[a][n + 1].ids = {}
    BY <1>2, <1>3
  <1> HIDE DEF new
  <1>5. ASSUME NEW b \in Actors, NEW j \in 1 .. Len(calls'[b])
        PROVE  \/ j \in 1 .. Len(calls[b]) /\ calls'[b][j].ids = calls[b][j].ids
               \/ calls'[b][j].ids = {}
    <2>1. CASE b = a
      BY <1>2, <1>4, <2>1
    <2>2. CASE b # a
      BY <1>3, <2>2
    <2>3. QED
      BY <2>1, <2>2
  <1>6. ASSUME NEW b \in Actors, NEW j \in 1 .. Len(calls[b])
        PROVE  j \in 1 .. Len(calls'[b]) /\ calls'[b][j].ids = calls[b][j].ids
    <2>1. CASE b = a
      BY <1>2, <1>4, <2>1
    <2>2. CASE b # a
      BY <1>3, <2>2
    <2>3. QED
      BY <2>1, <2>2
  <1>7. Fated
    BY DEF TxInv
  <1>8. \A i \in Ids : fate'[i] = "open" <=>
          \E b \in Actors : \E j \in 1 .. Len(calls'[b]) : i \in calls'[b][j].ids
    BY <1>1, <1>5, <1>6, <1>7 DEF Fated
  <1>9. \A b, d \in Actors : \A j \in 1 .. Len(calls'[b]), m \in 1 .. Len(calls'[d]) :
          b # d \/ j # m => calls'[b][j].ids \cap calls'[d][m].ids = {}
    <2>1. ASSUME NEW b \in Actors, NEW d \in Actors,
                 NEW j \in 1 .. Len(calls'[b]), NEW m \in 1 .. Len(calls'[d]),
                 b # d \/ j # m
          PROVE  calls'[b][j].ids \cap calls'[d][m].ids = {}
      <3>1. CASE calls'[b][j].ids = {} \/ calls'[d][m].ids = {}
        BY <3>1
      <3>2. CASE calls'[b][j].ids # {} /\ calls'[d][m].ids # {}
        <4>1. /\ j \in 1 .. Len(calls[b]) /\ calls'[b][j].ids = calls[b][j].ids
              /\ m \in 1 .. Len(calls[d]) /\ calls'[d][m].ids = calls[d][m].ids
          BY <1>5, <3>2
        <4>2. QED
          BY <1>7, <2>1, <4>1 DEF Fated
      <3>3. QED
        BY <3>1, <3>2
    <2>2. QED
      BY <2>1
  <1>10. QED
    BY <1>1, <1>7, <1>8, <1>9 DEF Fated

\* Which thread is inside which transaction, through a step of a.
LEMMA OwnedStep ==
    ASSUME TxInv, NEW a \in Actors, NEW now, NEW cs, NEW l,
           conn' = [conn EXCEPT ![Conn[a]] = now],
           calls' = [calls EXCEPT ![a] = cs],
           last' = [last EXCEPT ![a] = l],
           \A d \in Conns \ {Conn[a]} : writer' = d <=> writer = d,
           \A d \in Conns \ {Conn[a]} : rlock'[d] = rlock[d],
           \A b \in Actors \ {a} : depth'[b] = depth[b],
           \A b \in Actors \ {a} : Conn[b] = Conn[a] => ~Busy(b),
           cs # <<>> => Stacked(a)' /\ Outer(a)',
           cs = <<>> => /\ l = Unread /\ now = Idle
                        /\ Shared(a) => depth'[a] = 0
    PROVE  Owned'
  <1> DEFINE c == Conn[a]
  <1>1. c \in Conns /\ \A b \in Actors : Conn[b] \in Conns
    BY TransactionsAssumption
  <1>2. conn'[c] = now /\ \A d \in Conns \ {c} : conn'[d] = conn[d]
    BY <1>1 DEF TxInv, TxTypeOK
  <1>3. last'[a] = l /\ \A b \in Actors \ {a} : last'[b] = last[b]
    BY DEF TxInv, TxTypeOK
  <1>4. calls'[a] = cs /\ \A b \in Actors \ {a} : calls'[b] = calls[b]
    BY DEF TxInv, TxTypeOK
  <1>5. \A b \in Actors \ {a} : Busy(b)' <=> Busy(b)
    BY <1>4 DEF Busy
  <1>6. Busy(a)' <=> cs # <<>>
    BY <1>4 DEF Busy
  <1>7. ASSUME NEW b \in Actors, Busy(b)' PROVE Stacked(b)' /\ Outer(b)'
    <2>1. CASE b = a
      BY <1>6, <1>7, <2>1
    <2>2. CASE b # a
      <3>1. Busy(b) /\ Conn[b] # c /\ Conn[b] \in Conns
        BY <1>1, <1>5, <1>7, <2>2
      <3>2. /\ conn'[Conn[b]] = conn[Conn[b]] /\ rlock'[Conn[b]] = rlock[Conn[b]]
            /\ calls'[b] = calls[b] /\ depth'[b] = depth[b]
            /\ writer' = Conn[b] <=> writer = Conn[b]
        BY <1>2, <1>4, <2>2, <3>1
      <3>3. Stacked(b) /\ Outer(b)
        BY <3>1, BusyFacts
      <3>4. Stacked(b)'
        BY <3>2, <3>3 DEF Stacked
      <3>5. Outer(b)'
        BY <3>2, <3>3 DEF Outer
      <3>6. QED
        BY <3>4, <3>5
    <2>3. QED
      BY <2>1, <2>2
  <1>8. ASSUME NEW b \in Actors, ~Busy(b)'
        PROVE  last'[b] = Unread /\ (Shared(b) => depth'[b] = 0)
    <2>1. CASE b = a
      BY <1>3, <1>6, <1>8, <2>1
    <2>2. CASE b # a
      BY <1>3, <1>5, <1>8, <2>2 DEF TxInv, Owned
    <2>3. QED
      BY <2>1, <2>2
  <1>9. ASSUME NEW d \in Conns, conn'[d] # Idle
        PROVE  \E b \in Actors : Conn[b] = d /\ Busy(b)'
    <2>1. CASE d = c
      BY <1>2, <1>6, <1>9, <2>1
    <2>2. CASE d # c
      <3>1. PICK b \in Actors : Conn[b] = d /\ Busy(b)
        BY <1>2, <1>9, <2>2 DEF TxInv, Owned
      <3>2. QED
        BY <1>5, <2>2, <3>1
    <2>3. QED
      BY <2>1, <2>2
  <1>10. QED
    BY <1>7, <1>8, <1>9 DEF Owned

\* The new frame is the new call's.
LEMMA OpenedOwned ==
    ASSUME TxInv, NEW a \in Actors, NEW k, NEW mode, Opened(a, k, mode),
           depth' \in [Actors -> Nat],
           depth'[a] >= depth[a],
           k = "mutex" => /\ depth'[a] >= Len(calls[a]) + 1
                          /\ Busy(a) => calls[a][1].kind = "mutex",
           \A b \in Actors \ {a} : depth'[b] = depth[b],
           \A d \in Conns \ {Conn[a]} : rlock'[d] = rlock[d],
           Outer(a)'
    PROVE  Owned'
  <1> DEFINE c == Conn[a]
             f == conn[c].frames
             n == Len(calls[a])
             new == [kind |-> k, mode |-> mode, tag |-> <<a, n + 1>>, ids |-> {}]
             g == Append(f, Frame(FrameTag(new)))
             cs == Append(calls[a], new)
  <1>1. PICK reading \in BOOLEAN, seen \in SUBSET DbRows :
           /\ conn' = [conn EXCEPT ![c] = [frames |-> g, reading |-> reading, seen |-> seen]]
           /\ writer' = writer \/ (writer' = c /\ writer \in {None, c})
    BY DEF Opened
  <1>2. /\ calls' = [calls EXCEPT ![a] = cs] /\ last' = last
        /\ Busy(a) \/ conn[c] = Idle
        /\ Busy(a) => mode = "savepoint"
    BY DEF Opened
  <1>3. c \in Conns /\ f \in Seq(FrameSet) /\ calls[a] \in Seq(CallSet) /\ n \in Nat
        /\ None \notin Conns
    BY TransactionsAssumption DEF TxInv, TxTypeOK
  <1>4. Len(f) = n
    <2>1. CASE Busy(a)
      BY <2>1, BusyFacts
    <2>2. CASE ~Busy(a)
      BY <1>2, <2>2 DEF Busy, Idle
    <2>3. QED
      BY <2>1, <2>2
  <1>5. conn'[c].frames = g /\ calls'[a] = cs
    BY <1>1, <1>2, <1>3 DEF TxInv, TxTypeOK
  <1>6. /\ Len(g) = n + 1 /\ g[n + 1] = Frame(FrameTag(new))
        /\ \A i \in 1 .. n : g[i] = f[i]
    BY <1>3, <1>4
  <1>7. /\ Len(cs) = n + 1 /\ cs[n + 1] = new
        /\ \A i \in 1 .. n : cs[i] = calls[a][i]
    BY <1>3
  <1>8. /\ new.kind = k /\ new.mode = mode /\ new.tag = <<a, n + 1>> /\ new.ids = {}
        /\ Frame(FrameTag(new)).tag = FrameTag(new) /\ Frame(FrameTag(new)).rows = {}
    BY DEF Frame
  <1> HIDE DEF g, cs, new
  <1>9. ASSUME NEW i \in 1 .. n + 1
        PROVE  /\ cs[i].tag = <<a, i>>
               /\ g[i].tag = FrameTag(cs[i])
               /\ {r.id : r \in g[i].rows} = cs[i].ids
               /\ cs[i].mode = "begin" => i = 1
               /\ cs[i].kind = "mutex" => depth'[a] >= i /\ cs[1].kind = "mutex"
    <2>1. CASE i = n + 1
      <3>1. cs[i] = new /\ g[i] = Frame(FrameTag(new))
        BY <1>6, <1>7, <2>1
      <3>2. cs[i].mode = "begin" => i = 1
        <4>1. cs[i].mode = "begin" => ~Busy(a)
          BY <1>2, <1>8, <3>1
        <4>2. ~Busy(a) => n = 0
          BY DEF Busy
        <4>3. QED
          BY <2>1, <4>1, <4>2
      <3>3. cs[i].kind = "mutex" => depth'[a] >= i /\ cs[1].kind = "mutex"
        <4>1. ~Busy(a) => n = 0
          BY DEF Busy
        <4>2. Busy(a) => n >= 1
          BY BusyFacts
        <4>3. Busy(a) => cs[1] = calls[a][1]
          BY <1>3, <1>7, <4>2
        <4>4. QED
          BY <1>8, <2>1, <3>1, <4>1, <4>3
      <3>4. QED
        BY <1>8, <2>1, <3>1, <3>2, <3>3
    <2>2. CASE i \in 1 .. n
      <3>1. Busy(a)
        BY <2>2 DEF Busy
      <3>2. cs[i] = calls[a][i] /\ g[i] = f[i] /\ cs[1] = calls[a][1]
        BY <1>3, <1>6, <1>7, <2>2
      <3>3. Stacked(a)
        BY <3>1, BusyFacts
      <3>4. depth[a] \in Nat /\ depth'[a] \in Nat
        BY DEF TxInv, TxTypeOK
      <3>5. cs[i].kind = "mutex" => depth'[a] >= i
        BY <2>2, <3>2, <3>3, <3>4 DEF Stacked
      <3>6. QED
        BY <2>2, <3>2, <3>3, <3>5 DEF Stacked
    <2>3. QED
      BY <1>3, <2>1, <2>2
  <1>10. Stacked(a)'
    BY <1>5, <1>6, <1>7, <1>9 DEF Stacked
  <1>11. cs # <<>>
    BY <1>3, <1>7
  <1>12. \A b \in Actors \ {a} : Conn[b] = c => ~Busy(b)
    BY <1>2, Alone, IdleConn
  <1>13. \A d \in Conns \ {c} : writer' = d <=> writer = d
    BY <1>1, <1>3
  <1>14. last' = [last EXCEPT ![a] = last[a]]
    BY <1>2 DEF TxInv, TxTypeOK
  <1> DEFINE now == [frames |-> g, reading |-> reading, seen |-> seen]
  <1>15. conn' = [conn EXCEPT ![c] = now] /\ calls' = [calls EXCEPT ![a] = cs]
    BY <1>1, <1>2
  <1> HIDE DEF now, c
  <1>16. QED
    BY <1>10, <1>11, <1>12, <1>13, <1>14, <1>15, OwnedStep DEF c

\* Entering, nested or not, keeps the invariant.
LEMMA EnterNestedStep ==
    ASSUME TxInv, Disciplined, NEW a \in Actors, NEW k \in Kinds, EnterNested(a, k)
    PROVE  TxInv'
  <1> DEFINE c == Conn[a]
             n == Len(calls[a])
             new == [kind |-> k, mode |-> "savepoint", tag |-> <<a, n + 1>>, ids |-> {}]
  <1>1. Opened(a, k, "savepoint")
    BY NestedOpens
  <1>2. rlock' = rlock /\ writer' = writer
    BY DEF EnterNested, SetFrames
  <1>3. depth' = IF k = "mutex" THEN [depth EXCEPT ![a] = @ + 1] ELSE depth
    BY DEF EnterNested
  <1>4. depth \in [Actors -> Nat] /\ rlock \in [Conns -> Actors \cup {None}]
        /\ calls \in [Actors -> Seq(CallSet)] /\ n \in Nat
    BY DEF TxInv, TxTypeOK
  <1>5. /\ depth' \in [Actors -> Nat]
        /\ depth'[a] = IF k = "mutex" THEN depth[a] + 1 ELSE depth[a]
        /\ \A b \in Actors \ {a} : depth'[b] = depth[b]
    BY <1>3, <1>4
  <1>6. calls'[a] = Append(calls[a], new)
    BY <1>1, <1>4 DEF Opened
  <1>7. IF Busy(a) THEN calls'[a][1] = calls[a][1] ELSE calls'[a][1] = new
    <2>1. CASE Busy(a)
      <3>1. n >= 1
        BY <2>1, BusyFacts
      <3>2. QED
        BY <1>4, <1>6, <2>1, <3>1
    <2>2. CASE ~Busy(a)
      BY <1>6, <2>2 DEF Busy
    <2>3. QED
      BY <2>1, <2>2
  <1>8. Outer(a)'
    <2>1. CASE Busy(a)
      <3>1. calls'[a][1] = calls[a][1] /\ Outer(a)
        BY <1>7, <2>1, BusyFacts
      <3>2. k = "mutex" => calls[a][1].kind = "mutex"
        BY <2>1, EnterNestedFacts
      <3>3. k # "mutex" => depth'[a] = depth[a]
        BY <1>5
      <3>4. QED
        BY <1>2, <3>1, <3>2, <3>3 DEF Outer
    <2>2. CASE ~Busy(a)
      <3>1. calls'[a][1].kind = "mutex"
        BY <1>7, <2>2, EnterNestedFacts
      <3>2. QED
        BY <1>2, <2>2, <3>1, EnterNestedFacts DEF Outer
    <2>3. QED
      BY <2>1, <2>2
  <1>9. Owned'
    <2>1. k = "mutex" => /\ depth'[a] >= n + 1
                         /\ Busy(a) => calls[a][1].kind = "mutex"
      <3>1. Busy(a) /\ k = "mutex" => depth[a] >= n /\ calls[a][1].kind = "mutex"
        BY EnterNestedFacts
      <3>2. ~Busy(a) => n = 0
        BY DEF Busy
      <3>3. depth[a] \in Nat
        BY <1>4
      <3>4. QED
        BY <1>4, <1>5, <3>1, <3>2, <3>3
    <2>2. depth'[a] >= depth[a]
      BY <1>4, <1>5
    <2>3. QED
      BY <1>1, <1>2, <1>5, <1>8, <2>1, <2>2, OpenedOwned
  <1>10. TxTypeOK'
    BY <1>1, <1>2, <1>4, <1>5, OpenedTypes
  <1>11. QED
    BY <1>1, <1>9, <1>10, OpenedSequenced, OpenedFated DEF TxInv

\* The same for a store's outermost call.
LEMMA EnterStoreStep ==
    ASSUME TxInv, Disciplined, NEW a \in Actors, NEW k \in Kinds, EnterStore(a, k)
    PROVE  TxInv'
  <1> DEFINE new == [kind |-> k, mode |-> "begin",
                     tag |-> <<a, Len(calls[a]) + 1>>, ids |-> {}]
  <1>1. Opened(a, k, "begin") /\ k \in {"conversation", "summary"}
        /\ (k = "conversation" => writer' = Conn[a])
    BY StoreOpens
  <1>2. rlock' = rlock /\ depth' = depth
    BY DEF EnterStore
  <1>3. /\ ~Busy(a) /\ k \in Opens[a]
        /\ \A b \in Actors \ {a} : Conn[b] # Conn[a]
    BY EnterStoreFacts
  <1>4. depth \in [Actors -> Nat] /\ rlock \in [Conns -> Actors \cup {None}]
        /\ calls \in [Actors -> Seq(CallSet)]
    BY DEF TxInv, TxTypeOK
  <1>5. calls'[a] = Append(calls[a], new)
    BY <1>1, <1>4 DEF Opened
  <1>6. calls'[a][1] = new /\ new.kind = k /\ new.mode = "begin"
    BY <1>3, <1>5 DEF Busy
  <1>7. ~Shared(a) \/ depth[a] = 0
    BY <1>3 DEF TxInv, Owned
  <1>8. Outer(a)'
    BY <1>1, <1>2, <1>3, <1>6, <1>7 DEF Outer
  <1>9. Owned'
    <2>1. depth'[a] >= depth[a]
      BY <1>2, <1>4
    <2>2. QED
      BY <1>1, <1>2, <1>4, <1>8, <2>1, OpenedOwned
  <1>10. TxTypeOK'
    BY <1>1, <1>2, <1>4, OpenedTypes
  <1>11. QED
    BY <1>1, <1>9, <1>10, OpenedSequenced, OpenedFated DEF TxInv

\* The same for the mutex's outermost call.
LEMMA EnterMutexStep ==
    ASSUME TxInv, Disciplined, NEW a \in Actors, EnterMutex(a)
    PROVE  TxInv'
  <1> DEFINE c == Conn[a]
             new == [kind |-> "mutex", mode |-> "begin",
                     tag |-> <<a, Len(calls[a]) + 1>>, ids |-> {}]
  <1>1. Opened(a, "mutex", "begin") /\ writer' = c
    BY MutexOpens
  <1>2. rlock' = [rlock EXCEPT ![c] = a] /\ depth' = [depth EXCEPT ![a] = 1]
    BY DEF EnterMutex
  <1>3. ~Busy(a) /\ "mutex" \in Opens[a]
    BY EnterMutexFacts
  <1>4. depth \in [Actors -> Nat] /\ rlock \in [Conns -> Actors \cup {None}]
        /\ calls \in [Actors -> Seq(CallSet)] /\ c \in Conns
    BY TransactionsAssumption DEF TxInv, TxTypeOK
  <1>5. calls'[a] = Append(calls[a], new)
    BY <1>1, <1>4 DEF Opened
  <1>6. calls'[a][1] = new /\ new.kind = "mutex" /\ new.mode = "begin"
    BY <1>3, <1>5 DEF Busy
  <1>7. depth[a] = 0
    <2>1. ~(depth[a] > 0)
      BY DEF EnterMutex, Nested
    <2>2. QED
      BY <1>4, <2>1
  <1>8. rlock'[c] = a /\ \A d \in Conns \ {c} : rlock'[d] = rlock[d]
    BY <1>2, <1>4
  <1>9. /\ depth'[a] = 1 /\ \A b \in Actors \ {a} : depth'[b] = depth[b]
        /\ depth' \in [Actors -> Nat] /\ rlock' \in [Conns -> Actors \cup {None}]
    BY <1>2, <1>4
  <1>10. Outer(a)'
    BY <1>1, <1>3, <1>6, <1>8 DEF Outer
  <1>11. Owned'
    <2>1. depth'[a] >= depth[a] /\ depth'[a] >= Len(calls[a]) + 1
      BY <1>3, <1>7, <1>9 DEF Busy
    <2>2. QED
      BY <1>1, <1>3, <1>8, <1>9, <1>10, <2>1, OpenedOwned
  <1>12. TxTypeOK'
    BY <1>1, <1>9, OpenedTypes DEF Kinds
  <1>13. QED
    BY <1>1, <1>11, <1>12, OpenedSequenced, OpenedFated DEF TxInv

\* A BEGIN that fails leaves the depth behind and nothing else; without a lapse
\* the thread has its connection alone.
LEMMA EnterMutexFailsStep ==
    ASSUME TxInv, Disciplined, NEW a \in Actors, EnterMutexFails(a), ~lapsed'
    PROVE  TxInv'
  <1> DEFINE c == Conn[a]
  <1>1. ~Busy(a) /\ conn[c] = Idle
    BY EnterMutexFacts
  <1>2. c \in Conns /\ None \notin Conns
    BY TransactionsAssumption
  <1>3. RowsFrom(c, 1) = {}
    BY <1>1 DEF RowsFrom, Idle
  <1>4. writer # c
    BY <1>1, <1>2, WriterBusy
  <1>5. UNCHANGED <<disk, conn, writer>>
    <2>1. disk' = disk /\ conn' = [conn EXCEPT ![c] = Idle] /\ writer' = writer
      BY <1>3, <1>4 DEF EnterMutexFails, CommitBlocked, Finish
    <2>2. conn' = conn
      BY <1>1, <1>2, <2>1 DEF TxInv, TxTypeOK
    <2>3. QED
      BY <2>1, <2>2
  <1>6. /\ ~Shared(a) /\ depth' = [depth EXCEPT ![a] = 1]
        /\ UNCHANGED <<journal, rlock, calls, last, fate>>
    BY DEF EnterMutexFails
  <1>7. TxTypeOK'
    BY <1>5, <1>6 DEF TxInv, TxTypeOK
  <1>8. Sequenced'
    <2>1. Sequenced
      BY DEF TxInv
    <2>2. conn' = [conn EXCEPT ![c] = conn[c]] /\ last' = [last EXCEPT ![a] = last[a]]
      BY <1>5, <1>6 DEF TxInv, TxTypeOK
    <2>3. \A b \in Actors : Conn[b] = c => last[b] = Unread
      BY <1>1, IdleConn DEF TxInv, Owned
    <2>4. Dense(disk')
      BY <1>5, <2>1 DEF Sequenced
    <2>5. writer' # c /\ Dense(conn[c].seen)
          /\ Under(conn[c].frames, Len(conn[c].frames)) = {}
      BY <1>2, <1>4, <1>5, <2>1 DEF Sequenced
    <2> HIDE DEF c
    <2>6. QED
      BY <1>5, <2>2, <2>3, <2>4, <2>5, SequencedStep DEF c
  <1>9. Fated'
    BY <1>5, <1>6 DEF TxInv, Fated
  <1>10. \A b \in Actors \ {a} : depth'[b] = depth[b]
    BY <1>6 DEF TxInv, TxTypeOK
  <1>11. Owned'
    <2>1. ASSUME NEW b \in Actors, Busy(b)' PROVE Stacked(b)' /\ Outer(b)'
      <3>1. Busy(b) /\ b # a
        BY <1>1, <1>6, <2>1 DEF Busy
      <3>2. Stacked(b) /\ Outer(b)
        BY <3>1, BusyFacts
      <3>3. QED
        BY <1>5, <1>6, <1>10, <3>1, <3>2 DEF Stacked, Outer
    <2>2. ASSUME NEW b \in Actors, ~Busy(b)'
          PROVE  last'[b] = Unread /\ (Shared(b) => depth'[b] = 0)
      <3>1. ~Busy(b)
        BY <1>6, <2>2 DEF Busy
      <3>2. last[b] = Unread /\ (Shared(b) => depth[b] = 0)
        BY <3>1 DEF TxInv, Owned
      <3>3. QED
        BY <1>6, <1>10, <3>2
    <2>3. ASSUME NEW d \in Conns, conn'[d] # Idle
          PROVE  \E b \in Actors : Conn[b] = d /\ Busy(b)'
      BY <1>5, <1>6, <2>3 DEF TxInv, Owned, Busy
    <2>4. QED
      BY <2>1, <2>2, <2>3 DEF Owned
  <1>12. QED
    BY <1>7, <1>8, <1>9, <1>11 DEF TxInv

\* get_max_seq is read from a snapshot that the transaction keeps.
LEMMA ReadStep ==
    ASSUME TxInv, NEW a \in Actors, Read(a)
    PROVE  TxInv'
  <1> DEFINE c == Conn[a]
             now == IF conn[c].reading THEN conn[c]
                    ELSE [conn[c] EXCEPT !.reading = TRUE, !.seen = disk]
             l == Max({0} \cup {r.seq : r \in View(c)})
             f == conn[c].frames
  <1>1. Busy(a)
    BY DEF Read, MayRead, Busy
  <1>2. c \in Conns /\ InTxn(c) /\ Stacked(a) /\ Outer(a) /\ f \in Seq(FrameSet)
    BY <1>1, BusyFacts
  <1>3. conn[c] \in [frames : Seq(FrameSet), reading : BOOLEAN, seen : SUBSET DbRows]
        /\ disk \in SUBSET DbRows
    BY <1>2 DEF TxInv, TxTypeOK
  <1>4. /\ now \in [frames : Seq(FrameSet), reading : BOOLEAN, seen : SUBSET DbRows]
        /\ now.frames = f /\ now.reading = TRUE
        /\ now.seen = IF conn[c].reading THEN conn[c].seen ELSE disk
    BY <1>3
  <1>5. conn' = [conn EXCEPT ![c] = now]
    <2>1. CASE conn[c].reading
      BY <1>2, <2>1 DEF Read, TxInv, TxTypeOK
    <2>2. CASE ~conn[c].reading
      BY <1>2, <2>2 DEF Read
    <2>3. QED
      BY <2>1, <2>2
  <1>6. UNCHANGED <<journal, disk, writer, rlock, calls, depth, fate>>
    BY DEF Read
  <1>7. last' = [last EXCEPT ![a] = l]
    BY DEF Read
  <1>8. View(c) = now.seen \cup Under(now.frames, Len(now.frames))
    BY <1>4, RowsFromOne DEF View
  <1>9. Sequenced
    BY DEF TxInv
  <1>10. writer = c => conn[c].reading /\ conn[c].seen = disk
    BY <1>2, <1>9 DEF Sequenced
  <1>11. Dense(now.seen)
    BY <1>2, <1>4, <1>9, <1>10 DEF Sequenced
  <1>12. Dense(View(c))
    <2>1. CASE writer = c
      <3>1. Dense(disk \cup Under(f, Len(f)))
        BY <1>2, <1>9, <2>1 DEF Sequenced
      <3>2. QED
        BY <1>4, <1>8, <1>10, <2>1, <3>1
    <2>2. CASE writer # c
      <3>1. Under(f, Len(f)) = {}
        BY <1>2, <1>9, <2>2 DEF Sequenced
      <3>2. View(c) = now.seen
        BY <1>4, <1>8, <3>1
      <3>3. QED
        BY <1>11, <3>2
    <2>3. QED
      BY <2>1, <2>2
  <1>13. l \in Nat
    <2>1. l = Cardinality(View(c))
      BY <1>12, DenseMax
    <2>2. QED
      BY <1>12, <2>1, FS_CardinalityType DEF Dense
  <1> HIDE DEF now, l
  <1>14. TxTypeOK'
    BY <1>4, <1>5, <1>6, <1>7, <1>13 DEF TxInv, TxTypeOK
  <1>15. Fated'
    BY <1>6 DEF TxInv, Fated
  <1>16. \A b \in Actors \ {a} : Conn[b] = c => ~Busy(b)
    BY <1>1, Alone
  <1>17. Owned'
    <2>1. conn'[c] = now
      BY <1>2, <1>5 DEF TxInv, TxTypeOK
    <2>2. Stacked(a)'
      BY <1>2, <1>4, <1>6, <2>1 DEF Stacked
    <2>3. Outer(a)'
      BY <1>2, <1>6 DEF Outer
    <2>4. calls' = [calls EXCEPT ![a] = calls[a]]
      BY <1>6 DEF TxInv, TxTypeOK
    <2> HIDE DEF c
    <2>5. QED
      BY <1>1, <1>5, <1>6, <1>7, <1>16, <2>2, <2>3, <2>4, OwnedStep DEF c, Busy
  <1>18. Sequenced'
    <2>1. \A b \in Actors \ {a} : Conn[b] = c => last[b] = Unread
      BY <1>16 DEF TxInv, Owned
    <2>2. Dense(disk')
      BY <1>6, <1>9 DEF Sequenced
    <2>3. IF writer' = c
          THEN /\ now.reading /\ now.seen = disk'
               /\ \A i \in 0 .. Len(now.frames) : Dense(disk' \cup Under(now.frames, i))
          ELSE Dense(now.seen) /\ Under(now.frames, Len(now.frames)) = {}
      BY <1>2, <1>4, <1>6, <1>9, <1>10, <1>11 DEF Sequenced
    <2>4. l = Max({0} \cup
                  {r.seq : r \in now.seen \cup Under(now.frames, Len(now.frames))})
      BY <1>8 DEF l
    <2> HIDE DEF c
    <2>5. QED
      BY <1>4, <1>5, <1>6, <1>7, <2>1, <2>2, <2>3, <2>4, SequencedStep DEF c
  <1>19. QED
    BY <1>14, <1>15, <1>17, <1>18 DEF TxInv

\* The seq that _persist computed is free, and its row numbers on.
LEMMA InsertFacts ==
    ASSUME TxInv, NEW a \in Actors, Insert(a)
    PROVE  \E id \in Ids : LET r == [id |-> id, seq |-> last[a] + 1] IN
              /\ Busy(a) /\ fate[id] = "unused"
              /\ r \in DbRows
              /\ writer \in {None, Conn[a]}
              /\ Dense(disk \cup Under(conn[Conn[a]].frames, Len(calls[a])) \cup {r})
              /\ writer' = Conn[a] /\ disk' = disk
              /\ conn' = [conn EXCEPT ![Conn[a]] =
                             [frames |-> Inserted(conn[Conn[a]].frames, r),
                              reading |-> TRUE, seen |-> disk]]
              /\ calls' = Mine(a, {id})
              /\ last' = [last EXCEPT ![a] = Unread]
              /\ fate' = [fate EXCEPT ![id] = "open"]
              /\ UNCHANGED <<journal, rlock, depth>>
  <1> DEFINE c == Conn[a]
             id == Min({i \in Ids : fate[i] = "unused"})
             r == [id |-> id, seq |-> last[a] + 1]
             f == conn[c].frames
             n == Len(calls[a])
             taken == \E s \in View(c) : s.seq = r.seq
             base == IF writer = c THEN conn[c].seen ELSE disk
  <1>1. Busy(a)
    BY DEF Insert, Busy
  <1>2. /\ c \in Conns /\ InTxn(c) /\ f \in Seq(FrameSet)
        /\ n \in Nat \ {0} /\ Len(f) = n
    BY <1>1, BusyFacts
  <1>3. last[a] # Unread /\ MayWrite(c) /\ \E i \in Ids : fate[i] = "unused"
    BY DEF Insert
  <1>4. Sequenced
    BY DEF TxInv
  <1>5. conn[c].reading /\ last[a] = Max({0} \cup {s.seq : s \in View(c)})
    BY <1>3, <1>4 DEF Sequenced
  <1>6. writer \in {None, c} /\ conn[c].seen = disk
    BY <1>2, <1>3, <1>4, <1>5 DEF MayWrite, Sequenced
  <1>7. View(c) = disk \cup Under(f, n)
    BY <1>2, <1>5, <1>6, RowsFromOne DEF View
  <1>8. Dense(View(c))
    <2>1. CASE writer = c
      <3>1. n \in 0 .. Len(f)
        BY <1>2
      <3>2. QED
        BY <1>2, <1>4, <1>7, <2>1, <3>1 DEF Sequenced
    <2>2. CASE writer # c
      <3>1. Under(f, n) = {}
        BY <1>2, <1>4, <2>2 DEF Sequenced
      <3>2. View(c) = disk
        BY <1>7, <3>1
      <3>3. QED
        BY <1>4, <3>2 DEF Sequenced
    <2>3. QED
      BY <2>1, <2>2
  <1>9. id \in Ids /\ fate[id] = "unused"
    <2>1. {i \in Ids : fate[i] = "unused"} \subseteq Nat
      BY TransactionsAssumption DEF Ids
    <2>2. id \in {i \in Ids : fate[i] = "unused"}
      BY <1>3, <2>1, LeastId
    <2>3. QED
      BY <2>2
  <1> HIDE DEF id
  <1>10. last[a] = Cardinality(View(c)) /\ Cardinality(View(c)) \in Nat
    BY <1>5, <1>8, DenseMax, FS_CardinalityType DEF Dense
  <1>11. r \in DbRows /\ r.seq = Cardinality(View(c)) + 1
    BY <1>9, <1>10 DEF DbRows
  <1>12. View(c) \subseteq DbRows
    <2>1. Under(f, n) \subseteq DbRows
      BY <1>2, UnderType
    <2>2. QED
      BY <1>7, <2>1 DEF TxInv, TxTypeOK
  <1>13. Dense(View(c) \cup {r}) /\ ~taken
    BY <1>8, <1>11, <1>12, DenseNext
  <1>14. base = disk
    BY <1>6
  <1>15. /\ last' = [last EXCEPT ![a] = Unread]
         /\ fate' = [fate EXCEPT ![id] = IF taken THEN "skipped" ELSE "open"]
         /\ calls' = IF taken THEN calls ELSE Mine(a, {id})
         /\ IF taken THEN UNCHANGED <<disk, conn, writer>>
            ELSE IF InTxn(c)
            THEN /\ conn' = [conn EXCEPT ![c] =
                        [frames |-> Inserted(f, r), reading |-> TRUE, seen |-> base]]
                 /\ writer' = c
                 /\ UNCHANGED disk
            ELSE disk' = disk \cup {r} /\ UNCHANGED <<conn, writer>>
         /\ UNCHANGED <<journal, rlock, depth>>
    BY DEF Insert, id, Inserted
  <1>16. conn' = [conn EXCEPT ![c] = [frames |-> Inserted(f, r),
                                      reading |-> TRUE, seen |-> disk]]
    BY <1>2, <1>13, <1>14, <1>15
  <1>17. Dense(disk \cup Under(f, n) \cup {r})
    BY <1>7, <1>13
  <1> HIDE DEF r, f, c, n, taken
  <1>18. QED
    BY <1>1, <1>2, <1>6, <1>9, <1>11, <1>13, <1>15, <1>16, <1>17 DEF r, f, c, n

\* The innermost call has these rows too.
WithIds(cs, ids) == [cs EXCEPT ![Len(cs)].ids = @ \cup ids]

\* Only the innermost call's ids change.
LEMMA WithIdsFacts ==
    ASSUME NEW cs \in Seq(CallSet), Len(cs) >= 1, NEW ids \in SUBSET Ids
    PROVE  /\ WithIds(cs, ids) \in Seq(CallSet)
           /\ Len(WithIds(cs, ids)) = Len(cs)
           /\ \A j \in 1 .. Len(cs) - 1 : WithIds(cs, ids)[j] = cs[j]
           /\ \A j \in 1 .. Len(cs) : /\ WithIds(cs, ids)[j].kind = cs[j].kind
                                      /\ WithIds(cs, ids)[j].mode = cs[j].mode
                                      /\ WithIds(cs, ids)[j].tag = cs[j].tag
           /\ WithIds(cs, ids)[Len(cs)].ids = cs[Len(cs)].ids \cup ids
  <1> DEFINE n == Len(cs)
             e == [cs[n] EXCEPT !.ids = @ \cup ids]
  <1>1. n \in Nat /\ n >= 1 /\ cs[n] \in CallSet
    OBVIOUS
  <1>2. /\ e \in CallSet /\ e.ids = cs[n].ids \cup ids
        /\ e.kind = cs[n].kind /\ e.mode = cs[n].mode /\ e.tag = cs[n].tag
    BY <1>1 DEF CallSet
  <1>3. WithIds(cs, ids) = [cs EXCEPT ![n] = e]
    BY DEF WithIds
  <1>4. /\ WithIds(cs, ids) \in Seq(CallSet)
        /\ Len(WithIds(cs, ids)) = n
        /\ \A j \in 1 .. n : WithIds(cs, ids)[j] = IF j = n THEN e ELSE cs[j]
    <2> HIDE DEF e
    <2>1. QED
      BY <1>1, <1>2, <1>3, ExceptSeq
  <1> HIDE DEF e
  <1>5. \A j \in 1 .. n - 1 : WithIds(cs, ids)[j] = cs[j]
    BY <1>1, <1>4
  <1>6. WithIds(cs, ids)[n] = e
    BY <1>1, <1>4
  <1>7. QED
    BY <1>1, <1>2, <1>4, <1>5, <1>6

\* A savepoint holds no more than the whole transaction.
LEMMA UnderMore ==
    ASSUME NEW f \in Seq(FrameSet), NEW i \in 0 .. Len(f)
    PROVE  Under(f, i) \subseteq Under(f, Len(f))
  <1>1. 1 .. i \subseteq 1 .. Len(f)
    OBVIOUS
  <1>2. QED
    BY <1>1 DEF Under

\* _persist: the row of MAX(seq) + 1 that was read is the next one, since
\* nobody else can have written in between.
LEMMA InsertStep ==
    ASSUME TxInv, NEW a \in Actors, Insert(a)
    PROVE  TxInv'
  <1> DEFINE c == Conn[a]
             f == conn[c].frames
             n == Len(calls[a])
  <1>1. PICK id \in Ids : LET r == [id |-> id, seq |-> last[a] + 1] IN
              /\ Busy(a) /\ fate[id] = "unused"
              /\ r \in DbRows
              /\ writer \in {None, c}
              /\ Dense(disk \cup Under(f, n) \cup {r})
              /\ writer' = c /\ disk' = disk
              /\ conn' = [conn EXCEPT ![c] = [frames |-> Inserted(f, r),
                                              reading |-> TRUE, seen |-> disk]]
              /\ calls' = Mine(a, {id})
              /\ last' = [last EXCEPT ![a] = Unread]
              /\ fate' = [fate EXCEPT ![id] = "open"]
              /\ UNCHANGED <<journal, rlock, depth>>
    BY InsertFacts
  <1> DEFINE r == [id |-> id, seq |-> last[a] + 1]
             g == Inserted(f, r)
             now == [frames |-> g, reading |-> TRUE, seen |-> disk]
             cs == WithIds(calls[a], {id})
  <1>2. Busy(a) /\ r \in DbRows /\ r.id = id
    BY <1>1
  <1>same. /\ writer' = c /\ writer \in {None, c} /\ disk' = disk
           /\ last' = [last EXCEPT ![a] = Unread]
           /\ fate' = [fate EXCEPT ![id] = "open"]
           /\ journal' = journal /\ rlock' = rlock /\ depth' = depth
    BY <1>1
  <1>3. /\ c \in Conns /\ f \in Seq(FrameSet) /\ calls[a] \in Seq(CallSet)
        /\ n \in Nat \ {0} /\ Len(f) = n /\ Stacked(a) /\ Outer(a) /\ None \notin Conns
    BY <1>2, BusyFacts, TransactionsAssumption
  <1>4. calls' = [calls EXCEPT ![a] = cs]
    BY <1>1 DEF Mine, WithIds, TxInv, TxTypeOK
  <1>5. conn' = [conn EXCEPT ![c] = now]
    BY <1>1
  <1>6. /\ g \in Seq(FrameSet) /\ Len(g) = n
        /\ \A j \in 1 .. n - 1 : g[j] = f[j]
        /\ g[n].tag = f[n].tag /\ g[n].rows = f[n].rows \cup {r}
        /\ \A i \in 0 .. n - 1 : Under(g, i) = Under(f, i)
        /\ Under(g, n) = Under(f, n) \cup {r}
    <2>1. r \in DbRows /\ f \in Seq(FrameSet) /\ Len(f) = n /\ n >= 1
      BY <1>2, <1>3
    <2> HIDE DEF r, n, f
    <2>2. QED
      BY <2>1, InsertedFacts
  <1>7. /\ cs \in Seq(CallSet) /\ Len(cs) = n
        /\ \A j \in 1 .. n - 1 : cs[j] = calls[a][j]
        /\ \A j \in 1 .. n : /\ cs[j].kind = calls[a][j].kind
                             /\ cs[j].mode = calls[a][j].mode
                             /\ cs[j].tag = calls[a][j].tag
        /\ cs[n].ids = calls[a][n].ids \cup {id}
    <2> DEFINE s == calls[a]
    <2>1. s \in Seq(CallSet) /\ Len(s) = n /\ n >= 1 /\ {id} \in SUBSET Ids
      BY <1>3
    <2> HIDE DEF s, n
    <2>2. /\ WithIds(s, {id}) \in Seq(CallSet) /\ Len(WithIds(s, {id})) = n
          /\ \A j \in 1 .. n - 1 : WithIds(s, {id})[j] = s[j]
          /\ \A j \in 1 .. n : /\ WithIds(s, {id})[j].kind = s[j].kind
                               /\ WithIds(s, {id})[j].mode = s[j].mode
                               /\ WithIds(s, {id})[j].tag = s[j].tag
          /\ WithIds(s, {id})[n].ids = s[n].ids \cup {id}
      BY <2>1, WithIdsFacts
    <2>3. QED
      BY <2>2 DEF s
  <1>8. /\ calls'[a] = cs /\ conn'[c] = now
        /\ \A b \in Actors \ {a} : calls'[b] = calls[b]
    BY <1>3, <1>4, <1>5 DEF TxInv, TxTypeOK
  <1> HIDE DEF g, cs, r
  <1>9. TxTypeOK'
    <2>1. now \in [frames : Seq(FrameSet), reading : BOOLEAN, seen : SUBSET DbRows]
      BY <1>6 DEF TxInv, TxTypeOK
    <2>2. calls' \in [Actors -> Seq(CallSet)]
      BY <1>4, <1>7 DEF TxInv, TxTypeOK
    <2> HIDE DEF now
    <2>3. QED
      BY <1>same, <1>3, <1>5, <2>1, <2>2 DEF TxInv, TxTypeOK
  <1>10. \A b \in Actors \ {a} : Conn[b] = c => ~Busy(b) /\ last[b] = Unread
    BY <1>2, Alone DEF TxInv, Owned
  <1>11. Owned'
    <2>1. ASSUME NEW i \in 1 .. n
          PROVE  /\ cs[i].tag = <<a, i>>
                 /\ g[i].tag = FrameTag(cs[i])
                 /\ {s.id : s \in g[i].rows} = cs[i].ids
                 /\ cs[i].mode = "begin" => i = 1
                 /\ cs[i].kind = "mutex" => depth[a] >= i /\ cs[1].kind = "mutex"
      <3>1. 1 \in 1 .. n
        BY <1>3
      <3>2. g[i].tag = f[i].tag
        BY <1>3, <1>6
      <3>3. FrameTag(cs[i]) = FrameTag(calls[a][i])
        BY <1>7 DEF FrameTag
      <3>4. {s.id : s \in f[i].rows} = calls[a][i].ids
        BY <1>3 DEF Stacked
      <3>5. {s.id : s \in g[i].rows} = cs[i].ids
        <4>1. CASE i = n
          <5>1. {s.id : s \in g[n].rows} = {s.id : s \in f[n].rows} \cup {id}
            BY <1>2, <1>6
          <5>2. QED
            BY <1>7, <3>4, <4>1, <5>1
        <4>2. CASE i # n
          <5>1. i \in 1 .. n - 1
            BY <1>3, <4>2
          <5>2. QED
            BY <1>6, <1>7, <3>4, <5>1
        <4>3. QED
          BY <4>1, <4>2
      <3>6. QED
        BY <1>3, <1>7, <3>1, <3>2, <3>3, <3>5 DEF Stacked
    <2>2. Stacked(a)'
      <3>1. conn'[c].frames = g /\ depth'[a] = depth[a]
        BY <1>same, <1>8
      <3>2. QED
        BY <1>6, <1>7, <1>8, <2>1, <3>1 DEF Stacked
    <2>3. Outer(a)'
      <3>1. cs[1].kind = calls[a][1].kind
        BY <1>3, <1>7
      <3>2. cs[1].mode = calls[a][1].mode
        BY <1>3, <1>7
      <3>3. QED
        BY <1>same, <1>3, <1>8, <3>1, <3>2 DEF Outer
    <2>4. cs # <<>>
      BY <1>3, <1>7
    <2> HIDE DEF c, now
    <2>5. QED
      BY <1>same, <1>3, <1>4, <1>5, <1>10, <2>2, <2>3, <2>4, OwnedStep DEF c
  <1>12. Sequenced'
    <2>1. Sequenced
      BY DEF TxInv
    <2>2. ASSUME NEW i \in 0 .. n PROVE Dense(disk \cup Under(g, i))
      <3>1. CASE i = n
        <4>1. disk \cup Under(g, n) = disk \cup Under(f, n) \cup {r}
          BY <1>6
        <4>2. QED
          BY <1>1, <3>1, <4>1 DEF r
      <3>2. CASE i # n /\ writer = c
        <4>1. i \in 0 .. n - 1
          BY <1>3, <3>2
        <4>2. QED
          BY <1>3, <1>6, <2>1, <3>2, <4>1 DEF Sequenced
      <3>3. CASE i # n /\ writer # c
        <4>1. i \in 0 .. n - 1
          BY <1>3, <3>3
        <4>2. Under(f, n) = {}
          BY <1>3, <2>1, <3>3 DEF Sequenced
        <4>3. Under(f, i) = {}
          BY <1>3, <4>1, <4>2, UnderMore
        <4>4. disk \cup Under(g, i) = disk
          BY <1>6, <4>1, <4>3
        <4>5. QED
          BY <2>1, <4>4 DEF Sequenced
      <3>4. QED
        BY <3>1, <3>2, <3>3
    <2>3. Dense(disk')
      BY <1>1, <2>1 DEF Sequenced
    <2>4. /\ now.reading /\ now.seen = disk'
          /\ \A i \in 0 .. Len(now.frames) : Dense(disk' \cup Under(now.frames, i))
      BY <1>1, <1>6, <2>2
    <2>5. \A d \in Conns \ {c} : writer' = d <=> writer = d
      BY <1>1, <1>3
    <2> HIDE DEF c, now
    <2>6. QED
      BY <1>1, <1>5, <1>10, <2>3, <2>4, <2>5, SequencedStep DEF c
  <1>13. Fated'
    <2>1. Fated
      BY DEF TxInv
    <2>2. \A i \in Ids : fate'[i] = IF i = id THEN "open" ELSE fate[i]
      BY <1>1 DEF TxInv, TxTypeOK
    <2>3. ASSUME NEW b \in Actors
          PROVE  /\ Len(calls'[b]) = Len(calls[b])
                 /\ \A j \in 1 .. Len(calls[b]) :
                       calls'[b][j].ids =
                           IF b = a /\ j = n THEN calls[b][j].ids \cup {id}
                           ELSE calls[b][j].ids
      <3>1. CASE b = a
        <4>1. ASSUME NEW j \in 1 .. n
              PROVE  cs[j].ids = IF j = n THEN calls[a][j].ids \cup {id} ELSE calls[a][j].ids
          <5>1. CASE j = n
            BY <1>7, <5>1
          <5>2. CASE j # n
            BY <1>3, <1>7, <5>2
          <5>3. QED
            BY <5>1, <5>2
        <4>2. QED
          BY <1>7, <1>8, <3>1, <4>1
      <3>2. CASE b # a
        BY <1>8, <3>2
      <3>3. QED
        BY <3>1, <3>2
    <2>4. \A b \in Actors : \A j \in 1 .. Len(calls[b]) : id \notin calls[b][j].ids
      BY <1>1, <2>1 DEF Fated
    <2>5. n \in 1 .. Len(calls[a])
      BY <1>3
    <2>6. ASSUME NEW i \in Ids
          PROVE  fate'[i] = "open" <=>
                   \E b \in Actors : \E j \in 1 .. Len(calls'[b]) : i \in calls'[b][j].ids
      <3>1. CASE i = id
        BY <2>2, <2>3, <2>5, <3>1
      <3>2. CASE i # id
        <4>1. \A b \in Actors : \A j \in 1 .. Len(calls[b]) :
                 i \in calls'[b][j].ids <=> i \in calls[b][j].ids
          BY <2>3, <3>2
        <4>2. QED
          BY <2>1, <2>2, <2>3, <3>2, <4>1 DEF Fated
      <3>3. QED
        BY <3>1, <3>2
    <2>7. ASSUME NEW b \in Actors, NEW d \in Actors,
                 NEW j \in 1 .. Len(calls'[b]), NEW k \in 1 .. Len(calls'[d]),
                 b # d \/ j # k
          PROVE  calls'[b][j].ids \cap calls'[d][k].ids = {}
      <3>1. j \in 1 .. Len(calls[b]) /\ k \in 1 .. Len(calls[d])
        BY <2>3
      <3>2. calls[b][j].ids \cap calls[d][k].ids = {}
        BY <2>1, <2>7, <3>1 DEF Fated
      <3>3. id \notin calls[b][j].ids /\ id \notin calls[d][k].ids
        BY <2>4, <3>1
      <3>4. /\ calls'[b][j].ids \subseteq calls[b][j].ids \cup {id}
            /\ calls'[d][k].ids \subseteq calls[d][k].ids \cup {id}
        BY <2>3, <3>1
      <3>5. ~(id \in calls'[b][j].ids /\ id \in calls'[d][k].ids)
        <4>1. id \in calls'[b][j].ids => b = a /\ j = n
          BY <2>3, <3>1, <3>3
        <4>2. id \in calls'[d][k].ids => d = a /\ k = n
          BY <2>3, <3>1, <3>3
        <4>3. QED
          BY <2>7, <4>1, <4>2
      <3>6. QED
        BY <3>2, <3>3, <3>4, <3>5
    <2>8. \A i \in Ids : fate'[i] = "kept" <=> \E s \in disk' : s.id = i
      BY <1>1, <2>1, <2>2 DEF Fated
    <2>9. \A i \in Ids : fate'[i] # "skipped"
      BY <2>1, <2>2 DEF Fated
    <2>10. QED
      BY <2>6, <2>7, <2>8, <2>9 DEF Fated
  <1>14. QED
    BY <1>9, <1>11, <1>12, <1>13 DEF TxInv

-----------------------------------------------------------------------------
(* The end of a call.                                                      *)

\* What the finally clauses leave.
LEMMA UnlockFacts ==
    ASSUME TxInv, NEW a \in Actors, Busy(a), Unlock(a)
    PROVE  /\ depth' \in [Actors -> Nat]
           /\ rlock' \in [Conns -> Actors \cup {None}]
           /\ \A b \in Actors \ {a} : depth'[b] = depth[b]
           /\ \A d \in Conns \ {Conn[a]} : rlock'[d] = rlock[d]
           /\ last' = [last EXCEPT ![a] = Unread] /\ journal' = journal
           /\ Len(calls[a]) = 1 => ~Shared(a) \/ depth'[a] = 0
           /\ Len(calls[a]) > 1 =>
                /\ rlock' = rlock
                /\ calls[a][1].kind # "mutex" => depth'[a] = depth[a]
                /\ \A i \in 1 .. Len(calls[a]) - 1 :
                      calls[a][i].kind = "mutex" => depth'[a] >= i
  <1> DEFINE n == Len(calls[a])
  <1>1. /\ n \in Nat \ {0} /\ Stacked(a) /\ Outer(a)
        /\ Top(a) = calls[a][n] /\ Top(a) \in CallSet /\ Conn[a] \in Conns
    BY BusyFacts
  <1>2. depth \in [Actors -> Nat] /\ rlock \in [Conns -> Actors \cup {None}]
    BY DEF TxInv, TxTypeOK
  <1>3. n \in 1 .. n /\ 1 \in 1 .. n
    BY <1>1
  <1>4. Max({0, depth[a] - 1}) \in Nat /\ Max({0, depth[a] - 1}) >= depth[a] - 1
    <2>1. depth[a] \in Nat
      BY <1>2
    <2>2. \E x \in {0, depth[a] - 1} : \A y \in {0, depth[a] - 1} : x >= y
      BY <2>1
    <2>3. /\ Max({0, depth[a] - 1}) \in {0, depth[a] - 1}
          /\ \A y \in {0, depth[a] - 1} : Max({0, depth[a] - 1}) >= y
      BY <2>2 DEF Max
    <2>4. QED
      BY <2>1, <2>3
  <1>5. DepthAfter(a) \in Nat
    BY <1>4 DEF DepthAfter
  <1>6. /\ depth' = IF Top(a).kind = "mutex"
                    THEN [depth EXCEPT ![a] = DepthAfter(a)] ELSE depth
        /\ rlock' = IF Top(a).kind = "mutex" /\ Top(a).mode = "begin"
                    THEN [rlock EXCEPT ![Conn[a]] = None] ELSE rlock
        /\ last' = [last EXCEPT ![a] = Unread] /\ journal' = journal
    BY DEF Unlock
  <1>7. /\ depth' \in [Actors -> Nat]
        /\ rlock' \in [Conns -> Actors \cup {None}]
        /\ \A b \in Actors \ {a} : depth'[b] = depth[b]
        /\ \A d \in Conns \ {Conn[a]} : rlock'[d] = rlock[d]
    BY <1>1, <1>2, <1>5, <1>6
  <1>8. depth'[a] = IF Top(a).kind = "mutex" THEN DepthAfter(a) ELSE depth[a]
    BY <1>2, <1>6
  <1>9. ASSUME n = 1 PROVE ~Shared(a) \/ depth'[a] = 0
    BY <1>1, <1>8, <1>9 DEF Outer, DepthAfter
  <1>10. ASSUME n > 1
         PROVE  /\ rlock' = rlock
                /\ calls[a][1].kind # "mutex" => depth'[a] = depth[a]
                /\ \A i \in 1 .. n - 1 : calls[a][i].kind = "mutex" => depth'[a] >= i
    <2>1. Top(a).mode # "begin"
      BY <1>1, <1>3, <1>10 DEF Stacked
    <2>2. calls[a][1].kind # "mutex" => Top(a).kind # "mutex"
      BY <1>1, <1>3 DEF Stacked
    <2>3. ASSUME NEW i \in 1 .. n - 1, calls[a][i].kind = "mutex"
          PROVE  depth'[a] >= i
      <3>1. depth[a] >= i /\ depth[a] \in Nat /\ i \in Nat
        BY <1>1, <1>2, <2>3 DEF Stacked
      <3>2. Top(a).kind = "mutex" => depth[a] >= n
        BY <1>1, <1>3 DEF Stacked
      <3>3. DepthAfter(a) >= depth[a] - 1
        BY <1>4, <2>1 DEF DepthAfter
      <3>4. QED
        BY <1>1, <1>5, <1>8, <3>1, <3>2, <3>3
    <2>4. QED
      BY <1>6, <1>8, <2>1, <2>2, <2>3
  <1>11. QED
    BY <1>6, <1>7, <1>9, <1>10

\* The outermost call ends: everything it did is stored, or nothing.
OuterEnds(a, rows, what) ==
    /\ Len(calls[a]) = 1
    /\ \/ rows = conn[Conn[a]].frames[1].rows /\ what = "kept"
       \/ rows = {} /\ what = "undone"
    /\ Finish(Conn[a], rows)
    /\ calls' = [calls EXCEPT ![a] = <<>>]
    /\ fate' = Told(calls[a][1].ids, what)
    /\ Unlock(a)

\* COMMIT or ROLLBACK of the outermost call keeps the invariant.
LEMMA OuterEndsStep ==
    ASSUME TxInv, NEW a \in Actors, Busy(a), NEW rows, NEW what,
           OuterEnds(a, rows, what)
    PROVE  TxInv'
  <1> DEFINE c == Conn[a]
             f == conn[c].frames
             ids == calls[a][1].ids
  <1>1. /\ c \in Conns /\ f \in Seq(FrameSet) /\ calls[a] \in Seq(CallSet)
        /\ Len(f) = 1 /\ Len(calls[a]) = 1 /\ Stacked(a) /\ Outer(a) /\ None \notin Conns
    BY BusyFacts, TransactionsAssumption DEF OuterEnds
  <1>2. /\ disk' = disk \cup rows
        /\ conn' = [conn EXCEPT ![c] = Idle]
        /\ writer' = IF writer = c THEN None ELSE writer
        /\ calls' = [calls EXCEPT ![a] = <<>>]
        /\ fate' = Told(ids, what)
        /\ Unlock(a)
        /\ \/ rows = f[1].rows /\ what = "kept"
           \/ rows = {} /\ what = "undone"
    BY DEF OuterEnds, Finish
  <1>3. /\ depth' \in [Actors -> Nat]
        /\ rlock' \in [Conns -> Actors \cup {None}]
        /\ \A b \in Actors \ {a} : depth'[b] = depth[b]
        /\ \A d \in Conns \ {c} : rlock'[d] = rlock[d]
        /\ last' = [last EXCEPT ![a] = Unread] /\ journal' = journal
        /\ ~Shared(a) \/ depth'[a] = 0
    BY <1>1, <1>2, UnlockFacts
  <1>4. Under(f, 1) = f[1].rows /\ Under(f, 1) \subseteq DbRows
    <2>1. Under(f, 1) = f[1].rows
      BY DEF Under
    <2>2. QED
      BY <1>1, <2>1, UnderType
  <1>5. Idle \in [frames : Seq(FrameSet), reading : BOOLEAN, seen : SUBSET DbRows]
    BY DEF Idle
  <1>6. /\ calls'[a] = <<>> /\ \A b \in Actors \ {a} : calls'[b] = calls[b]
    BY <1>2 DEF TxInv, TxTypeOK
  <1>7. \A i \in Ids : fate'[i] = IF i \in ids THEN what ELSE fate[i]
    BY <1>2 DEF Told
  <1>8. {r.id : r \in f[1].rows} = ids
    BY <1>1 DEF Stacked
  <1>9. TxTypeOK'
    <2>1. fate' \in [Ids -> {"unused", "open", "kept", "undone", "skipped"}]
      BY <1>2 DEF Told, TxInv, TxTypeOK
    <2>2. disk' \subseteq DbRows
      BY <1>2, <1>4 DEF TxInv, TxTypeOK
    <2>3. calls' \in [Actors -> Seq(CallSet)]
      BY <1>2 DEF TxInv, TxTypeOK
    <2>4. conn' \in [Conns -> [frames : Seq(FrameSet), reading : BOOLEAN, seen : SUBSET DbRows]]
      BY <1>2, <1>5 DEF TxInv, TxTypeOK
    <2>5. last' \in [Actors -> Nat \cup {Unread}] /\ writer' \in Conns \cup {None}
      BY <1>2, <1>3 DEF TxInv, TxTypeOK
    <2>6. QED
      BY <1>3, <2>1, <2>2, <2>3, <2>4, <2>5 DEF TxInv, TxTypeOK
  <1>10. \A b \in Actors \ {a} : Conn[b] = c => ~Busy(b) /\ last[b] = Unread
    BY Alone DEF TxInv, Owned
  <1>11. \A d \in Conns \ {c} : writer' = d <=> writer = d
    BY <1>1, <1>2
  <1>12. Owned'
    <2> HIDE DEF c
    <2>1. QED
      BY <1>2, <1>3, <1>10, <1>11, OwnedStep DEF c
  <1>13. Sequenced'
    <2>1. Sequenced
      BY DEF TxInv
    <2>2. writer # c => rows = {}
      BY <1>1, <1>2, <1>4, <2>1 DEF Sequenced
    <2>3. Dense(disk')
      <3>1. CASE writer = c /\ rows # {}
        <4>1. disk' = disk \cup Under(f, 1)
          BY <1>2, <1>4, <3>1
        <4>2. 1 \in 0 .. Len(f)
          BY <1>1
        <4>3. QED
          BY <1>1, <2>1, <3>1, <4>1, <4>2 DEF Sequenced
      <3>2. CASE rows = {}
        <4>1. disk' = disk
          BY <1>2, <3>2
        <4>2. QED
          BY <2>1, <4>1 DEF Sequenced
      <3>3. QED
        BY <2>2, <3>1, <3>2
    <2>4. \A d \in Conns \ {c} : writer = d => disk' = disk
      BY <1>2, <2>2
    <2>5. writer' # c
      BY <1>1, <1>2
    <2>6. Dense(Idle.seen) /\ Under(Idle.frames, Len(Idle.frames)) = {}
      BY FS_EmptySet DEF Idle, Dense, Under
    <2> HIDE DEF c
    <2>7. QED
      BY <1>2, <1>3, <1>10, <1>11, <2>3, <2>4, <2>5, <2>6, SequencedStep DEF c
  <1>14. Fated'
    <2>1. Fated
      BY DEF TxInv
    <2>2. 1 \in 1 .. Len(calls[a])
      BY <1>1
    <2>3. \A i \in ids : i \in Ids => fate[i] = "open"
      BY <2>1, <2>2 DEF Fated
    <2>4. ASSUME NEW i \in Ids
          PROVE  fate'[i] = "kept" <=> \E s \in disk' : s.id = i
      <3>1. fate[i] = "kept" <=> \E s \in disk : s.id = i
        BY <2>1 DEF Fated
      <3>2. i \in ids <=> \E s \in f[1].rows : s.id = i
        BY <1>8
      <3>3. QED
        BY <1>2, <1>7, <2>3, <3>1, <3>2
    <2>5. ASSUME NEW i \in Ids
          PROVE  fate'[i] = "open" <=>
                   \E b \in Actors : \E j \in 1 .. Len(calls'[b]) : i \in calls'[b][j].ids
      <3>1. CASE i \in ids
        <4>1. fate'[i] # "open"
          BY <1>2, <1>7, <3>1
        <4>2. ASSUME NEW b \in Actors, NEW j \in 1 .. Len(calls'[b])
              PROVE  i \notin calls'[b][j].ids
          <5>1. b # a /\ calls'[b] = calls[b]
            BY <1>6, <4>2
          <5>2. QED
            BY <2>1, <2>2, <3>1, <4>2, <5>1 DEF Fated
        <4>3. QED
          BY <4>1, <4>2
      <3>2. CASE i \notin ids
        <4>1. fate'[i] = fate[i]
          BY <1>7, <3>2
        <4>2. ASSUME NEW b \in Actors, NEW j \in 1 .. Len(calls[b]), i \in calls[b][j].ids
              PROVE  b # a
          BY <1>1, <3>2, <4>2
        <4>3. ASSUME NEW b \in Actors, NEW j \in 1 .. Len(calls'[b])
              PROVE  b # a
          BY <1>6, <4>3
        <4>4. QED
          BY <1>6, <2>1, <4>1, <4>2, <4>3 DEF Fated
      <3>3. QED
        BY <3>1, <3>2
    <2>6. \A i \in Ids : fate'[i] # "skipped"
      BY <1>2, <1>7, <2>1 DEF Fated
    <2>7. ASSUME NEW b \in Actors, NEW d \in Actors,
                 NEW j \in 1 .. Len(calls'[b]), NEW k \in 1 .. Len(calls'[d]),
                 b # d \/ j # k
          PROVE  calls'[b][j].ids \cap calls'[d][k].ids = {}
      <3>1. b # a /\ d # a
        BY <1>6, <2>7
      <3>2. calls'[b] = calls[b] /\ calls'[d] = calls[d]
        BY <1>6, <3>1
      <3>3. QED
        BY <2>1, <2>7, <3>2 DEF Fated
    <2>8. QED
      BY <2>4, <2>5, <2>6, <2>7 DEF Fated
  <1>15. QED
    BY <1>9, <1>12, <1>13, <1>14 DEF TxInv

\* A nested call ends: its rows go to the call around it, or away.
InnerEnds(a, g, cs) ==
    LET f == conn[Conn[a]].frames
        n == Len(calls[a])
        rest == SubSeq(calls[a], 1, n - 1)
    IN  /\ n > 1
        /\ conn' = [conn EXCEPT ![Conn[a]].frames = g]
        /\ calls' = [calls EXCEPT ![a] = cs]
        /\ UNCHANGED <<disk, writer>>
        /\ \/ /\ g = Released(f) /\ cs = WithIds(rest, calls[a][n].ids)
              /\ fate' = fate
           \/ /\ g = SubSeq(f, 1, n - 1) /\ cs = rest
              /\ fate' = Told(calls[a][n].ids, "undone")
        /\ Unlock(a)

\* The frames and calls that are left, and that they still match.
LEMMA InnerEndsFacts ==
    ASSUME TxInv, NEW a \in Actors, Busy(a), NEW g, NEW cs, InnerEnds(a, g, cs)
    PROVE  LET c == Conn[a]
               f == conn[c].frames
               n == Len(calls[a])
           IN  /\ n \in Nat /\ n > 1
               /\ g \in Seq(FrameSet) /\ Len(g) = n - 1
               /\ cs \in Seq(CallSet) /\ Len(cs) = n - 1
               /\ \A i \in 1 .. n - 1 :
                     /\ g[i].tag = f[i].tag
                     /\ cs[i].kind = calls[a][i].kind
                     /\ cs[i].mode = calls[a][i].mode
                     /\ cs[i].tag = calls[a][i].tag
                     /\ {r.id : r \in g[i].rows} = cs[i].ids
               /\ \A i \in 0 .. n - 1 : \E j \in 0 .. n : Under(g, i) = Under(f, j)
               /\ \A i \in 1 .. n - 2 : cs[i].ids = calls[a][i].ids
               /\ \/ /\ cs[n - 1].ids = calls[a][n - 1].ids \cup calls[a][n].ids
                     /\ fate' = fate
                  \/ /\ cs[n - 1].ids = calls[a][n - 1].ids
                     /\ fate' = Told(calls[a][n].ids, "undone")
  <1> DEFINE c == Conn[a]
             f == conn[c].frames
             n == Len(calls[a])
             rest == SubSeq(calls[a], 1, n - 1)
             ids == calls[a][n].ids
  <1>1. /\ f \in Seq(FrameSet) /\ calls[a] \in Seq(CallSet) /\ n \in Nat
        /\ Len(f) = n /\ Stacked(a)
    BY BusyFacts
  <1>2. n > 1
    BY DEF InnerEnds
  <1>3. ids \in SUBSET Ids
    <2>1. calls[a][n] \in CallSet
      BY <1>1, <1>2
    <2>2. QED
      BY <2>1 DEF CallSet
  <1>4. /\ rest \in Seq(CallSet) /\ Len(rest) = n - 1
        /\ \A i \in 1 .. n - 1 : rest[i] = calls[a][i]
    BY <1>1, <1>2
  <1>5. \A i \in 1 .. n : {r.id : r \in f[i].rows} = calls[a][i].ids
    BY <1>1 DEF Stacked
  <1>6. CASE g = Released(f) /\ cs = WithIds(rest, ids) /\ fate' = fate
    <2>1. /\ g \in Seq(FrameSet) /\ Len(g) = n - 1
          /\ \A j \in 1 .. n - 2 : g[j] = f[j]
          /\ g[n - 1].tag = f[n - 1].tag
          /\ g[n - 1].rows = f[n - 1].rows \cup f[n].rows
          /\ \A i \in 0 .. n - 2 : Under(g, i) = Under(f, i)
          /\ Under(g, n - 1) = Under(f, n)
      <3>1. Len(f) >= 2
        BY <1>1, <1>2
      <3>2. QED
        BY <1>1, <1>6, <3>1, ReleasedFacts
    <2>2. /\ cs \in Seq(CallSet) /\ Len(cs) = n - 1
          /\ \A j \in 1 .. n - 2 : cs[j] = rest[j]
          /\ \A j \in 1 .. n - 1 : /\ cs[j].kind = rest[j].kind
                                   /\ cs[j].mode = rest[j].mode
                                   /\ cs[j].tag = rest[j].tag
          /\ cs[n - 1].ids = rest[n - 1].ids \cup ids
      <3>1. Len(rest) >= 1 /\ Len(rest) - 1 = n - 2
        BY <1>1, <1>2, <1>4
      <3>2. rest \in Seq(CallSet) /\ Len(rest) = n - 1 /\ cs = WithIds(rest, ids)
        BY <1>4, <1>6
      <3> HIDE DEF n, rest, ids
      <3>3. /\ WithIds(rest, ids) \in Seq(CallSet)
            /\ Len(WithIds(rest, ids)) = Len(rest)
            /\ \A j \in 1 .. Len(rest) - 1 : WithIds(rest, ids)[j] = rest[j]
            /\ \A j \in 1 .. Len(rest) : /\ WithIds(rest, ids)[j].kind = rest[j].kind
                                         /\ WithIds(rest, ids)[j].mode = rest[j].mode
                                         /\ WithIds(rest, ids)[j].tag = rest[j].tag
            /\ WithIds(rest, ids)[Len(rest)].ids = rest[Len(rest)].ids \cup ids
        BY <1>3, <3>1, <3>2, WithIdsFacts
      <3>4. QED
        BY <3>1, <3>2, <3>3
    <2> HIDE DEF rest, ids
    <2>3. ASSUME NEW i \in 1 .. n - 1
          PROVE  /\ g[i].tag = f[i].tag
                 /\ {r.id : r \in g[i].rows} = cs[i].ids
      <3>1. CASE i = n - 1
        <4>1. {r.id : r \in g[i].rows} =
                  {r.id : r \in f[n - 1].rows} \cup {r.id : r \in f[n].rows}
          BY <2>1, <3>1
        <4>2. /\ {r.id : r \in f[n - 1].rows} = calls[a][n - 1].ids
              /\ {r.id : r \in f[n].rows} = ids
          <5>1. n - 1 \in 1 .. n /\ n \in 1 .. n
            BY <1>1, <1>2
          <5>2. QED
            BY <1>5, <5>1 DEF ids
        <4>3. rest[n - 1] = calls[a][n - 1]
          BY <1>1, <1>2, <1>4
        <4>4. QED
          BY <2>1, <2>2, <3>1, <4>1, <4>2, <4>3
      <3>2. CASE i # n - 1
        <4>1. i \in 1 .. n - 2 /\ i \in 1 .. n
          BY <1>1, <1>2, <3>2
        <4>2. g[i] = f[i] /\ cs[i] = calls[a][i]
          BY <1>4, <2>1, <2>2, <4>1
        <4>3. QED
          BY <1>5, <4>1, <4>2
      <3>3. QED
        BY <3>1, <3>2
    <2>4. ASSUME NEW i \in 0 .. n - 1
          PROVE  \E j \in 0 .. n : Under(g, i) = Under(f, j)
      <3>1. CASE i = n - 1
        <4>1. n \in 0 .. n
          BY <1>1
        <4>2. QED
          BY <2>1, <3>1, <4>1
      <3>2. CASE i # n - 1
        <4>1. i \in 0 .. n - 2 /\ i \in 0 .. n
          BY <1>1, <1>2, <3>2
        <4>2. QED
          BY <2>1, <4>1
      <3>3. QED
        BY <3>1, <3>2
    <2>5. \A i \in 1 .. n - 2 : cs[i].ids = calls[a][i].ids
      BY <1>1, <1>4, <2>2, SMTT(30)
    <2>6. rest[n - 1] = calls[a][n - 1]
      BY <1>1, <1>2, <1>4
    <2>7. QED
      BY <1>1, <1>2, <1>4, <1>6, <2>1, <2>2, <2>3, <2>4, <2>5, <2>6, ZenonT(60) DEF ids
  <1>7. CASE g = SubSeq(f, 1, n - 1) /\ cs = rest /\ fate' = Told(ids, "undone")
    <2>1. /\ g \in Seq(FrameSet) /\ Len(g) = n - 1
          /\ \A i \in 1 .. n - 1 : g[i] = f[i]
      BY <1>1, <1>2, <1>7
    <2>2. \A i \in 0 .. n - 1 : Under(g, i) = Under(f, i)
      <3>1. Len(f) >= 1 /\ Len(f) - 1 = n - 1
        BY <1>1, <1>2
      <3>2. g = SubSeq(f, 1, Len(f) - 1)
        BY <1>7, <3>1
      <3>3. QED
        BY <1>1, <3>1, <3>2, UnderCut
    <2>3. \A i \in 0 .. n - 1 : i \in 0 .. n
      BY <1>1
    <2>4. \A i \in 1 .. n - 1 : i \in 1 .. n
      BY <1>1
    <2>5. \A i \in 1 .. n - 2 : i \in 1 .. n - 1
      BY <1>1
    <2>6. n - 1 \in 1 .. n - 1
      BY <1>1, <1>2
    <2> HIDE DEF rest, ids
    <2>7. QED
      BY <1>1, <1>2, <1>4, <1>5, <1>7, <2>1, <2>2, <2>3, <2>4, <2>5, <2>6 DEF ids
  <1>8. QED
    BY <1>6, <1>7 DEF InnerEnds

\* RELEASE or ROLLBACK TO of a nested call keeps it.
LEMMA InnerEndsStep ==
    ASSUME TxInv, NEW a \in Actors, Busy(a), NEW g, NEW cs, InnerEnds(a, g, cs)
    PROVE  TxInv'
  <1> DEFINE c == Conn[a]
             f == conn[c].frames
             n == Len(calls[a])
             ids == calls[a][n].ids
             now == [frames |-> g, reading |-> conn[c].reading, seen |-> conn[c].seen]
  <1>1. /\ c \in Conns /\ f \in Seq(FrameSet) /\ calls[a] \in Seq(CallSet)
        /\ Len(f) = n /\ Stacked(a) /\ Outer(a)
    BY BusyFacts
  <1>2. /\ n \in Nat /\ n > 1
        /\ g \in Seq(FrameSet) /\ Len(g) = n - 1
        /\ cs \in Seq(CallSet) /\ Len(cs) = n - 1
    BY InnerEndsFacts
  <1>3. \A i \in 1 .. n - 1 :
           /\ g[i].tag = f[i].tag
           /\ cs[i].kind = calls[a][i].kind
           /\ cs[i].mode = calls[a][i].mode
           /\ cs[i].tag = calls[a][i].tag
           /\ {r.id : r \in g[i].rows} = cs[i].ids
    BY InnerEndsFacts
  <1>4. \A i \in 0 .. n - 1 : \E j \in 0 .. n : Under(g, i) = Under(f, j)
    BY InnerEndsFacts
  <1>5. /\ \A i \in 1 .. n - 2 : cs[i].ids = calls[a][i].ids
        /\ \/ cs[n - 1].ids = calls[a][n - 1].ids \cup ids /\ fate' = fate
           \/ cs[n - 1].ids = calls[a][n - 1].ids /\ fate' = Told(ids, "undone")
    BY InnerEndsFacts
  <1>6. /\ conn' = [conn EXCEPT ![c].frames = g]
        /\ calls' = [calls EXCEPT ![a] = cs]
        /\ disk' = disk /\ writer' = writer /\ Unlock(a)
    BY DEF InnerEnds
  <1>7. conn' = [conn EXCEPT ![c] = now]
    <2>1. conn[c] \in [frames : Seq(FrameSet), reading : BOOLEAN, seen : SUBSET DbRows]
      BY <1>1 DEF TxInv, TxTypeOK
    <2>2. [conn[c] EXCEPT !.frames = g] = now
      BY <2>1
    <2>3. QED
      BY <1>6, <2>2
  <1>8. /\ depth' \in [Actors -> Nat]
        /\ rlock' = rlock
        /\ \A b \in Actors \ {a} : depth'[b] = depth[b]
        /\ last' = [last EXCEPT ![a] = Unread] /\ journal' = journal
        /\ calls[a][1].kind # "mutex" => depth'[a] = depth[a]
        /\ \A i \in 1 .. n - 1 : calls[a][i].kind = "mutex" => depth'[a] >= i
    BY <1>2, <1>6, UnlockFacts
  <1>9. /\ calls'[a] = cs /\ conn'[c] = now
        /\ \A b \in Actors \ {a} : calls'[b] = calls[b]
    BY <1>1, <1>6, <1>7 DEF TxInv, TxTypeOK
  <1>10. \A b \in Actors \ {a} : Conn[b] = c => ~Busy(b) /\ last[b] = Unread
    BY Alone DEF TxInv, Owned
  <1>11. TxTypeOK'
    <2>1. fate' \in [Ids -> {"unused", "open", "kept", "undone", "skipped"}]
      BY <1>5 DEF Told, TxInv, TxTypeOK
    <2>2. now \in [frames : Seq(FrameSet), reading : BOOLEAN, seen : SUBSET DbRows]
      BY <1>1, <1>2 DEF TxInv, TxTypeOK
    <2>3. calls' \in [Actors -> Seq(CallSet)]
      BY <1>2, <1>6 DEF TxInv, TxTypeOK
    <2>4. last' \in [Actors -> Nat \cup {Unread}]
      BY <1>8 DEF TxInv, TxTypeOK
    <2> HIDE DEF now
    <2>5. conn' \in [Conns -> [frames : Seq(FrameSet), reading : BOOLEAN, seen : SUBSET DbRows]]
      BY <1>7, <2>2 DEF TxInv, TxTypeOK
    <2>6. rlock' \in [Conns -> Actors \cup {None}] /\ writer' \in Conns \cup {None}
          /\ disk' \subseteq DbRows /\ journal' \in Journals
      BY <1>6, <1>8 DEF TxInv, TxTypeOK
    <2>7. depth' \in [Actors -> Nat]
      BY <1>8
    <2>8. QED
      BY <2>1, <2>3, <2>4, <2>5, <2>6, <2>7 DEF TxTypeOK
  <1>12. Owned'
    <2>1. 1 \in 1 .. n - 1
      BY <1>2
    <2>2. ASSUME NEW i \in 1 .. n - 1
          PROVE  /\ cs[i].tag = <<a, i>>
                 /\ g[i].tag = FrameTag(cs[i])
                 /\ cs[i].mode = "begin" => i = 1
                 /\ cs[i].kind = "mutex" => depth'[a] >= i /\ cs[1].kind = "mutex"
      <3>1. i \in 1 .. n
        BY <1>2
      <3>2. FrameTag(cs[i]) = FrameTag(calls[a][i])
        BY <1>3 DEF FrameTag
      <3>3. QED
        BY <1>1, <1>3, <1>8, <2>1, <3>1, <3>2 DEF Stacked
    <2>3. Stacked(a)'
      <3>1. conn'[c].frames = g
        BY <1>9
      <3>2. QED
        BY <1>2, <1>3, <1>9, <2>2, <3>1 DEF Stacked
    <2>4. Outer(a)'
      <3>1. cs[1].kind = calls[a][1].kind /\ cs[1].mode = calls[a][1].mode
        BY <1>3, <2>1
      <3>2. QED
        BY <1>1, <1>6, <1>8, <1>9, <3>1 DEF Outer
    <2>5. cs # <<>>
      BY <1>2
    <2> HIDE DEF c, now
    <2>6. QED
      BY <1>6, <1>7, <1>8, <1>10, <2>3, <2>4, <2>5, OwnedStep DEF c
  <1>13. Sequenced'
    <2>1. Sequenced
      BY DEF TxInv
    <2>2. Dense(disk')
      BY <1>6, <2>1 DEF Sequenced
    <2>3. IF writer' = c
          THEN /\ now.reading /\ now.seen = disk'
               /\ \A i \in 0 .. Len(now.frames) : Dense(disk' \cup Under(now.frames, i))
          ELSE Dense(now.seen) /\ Under(now.frames, Len(now.frames)) = {}
      <3>1. CASE writer = c
        <4>1. \A j \in 0 .. n : Dense(disk \cup Under(f, j))
          BY <1>1, <2>1, <3>1 DEF Sequenced
        <4>2. \A i \in 0 .. n - 1 : Dense(disk \cup Under(g, i))
          BY <1>4, <4>1
        <4>3. now.reading /\ now.seen = disk
          BY <1>1, <2>1, <3>1 DEF Sequenced
        <4>4. QED
          BY <1>2, <1>6, <3>1, <4>2, <4>3
      <3>2. CASE writer # c
        <4>1. Under(f, n) = {} /\ Dense(conn[c].seen)
          BY <1>1, <2>1, <3>2 DEF Sequenced
        <4>2. n - 1 \in 0 .. n - 1
          BY <1>2
        <4>3. PICK j \in 0 .. n : Under(g, n - 1) = Under(f, j)
          BY <1>4, <4>2
        <4>4. Under(f, j) \subseteq Under(f, n)
          BY <1>1, UnderMore
        <4>5. QED
          BY <1>2, <1>6, <3>2, <4>1, <4>3, <4>4
      <3>3. QED
        BY <3>1, <3>2
    <2> HIDE DEF c, now
    <2>4. QED
      BY <1>6, <1>7, <1>8, <1>10, <2>2, <2>3, SequencedStep DEF c
  <1>14. Fated'
    <2>1. Fated
      BY DEF TxInv
    <2>2. n \in 1 .. n /\ n - 1 \in 1 .. n /\ n - 1 \in 1 .. n - 1 /\ n - 1 # n
      BY <1>2
    <2>3. ASSUME NEW i \in 1 .. n - 1
          PROVE  /\ calls[a][i].ids \subseteq cs[i].ids
                 /\ cs[i].ids \subseteq calls[a][i].ids \cup (IF i = n - 1 THEN ids ELSE {})
      <3>1. CASE i = n - 1
        BY <1>5, <3>1
      <3>2. CASE i # n - 1
        <4>1. i \in 1 .. n - 2
          BY <1>2, <3>2
        <4>2. QED
          BY <1>5, <4>1
      <3>3. QED
        BY <3>1, <3>2
    <2>4. \A i \in ids : i \in Ids => fate[i] = "open"
      BY <2>1, <2>2 DEF Fated
    <2>5. \A b \in Actors : \A j \in 1 .. Len(calls[b]) :
             b # a \/ j # n => calls[b][j].ids \cap ids = {}
      BY <2>1, <2>2 DEF Fated
    <2>6. \A i \in Ids : fate'[i] = fate[i] \/ (i \in ids /\ fate'[i] = "undone")
      BY <1>5 DEF Told
    <2>7. ASSUME NEW i \in Ids
          PROVE  fate'[i] = "kept" <=> \E s \in disk' : s.id = i
      BY <1>6, <2>1, <2>4, <2>6 DEF Fated
    <2>8. ASSUME NEW i \in Ids PROVE fate'[i] # "skipped"
      BY <2>1, <2>6 DEF Fated
    <2>9. ASSUME NEW i \in Ids
          PROVE  fate'[i] = "open" <=>
                   \E b \in Actors : \E j \in 1 .. Len(calls'[b]) : i \in calls'[b][j].ids
      <3>1. CASE i \notin ids
        <4>1. fate'[i] = fate[i]
          BY <2>6, <3>1
        <4>2. ASSUME NEW b \in Actors, NEW j \in 1 .. Len(calls[b]), i \in calls[b][j].ids
              PROVE  j \in 1 .. Len(calls'[b]) /\ i \in calls'[b][j].ids
          <5>1. CASE b # a
            BY <1>9, <4>2, <5>1
          <5>2. CASE b = a
            <6>1. j \in 1 .. n - 1
              BY <1>2, <3>1, <4>2, <5>2
            <6>2. QED
              BY <1>2, <1>9, <2>3, <4>2, <5>2, <6>1
          <5>3. QED
            BY <5>1, <5>2
        <4>3. ASSUME NEW b \in Actors, NEW j \in 1 .. Len(calls'[b]), i \in calls'[b][j].ids
              PROVE  j \in 1 .. Len(calls[b]) /\ i \in calls[b][j].ids
          <5>1. CASE b # a
            BY <1>9, <4>3, <5>1
          <5>2. CASE b = a
            <6>1. j \in 1 .. n - 1 /\ j \in 1 .. n
              BY <1>2, <1>9, <4>3, <5>2
            <6>2. i \in cs[j].ids
              BY <1>9, <4>3, <5>2
            <6>3. i \in calls[a][j].ids
              BY <2>3, <3>1, <6>1, <6>2
            <6>4. QED
              BY <5>2, <6>1, <6>3
          <5>3. QED
            BY <5>1, <5>2
        <4>4. QED
          BY <2>1, <4>1, <4>2, <4>3 DEF Fated
      <3>2. CASE i \in ids /\ fate' = fate /\ cs[n - 1].ids = calls[a][n - 1].ids \cup ids
        <4>1. fate'[i] = "open"
          BY <2>4, <3>2
        <4>2. n - 1 \in 1 .. Len(calls'[a]) /\ i \in calls'[a][n - 1].ids
          BY <1>2, <1>9, <2>2, <3>2
        <4>3. QED
          BY <4>1, <4>2
      <3>3. CASE /\ i \in ids /\ fate' = Told(ids, "undone")
                 /\ cs[n - 1].ids = calls[a][n - 1].ids
        <4>1. fate'[i] = "undone"
          BY <3>3 DEF Told
        <4>2. ASSUME NEW b \in Actors, NEW j \in 1 .. Len(calls'[b])
              PROVE  i \notin calls'[b][j].ids
          <5>1. CASE b # a
            BY <1>9, <2>5, <3>3, <4>2, <5>1
          <5>2. CASE b = a
            <6>1. j \in 1 .. n - 1 /\ j \in 1 .. n /\ j # n
              BY <1>2, <1>9, <4>2, <5>2
            <6>2. cs[j].ids = calls[a][j].ids
              <7>1. CASE j = n - 1
                BY <3>3, <7>1
              <7>2. CASE j # n - 1
                <8>1. j \in 1 .. n - 2
                  BY <1>2, <6>1, <7>2
                <8>2. QED
                  BY <1>5, <8>1
              <7>3. QED
                BY <7>1, <7>2
            <6>3. calls[a][j].ids \cap ids = {}
              BY <2>5, <6>1
            <6>4. QED
              BY <1>9, <3>3, <5>2, <6>2, <6>3
          <5>3. QED
            BY <5>1, <5>2
        <4>3. QED
          BY <4>1, <4>2
      <3>4. QED
        BY <1>5, <3>1, <3>2, <3>3
    <2>10. ASSUME NEW b \in Actors, NEW d \in Actors,
                  NEW j \in 1 .. Len(calls'[b]), NEW k \in 1 .. Len(calls'[d]),
                  b # d \/ j # k
           PROVE  calls'[b][j].ids \cap calls'[d][k].ids = {}
      <3>1. ASSUME NEW e \in Actors, NEW m \in 1 .. Len(calls'[e])
            PROVE  /\ m \in 1 .. Len(calls[e]) /\ (e # a \/ m # n)
                   /\ calls'[e][m].ids \subseteq
                        calls[e][m].ids \cup (IF e = a /\ m = n - 1 THEN ids ELSE {})
        <4>1. CASE e # a
          BY <1>9, <3>1, <4>1
        <4>2. CASE e = a
          <5>1. m \in 1 .. n - 1 /\ m \in 1 .. n /\ m # n
            BY <1>2, <1>9, <3>1, <4>2
          <5>2. QED
            BY <1>9, <2>3, <4>2, <5>1
        <4>3. QED
          BY <4>1, <4>2
      <3>2. /\ j \in 1 .. Len(calls[b]) /\ k \in 1 .. Len(calls[d])
            /\ b # a \/ j # n
            /\ d # a \/ k # n
        BY <3>1
      <3>3. calls[b][j].ids \cap calls[d][k].ids = {}
        BY <2>1, <2>10, <3>2 DEF Fated
      <3>4. calls[b][j].ids \cap ids = {} /\ calls[d][k].ids \cap ids = {}
        BY <2>5, <3>2
      <3>5. /\ calls'[b][j].ids \subseteq
                 calls[b][j].ids \cup (IF b = a /\ j = n - 1 THEN ids ELSE {})
            /\ calls'[d][k].ids \subseteq
                 calls[d][k].ids \cup (IF d = a /\ k = n - 1 THEN ids ELSE {})
        BY <3>1
      <3>6. ~((b = a /\ j = n - 1) /\ (d = a /\ k = n - 1))
        BY <2>10
      <3> HIDE DEF ids
      <3>7. QED
        BY <3>3, <3>4, <3>5, <3>6
    <2>11. QED
      BY <2>7, <2>8, <2>9, <2>10 DEF Fated
  <1>15. QED
    BY <1>11, <1>12, <1>13, <1>14 DEF TxInv

\* A call that returns.
LEMMA ReturnStep ==
    ASSUME TxInv, NEW a \in Actors, Return(a)
    PROVE  TxInv'
  <1> DEFINE c == Conn[a]
             f == conn[c].frames
             n == Len(calls[a])
             rest == SubSeq(calls[a], 1, n - 1)
  <1>1. Busy(a) /\ End(a) /\ Returned(a) /\ Unlock(a)
    BY DEF Return, Busy
  <1>2. /\ f \in Seq(FrameSet) /\ calls[a] \in Seq(CallSet) /\ n \in Nat \ {0}
        /\ Len(f) = n /\ Stacked(a) /\ Top(a) = calls[a][n]
    BY <1>1, BusyFacts
  <1>3. Commits(a) <=> n = 1
    BY <1>1, EndFacts
  <1>4. Front(calls[a]) = rest /\ Len(rest) = n - 1
    BY <1>2 DEF Front
  <1>5. CASE n = 1
    <2>1. RowsFrom(c, 1) = f[1].rows
      BY <1>2, <1>5 DEF RowsFrom
    <2>2. Finish(c, f[1].rows)
      BY <1>1, <1>3, <1>5, <2>1 DEF End
    <2>3. calls' = [calls EXCEPT ![a] = <<>>] /\ fate' = Told(calls[a][1].ids, "kept")
      BY <1>1, <1>2, <1>4, <1>5 DEF Returned
    <2>4. OuterEnds(a, f[1].rows, "kept")
      BY <1>1, <1>5, <2>2, <2>3 DEF OuterEnds
    <2>5. QED
      BY <1>1, <2>4, OuterEndsStep
  <1>6. CASE n # 1
    <2>1. n > 1
      <3> HIDE DEF n
      <3>1. QED
        BY <1>2, <1>6
    <2>2. Top(a).mode # "begin"
      <3>1. n \in 1 .. n
        BY <1>2
      <3>2. QED
        BY <1>2, <1>6, <3>1 DEF Stacked
    <2>3. Find(c, Top(a).tag) = n
      BY <1>1, <2>2, FindTop
    <2>4. RowsFrom(c, n) = f[n].rows
      BY <1>2 DEF RowsFrom
    <2>5. Merged(c, n) = Released(f)
      BY <1>2, <2>4 DEF Merged, Released
    <2>6. SetFrames(c, Released(f))
      BY <1>1, <1>3, <1>6, <2>3, <2>5 DEF End
    <2>7. calls' = [calls EXCEPT ![a] = WithIds(rest, calls[a][n].ids)] /\ fate' = fate
      <3>1. Len(Front(calls[a])) = n - 1 /\ n - 1 # 0
        BY <1>2, <1>4, <2>1
      <3>2. /\ calls' = [calls EXCEPT ![a] =
                   [Front(calls[a]) EXCEPT ![Len(Front(calls[a]))].ids = @ \cup Top(a).ids]]
            /\ fate' = fate
        BY <1>1, <3>1 DEF Returned
      <3>3. QED
        BY <1>2, <1>4, <3>2 DEF WithIds
    <2>8. InnerEnds(a, Released(f), WithIds(rest, calls[a][n].ids))
      BY <1>1, <2>1, <2>6, <2>7 DEF InnerEnds, SetFrames
    <2>9. QED
      BY <1>1, <2>8, InnerEndsStep
  <1>7. QED
    BY <1>5, <1>6

\* A call that raises and whose work is undone.
LEMMA UndoStep ==
    ASSUME TxInv, NEW a \in Actors, Busy(a), Undo(a), Raised(a), Unlock(a)
    PROVE  TxInv'
  <1> DEFINE c == Conn[a]
             f == conn[c].frames
             n == Len(calls[a])
             rest == SubSeq(calls[a], 1, n - 1)
  <1>1. /\ f \in Seq(FrameSet) /\ calls[a] \in Seq(CallSet) /\ n \in Nat \ {0}
        /\ Len(f) = n /\ Stacked(a) /\ Top(a) = calls[a][n]
    BY BusyFacts
  <1>2. (Commits(a) <=> n = 1) /\ ~Gone(a)
    BY EndFacts
  <1>3. Front(calls[a]) = rest /\ Len(rest) = n - 1
    BY <1>1 DEF Front
  <1>4. calls' = [calls EXCEPT ![a] = rest] /\ fate' = Told(calls[a][n].ids, "undone")
    BY <1>1, <1>3 DEF Raised
  <1>5. CASE n = 1
    <2>1. Finish(c, {})
      BY <1>2, <1>5 DEF Undo
    <2>2. rest = <<>>
      BY <1>1, <1>5
    <2>3. OuterEnds(a, {}, "undone")
      BY <1>4, <1>5, <2>1, <2>2 DEF OuterEnds
    <2>4. QED
      BY <2>3, OuterEndsStep
  <1>6. CASE n # 1
    <2>1. n > 1
      <3> HIDE DEF n
      <3>1. QED
        BY <1>1, <1>6
    <2>2. Top(a).mode # "begin"
      <3>1. n \in 1 .. n
        BY <1>1
      <3>2. QED
        BY <1>1, <1>6, <3>1 DEF Stacked
    <2>3. Find(c, Top(a).tag) = n
      BY <2>2, FindTop
    <2>4. SetFrames(c, SubSeq(f, 1, n - 1))
      BY <1>2, <1>6, <2>3 DEF Undo
    <2>5. InnerEnds(a, SubSeq(f, 1, n - 1), rest)
      BY <1>4, <2>1, <2>4 DEF InnerEnds, SetFrames
    <2>6. QED
      BY <2>5, InnerEndsStep
  <1>7. QED
    BY <1>5, <1>6

\* Without a lapse it is not the COMMIT of ConversationStore that failed, and
\* the other helpers undo.
LEMMA EndFailsUndoes ==
    ASSUME TxInv, NEW a \in Actors, EndFails(a), ~lapsed'
    PROVE  Busy(a) /\ Undo(a) /\ Raised(a) /\ Unlock(a)
  <1>1. Busy(a) /\ Raised(a) /\ Unlock(a)
    BY DEF EndFails, Busy
  <1>2. Commits(a)
    BY <1>1, EndFacts DEF EndFails
  <1>3. UndoesFailedEnd(Top(a).kind)
    BY <1>2 DEF EndFails
  <1>4. Undo(a)
    BY <1>3 DEF EndFails
  <1>5. QED
    BY <1>1, <1>4

\* SQLite rolls back what the threads of a closed connection had open.
LEMMA CloseStep ==
    ASSUME TxInv, NEW c \in Conns, Close(c)
    PROVE  TxInv'
  <1> DEFINE mine == {a \in Actors : Conn[a] = c}
             lost == UNION {UNION {call.ids : call \in Range(calls[a])} : a \in mine}
  <1>1. /\ disk' = disk
        /\ conn' = [conn EXCEPT ![c] = Idle]
        /\ writer' = IF writer = c THEN None ELSE writer
        /\ rlock' = [rlock EXCEPT ![c] = None]
        /\ calls' = [a \in Actors |-> IF a \in mine THEN <<>> ELSE calls[a]]
        /\ depth' = [a \in Actors |-> IF a \in mine THEN 0 ELSE depth[a]]
        /\ last' = [a \in Actors |-> IF a \in mine THEN Unread ELSE last[a]]
        /\ fate' = Told(lost, "undone")
        /\ journal' = journal
    BY DEF Close, Finish
  <1>2. None \notin Conns /\ \A a \in Actors : Conn[a] \in Conns
    BY TransactionsAssumption
  <1>3. \A i : i \in lost <=>
           \E a \in mine : \E j \in 1 .. Len(calls[a]) : i \in calls[a][j].ids
    <2>1. ASSUME NEW a \in mine
          PROVE  Range(calls[a]) = {calls[a][j] : j \in 1 .. Len(calls[a])}
      <3>1. calls[a] \in Seq(CallSet)
        BY DEF TxInv, TxTypeOK
      <3>2. QED
        BY <3>1 DEF Range
    <2>2. ASSUME NEW a \in mine, NEW i
          PROVE  i \in UNION {call.ids : call \in Range(calls[a])} <=>
                    \E j \in 1 .. Len(calls[a]) : i \in calls[a][j].ids
      BY <2>1
    <2>3. \A i : i \in lost <=>
             \E a \in mine : i \in UNION {call.ids : call \in Range(calls[a])}
      OBVIOUS
    <2>4. QED
      BY <2>2, <2>3
  <1> HIDE DEF lost
  <1>4. \A i \in Ids : fate'[i] = IF i \in lost THEN "undone" ELSE fate[i]
    BY <1>1 DEF Told
  <1>5. Idle \in [frames : Seq(FrameSet), reading : BOOLEAN, seen : SUBSET DbRows]
    BY DEF Idle
  <1>6. conn'[c] = Idle /\ \A d \in Conns \ {c} : conn'[d] = conn[d]
    BY <1>1 DEF TxInv, TxTypeOK
  <1>7. \A a \in mine : calls'[a] = <<>> /\ depth'[a] = 0 /\ last'[a] = Unread
    BY <1>1
  <1>8. \A a \in Actors \ mine :
           /\ calls'[a] = calls[a] /\ depth'[a] = depth[a] /\ last'[a] = last[a]
           /\ Conn[a] # c /\ conn'[Conn[a]] = conn[Conn[a]]
           /\ rlock'[Conn[a]] = rlock[Conn[a]]
           /\ writer' = Conn[a] <=> writer = Conn[a]
    BY <1>1, <1>2, <1>6 DEF TxInv, TxTypeOK
  <1>9. TxTypeOK'
    <2>1. fate' \in [Ids -> {"unused", "open", "kept", "undone", "skipped"}]
      BY <1>1 DEF Told, TxInv, TxTypeOK
    <2>2. conn' \in [Conns -> [frames : Seq(FrameSet), reading : BOOLEAN, seen : SUBSET DbRows]]
      BY <1>1, <1>5 DEF TxInv, TxTypeOK
    <2>3. /\ calls' \in [Actors -> Seq(CallSet)] /\ depth' \in [Actors -> Nat]
          /\ last' \in [Actors -> Nat \cup {Unread}]
      BY <1>1 DEF TxInv, TxTypeOK
    <2>4. /\ rlock' \in [Conns -> Actors \cup {None}] /\ writer' \in Conns \cup {None}
          /\ disk' \subseteq DbRows /\ journal' \in Journals
      BY <1>1 DEF TxInv, TxTypeOK
    <2>5. QED
      BY <2>1, <2>2, <2>3, <2>4 DEF TxTypeOK
  <1>10. Owned'
    <2>1. ASSUME NEW a \in Actors, Busy(a)' PROVE Stacked(a)' /\ Outer(a)'
      <3>1. a \notin mine /\ Busy(a)
        BY <1>7, <1>8, <2>1 DEF Busy
      <3>2. Stacked(a) /\ Outer(a)
        BY <3>1, BusyFacts
      <3>3. Stacked(a)'
        BY <1>8, <3>1, <3>2 DEF Stacked
      <3>4. Outer(a)'
        BY <1>8, <3>1, <3>2 DEF Outer
      <3>5. QED
        BY <3>3, <3>4
    <2>2. ASSUME NEW a \in Actors, ~Busy(a)'
          PROVE  last'[a] = Unread /\ (Shared(a) => depth'[a] = 0)
      <3>1. CASE a \in mine
        BY <1>7, <3>1
      <3>2. CASE a \notin mine
        BY <1>8, <2>2, <3>2 DEF TxInv, Owned, Busy
      <3>3. QED
        BY <3>1, <3>2
    <2>3. ASSUME NEW d \in Conns, conn'[d] # Idle
          PROVE  \E a \in Actors : Conn[a] = d /\ Busy(a)'
      <3>1. d # c /\ conn[d] # Idle
        BY <1>6, <2>3
      <3>2. PICK a \in Actors : Conn[a] = d /\ Busy(a)
        BY <3>1 DEF TxInv, Owned
      <3>3. QED
        BY <1>8, <3>1, <3>2 DEF Busy
    <2>4. QED
      BY <2>1, <2>2, <2>3 DEF Owned
  <1>11. Sequenced'
    <2>1. Sequenced
      BY DEF TxInv
    <2>2. Dense(Idle.seen) /\ Under(Idle.frames, Len(Idle.frames)) = {}
      BY FS_EmptySet DEF Idle, Dense, Under
    <2>3. ASSUME NEW d \in Conns
          PROVE  IF writer' = d
                 THEN /\ conn'[d].reading /\ conn'[d].seen = disk'
                      /\ \A i \in 0 .. Len(conn'[d].frames) :
                            Dense(disk' \cup Under(conn'[d].frames, i))
                 ELSE /\ Dense(conn'[d].seen)
                      /\ Under(conn'[d].frames, Len(conn'[d].frames)) = {}
      <3>1. CASE d = c
        BY <1>1, <1>2, <1>6, <2>2, <3>1
      <3>2. CASE d # c
        <4>1. conn'[d] = conn[d] /\ (writer' = d <=> writer = d)
          BY <1>1, <1>2, <1>6, <3>2
        <4>2. QED
          BY <1>1, <2>1, <4>1 DEF Sequenced
      <3>3. QED
        BY <3>1, <3>2
    <2>4. ASSUME NEW a \in Actors, last'[a] # Unread
          PROVE  /\ conn'[Conn[a]].reading
                 /\ last'[a] = Max({0} \cup {r.seq : r \in View(Conn[a])'})
      <3>1. a \notin mine
        BY <1>7, <2>4
      <3>2. View(Conn[a])' = View(Conn[a])
        BY <1>1, <1>8, <3>1 DEF View, RowsFrom
      <3>3. QED
        BY <1>8, <2>1, <2>4, <3>1, <3>2 DEF Sequenced
    <2>5. Dense(disk')
      BY <1>1, <2>1 DEF Sequenced
    <2>6. QED
      BY <2>3, <2>4, <2>5 DEF Sequenced, Dense, Under
  <1>12. Fated'
    <2>1. Fated
      BY DEF TxInv
    <2>2. \A i \in Ids : i \in lost => fate[i] = "open"
      BY <1>3, <2>1 DEF Fated
    <2>3. ASSUME NEW i \in Ids
          PROVE  fate'[i] = "kept" <=> \E r \in disk' : r.id = i
      BY <1>1, <1>4, <2>1, <2>2 DEF Fated
    <2>4. ASSUME NEW i \in Ids
          PROVE  fate'[i] = "open" <=>
                   \E a \in Actors : \E j \in 1 .. Len(calls'[a]) : i \in calls'[a][j].ids
      <3>1. CASE i \in lost
        <4>1. PICK a \in mine : \E j \in 1 .. Len(calls[a]) : i \in calls[a][j].ids
          BY <1>3, <3>1
        <4>2. ASSUME NEW b \in Actors, NEW j \in 1 .. Len(calls'[b])
              PROVE  i \notin calls'[b][j].ids
          <5>1. b \notin mine
            BY <1>7, <4>2
          <5>2. calls'[b] = calls[b] /\ b # a
            BY <1>8, <4>1, <5>1
          <5>3. QED
            BY <2>1, <4>1, <4>2, <5>2 DEF Fated
        <4>3. QED
          BY <1>4, <3>1, <4>2
      <3>2. CASE i \notin lost
        <4>1. ASSUME NEW a \in Actors, NEW j \in 1 .. Len(calls[a]), i \in calls[a][j].ids
              PROVE  calls'[a] = calls[a]
          BY <1>3, <1>8, <3>2, <4>1
        <4>2. ASSUME NEW a \in Actors, NEW j \in 1 .. Len(calls'[a])
              PROVE  calls'[a] = calls[a]
          BY <1>7, <1>8, <4>2
        <4>3. QED
          BY <1>4, <2>1, <3>2, <4>1, <4>2 DEF Fated
      <3>3. QED
        BY <3>1, <3>2
    <2>5. ASSUME NEW i \in Ids PROVE fate'[i] # "skipped"
      BY <1>4, <2>1 DEF Fated
    <2>6. ASSUME NEW a \in Actors, NEW b \in Actors,
                 NEW j \in 1 .. Len(calls'[a]), NEW k \in 1 .. Len(calls'[b]),
                 a # b \/ j # k
          PROVE  calls'[a][j].ids \cap calls'[b][k].ids = {}
      <3>1. a \notin mine /\ b \notin mine
        BY <1>7, <2>6
      <3>2. calls'[a] = calls[a] /\ calls'[b] = calls[b]
        BY <1>8, <3>1
      <3>3. QED
        BY <2>1, <2>6, <3>2 DEF Fated
    <2>7. QED
      BY <2>3, <2>4, <2>5, <2>6 DEF Fated
  <1>13. QED
    BY <1>9, <1>10, <1>11, <1>12 DEF TxInv

-----------------------------------------------------------------------------
\* Initially nothing is open and every id is unused.
LEMMA TxInitInv == TxInit => TxInv
  <1> SUFFICES ASSUME TxInit PROVE TxInv
    OBVIOUS
  <1> USE DEF TxInit
  <1>1. Idle \in [frames : Seq(FrameSet), reading : BOOLEAN, seen : SUBSET DbRows]
    BY DEF Idle
  <1>2. TxTypeOK
    BY <1>1 DEF TxTypeOK
  <1>3. \A a \in Actors : ~Busy(a)
    BY DEF Busy
  <1>4. Owned
    BY <1>3 DEF Owned
  <1>5. Sequenced
    <2>1. Dense({}) /\ Under(Idle.frames, Len(Idle.frames)) = {} /\ Idle.seen = {}
      BY FS_EmptySet DEF Idle, Dense, Under
    <2>2. \A c \in Conns : writer # c
      BY TransactionsAssumption
    <2>3. QED
      BY <2>1, <2>2 DEF Sequenced
  <1>6. Fated
    BY DEF Fated
  <1>7. QED
    BY <1>2, <1>4, <1>5, <1>6 DEF TxInv

\* The invariant is inductive up to a lapse, one step per action.
LEMMA TxStep ==
    ASSUME Disciplined, TxInv, [TxNext]_txvars, ~lapsed'
    PROVE  TxInv'
  <1>1. ASSUME NEW a \in Actors, NEW k \in Kinds, EnterNested(a, k) PROVE TxInv'
    BY <1>1, EnterNestedStep
  <1>2. ASSUME NEW a \in Actors, NEW k \in Kinds, EnterStore(a, k) PROVE TxInv'
    BY <1>2, EnterStoreStep
  <1>3. ASSUME NEW a \in Actors, EnterMutex(a) PROVE TxInv'
    BY <1>3, EnterMutexStep
  <1>4. ASSUME NEW a \in Actors, EnterMutexFails(a) PROVE TxInv'
    BY <1>4, EnterMutexFailsStep
  <1>5. ASSUME NEW a \in Actors, Read(a) PROVE TxInv'
    BY <1>5, ReadStep
  <1>6. ASSUME NEW a \in Actors, Insert(a) PROVE TxInv'
    BY <1>6, InsertStep
  <1>7. ASSUME NEW a \in Actors, Return(a) PROVE TxInv'
    BY <1>7, ReturnStep
  <1>8. ASSUME NEW a \in Actors, OperationRaises(a) PROVE TxInv'
    BY <1>8, UndoStep DEF OperationRaises, Busy
  <1>9. ASSUME NEW a \in Actors, EndFails(a) PROVE TxInv'
    BY <1>9, EndFailsUndoes, UndoStep
  <1>10. ASSUME NEW c \in Conns, Close(c) PROVE TxInv'
    BY <1>10, CloseStep
  <1>11. CASE UNCHANGED txvars
    <2>1. TxTypeOK'
      BY <1>11 DEF txvars, TxInv, TxTypeOK
    <2>2. Owned'
      BY <1>11 DEF txvars, TxInv, Owned, Busy, Stacked, Outer
    <2>3. Sequenced'
      <3>1. disk' = disk /\ conn' = conn /\ writer' = writer /\ last' = last
        BY <1>11 DEF txvars
      <3>2. Sequenced
        BY DEF TxInv
      <3>3. Dense(disk')
        BY <3>1, <3>2 DEF Sequenced
      <3>4. ASSUME NEW d \in Conns
            PROVE  IF writer' = d
                   THEN /\ conn'[d].reading /\ conn'[d].seen = disk'
                        /\ \A i \in 0 .. Len(conn'[d].frames) :
                              Dense(disk' \cup Under(conn'[d].frames, i))
                   ELSE /\ Dense(conn'[d].seen)
                        /\ Under(conn'[d].frames, Len(conn'[d].frames)) = {}
        BY <3>1, <3>2 DEF Sequenced
      <3>5. ASSUME NEW a \in Actors, last'[a] # Unread
            PROVE  /\ conn'[Conn[a]].reading
                   /\ last'[a] = Max({0} \cup {r.seq : r \in View(Conn[a])'})
        <4>1. View(Conn[a])' = View(Conn[a])
          BY <3>1 DEF View, RowsFrom
        <4>2. QED
          BY <3>1, <3>2, <3>5, <4>1 DEF Sequenced
      <3>6. QED
        BY <3>3, <3>4, <3>5 DEF Sequenced, Dense, Under
    <2>4. Fated'
      BY <1>11 DEF txvars, TxInv, Fated
    <2>5. QED
      BY <2>1, <2>2, <2>3, <2>4 DEF TxInv
  <1>12. QED
    BY <1>1, <1>2, <1>3, <1>4, <1>5, <1>6, <1>7, <1>8, <1>9, <1>10, <1>11 DEF TxNext

\* No step takes a lapse back.
LEMMA LapsedStays ==
    ASSUME [TxNext]_txvars, lapsed
    PROVE  lapsed'
  BY DEF TxNext, txvars, EnterNested, EnterStore, EnterMutex, EnterMutexFails, Read,
         Insert, Return, OperationRaises, EndFails, Close

\* TxInv holds of every behaviour up to its first lapse.
LEMMA TxInvariant ==
    ASSUME Disciplined
    PROVE  TxSpec => [](lapsed \/ TxInv)
  <1>1. TxInit => lapsed \/ TxInv
    BY TxInitInv
  <1>2. (lapsed \/ TxInv) /\ [TxNext]_txvars => (lapsed \/ TxInv)'
    BY TxStep, LapsedStays
  <1>3. QED
    BY <1>1, <1>2, PTL DEF TxSpec

(***************************************************************************)
(* AllOrNothing, when threads that share a connection begin with           *)
(* with_database_transaction and no operation of a store begins one        *)
(* (Disciplined): whatever the nesting of the helpers, the operations that *)
(* raise, the statements that time out, the crashes and the other          *)
(* connections, the rows of a call that returned are stored and stay so,   *)
(* and those of a call that is open or has raised are not, until the first *)
(* COMMIT of ConversationStore fails or the BEGIN of a thread that shares  *)
(* its connection times out (lapsed).                                      *)
(***************************************************************************)
THEOREM TransactionsAtomic ==
    ASSUME Disciplined
    PROVE  TxSpec => []AllOrNothing
  <1>1. lapsed \/ TxInv => AllOrNothing
    BY DEF TxInv, Fated, AllOrNothing
  <1>2. QED
    BY <1>1, TxInvariant, PTL

(***************************************************************************)
(* NoUniqueRace, under the same discipline and up to the same lapse: the   *)
(* seq that _persist computes as MAX(seq) + 1 inside a helper and then     *)
(* inserts is still free, so that no message is dropped as already         *)
(* ingested, and the stored seqs have no gap.                              *)
(***************************************************************************)
THEOREM NoSeqTaken ==
    ASSUME Disciplined
    PROVE  TxSpec => []NoUniqueRace
  <1>1. lapsed \/ TxInv => NoUniqueRace
    BY DEF TxInv, Fated, Sequenced, Dense, NoUniqueRace
  <1>2. QED
    BY <1>1, TxInvariant, PTL
=============================================================================
