------------------------- MODULE MaintenanceProofs -------------------------
(***************************************************************************)
(* Proofs about the jobs and the upkeep of the database.                   *)
(*                                                                         *)
(* First Backfill, for any set of workers, any finite set of leaves and    *)
(* any limits.  WrittenOnce is not inductive: nothing in it ties what a    *)
(* tick still has to embed to what is already written.  The strengthening  *)
(* says who may write (WriterHoldsLock), that what the holder of the lock  *)
(* still has to embed is unwritten (HolderUnwritten, which a successor's   *)
(* Select makes true and a late worker's lost lock makes harmless), and    *)
(* why Select never finds a written leaf (WrittenKnown).                   *)
(*                                                                         *)
(* Then Upkeep, for any conversations, summaries, keys, legacy database    *)
(* and any number of processes: session keys.  The inductive invariant     *)
(* KeysInv says that the ids still to be given out name no row (IdsFresh), *)
(* so that no step resurrects the summaries of an earlier conversation,    *)
(* and what the keys of summaries and the audit trail of keys follow.      *)
(*                                                                         *)
(* Last what Upkeep derives and repairs, for any trees of summaries found  *)
(* (Grown) and any chain of providers.  The sweeps of the depth backfill   *)
(* settle one more condensed summary each until all have the height of     *)
(* their tree (SweepsSettle), so that sources come first in the order by   *)
(* depth in which descendants are counted (CountStep) and in which the     *)
(* doctor tries its targets (DoctorStartData).  The inductive invariant    *)
(* DataInv adds to KeysInv that the summaries found stay or go together    *)
(* (Rooted), that no ladder runs twice (Laddered), and of a pass that      *)
(* every marked source was tried or comes earlier (Queued) and every       *)
(* target is rewritten once (Distinct).                                    *)
(***************************************************************************)
EXTENDS Backfill, Upkeep, OrdinalFacts, FiniteSetTheorems, SequenceTheorems,
        WellFoundedInduction, TLAPS

-----------------------------------------------------------------------------
(***************************************************************************)
(* Backfill.                                                               *)
(***************************************************************************)
PCs == {"rest", "insert", "select", "beat", "embed", "recheck", "write",
        "release", "account"}

Ticks == [pc : PCs, failed : SUBSET Docs, processed : Nat, todo : SUBSET Docs,
          embedded : BOOLEAN, skipped : BOOLEAN, lost : BOOLEAN,
          raised : {"no", "auth", "error"}]

Loops == [idle : Nat, strikes : Nat,
          stopped : {"no", "idle", "failing", "auth", "asked"}]

\* The types of the tables, of the ticks' variables and of the counters.
TypeOK ==
    /\ row \in Rows
    /\ leaf \in [Docs -> {"absent", "live", "suppressed", "deleted"}]
    /\ vec \in [Docs -> {"none", "visible", "hidden"}]
    /\ meta \subseteq Docs
    /\ tick \in [Workers -> Ticks]
    /\ loop \in [Workers -> Loops]
    /\ spent \in [manual : Nat, faults : Nat, stalls : Nat]
    /\ writes \in [Docs -> Nat]
    /\ raced \subseteq Docs
    /\ late \subseteq Docs

\* What a tick has selected is live, or was purged or deleted since.
SelectedLive ==
    \A w \in Workers : \A d \in tick[w].todo : leaf[d] = "live" \/ d \in raced

\* A tick between its re-check and its write holds the lock.
WriterHoldsLock == \A w \in Workers : tick[w].pc = "write" => Renewable(row, w)

\* Nobody has written what the holder of the lock still has to write.
HolderUnwritten ==
    \A w \in Workers : Renewable(row, w) => \A d \in tick[w].todo : writes[d] = 0

\* A tick that waits for the lock has selected nothing yet.
NothingSelectedEarly == \A w \in Workers : tick[w].pc = "insert" => tick[w].todo = {}

\* A written document has its meta row until it is deleted.
WrittenKnown == \A d \in Docs : writes[d] > 0 => d \in meta \/ leaf[d] = "deleted"

OnceInv == /\ WriterHoldsLock
           /\ HolderUnwritten
           /\ NothingSelectedEarly
           /\ WrittenKnown
           /\ WrittenOnce

-----------------------------------------------------------------------------
(* The lock row, and the operators of a tick.                              *)

\* A row of a worker differs from no row, and its fields are what was stored.
LEMMA RowFields ==
    /\ NoRow.held = FALSE
    /\ \A w, n : RowOf(w, n).held = TRUE /\ RowOf(w, n).worker = w /\ RowOf(w, n).left = n
  BY DEF NoRow, RowOf

\* The rows are NoRow and the rows of a worker with at most TTL ticks left.
LEMMA RowCases ==
    ASSUME NEW r \in Rows
    PROVE  /\ r.held \in BOOLEAN
           /\ ~r.held => r = NoRow
           /\ r.held => /\ r.worker \in Workers
                        /\ r.left \in 0 .. TTL
                        /\ r = RowOf(r.worker, r.left)
  <1>1. CASE r = NoRow
    BY <1>1, RowFields
  <1>2. CASE r # NoRow
    <2>1. PICK w \in Workers, n \in 0 .. TTL : r = RowOf(w, n)
      BY <1>2 DEF Rows
    <2>2. r.held = TRUE /\ r.worker = w /\ r.left = n
      BY <2>1, RowFields
    <2>3. QED
      BY <2>1, <2>2
  <1>3. QED
    BY <1>1, <1>2

\* Every statement on the lock table yields a row again.
LEMMA StatementTypes ==
    ASSUME NEW r \in Rows, NEW w \in Workers
    PROVE  /\ GcExpired(r) \in Rows
           /\ InsertOrIgnore(r, w) \in Rows
           /\ HeartbeatLock(r, w) \in Rows
           /\ ReleaseLock(r, w) \in Rows
           /\ Age(r) \in Rows
  <1>1. NoRow \in Rows /\ \A v \in Workers, n \in 0 .. TTL : RowOf(v, n) \in Rows
    BY DEF Rows
  <1>2. TTL \in 0 .. TTL /\ \A n \in 0 .. TTL : Dec(n) \in 0 .. TTL
    BY TTLAssumption DEF Dec
  <1>3. QED
    BY <1>1, <1>2, RowCases DEF GcExpired, InsertOrIgnore, HeartbeatLock, ReleaseLock, Age

\* A batch is part of what it is packed from.
LEMMA BatchInside == \A S : PackBatches(S) \subseteq S
  BY DEF PackBatches

\* A selection is of pending documents only.
LEMMA NewestInside == \A S, n : Newest(S, n) \subseteq S
  BY DEF Newest

\* Counting a batch gives a number.
LEMMA BatchCount ==
    ASSUME NEW S \in SUBSET Docs
    PROVE  Cardinality(PackBatches(S)) \in Nat
  BY BatchInside, BackfillAssumption, FS_Subset, FS_CardinalityType

\* The first recorded embedding counts as one.
LEMMA FirstWrite == Min({0 + 1, 2}) = 1
  BY DEF Min

\* Min of two numbers is one of them.
LEMMA MinType == ASSUME NEW n \in Nat PROVE Min({n + 1, 2}) \in Nat
  <1>1. \E x \in {n + 1, 2} : \A y \in {n + 1, 2} : x <= y
    OBVIOUS
  <1>2. QED
    BY <1>1 DEF Min

\* The next batch, the next selection, the end of the try block and the counts
\* of a batch give a tick again.
LEMMA TickTypes ==
    ASSUME NEW t \in Ticks
    PROVE  /\ Advance(t) \in Ticks
           /\ Leave(t) \in Ticks
           /\ Blocklisted(t) \in Ticks
           /\ Rejected(t) \in Ticks
           /\ \A done, failing : Recorded(t, done, failing) \in Ticks
  <1>1. Cardinality(PackBatches(t.todo)) \in Nat /\ PackBatches(t.todo) \in SUBSET Docs
    BY BatchCount, BatchInside DEF Ticks
  <1>2. Advance(t) \in Ticks /\ Leave(t) \in Ticks
    BY <1>1 DEF Ticks, PCs, Advance, Leave
  <1>3. Blocklisted(t) \in Ticks
    BY <1>1 DEF Ticks, Blocklisted
  <1>4. Rejected(t) \in Ticks
    BY <1>1, <1>3 DEF Ticks, Rejected
  <1>5. ASSUME NEW done, NEW failing PROVE Recorded(t, done, failing) \in Ticks
    <2>1. (t.embedded \/ done # {}) \in BOOLEAN /\ (t.skipped \/ failing # {}) \in BOOLEAN
      BY Zenon
    <2>2. \A n \in Nat, e, s \in BOOLEAN :
            [t EXCEPT !.processed = n, !.embedded = e, !.skipped = s] \in Ticks
      BY DEF Ticks
    <2>3. t.processed + Cardinality(PackBatches(t.todo)) \in Nat
      BY <1>1 DEF Ticks
    <2>4. QED
      BY <2>1, <2>2, <2>3 DEF Recorded
  <1>6. QED
    BY <1>2, <1>3, <1>4, <1>5

\* What is left to do after a step of the batch loop.
LEMMA TodoAfter ==
    ASSUME NEW t \in Ticks
    PROVE  /\ Leave(t).todo = {} /\ Leave(t).pc = "release"
           /\ Advance(t).todo = t.todo \ PackBatches(t.todo)
           /\ Advance(t).pc \in {"beat", "select"}
           /\ Rejected(t).todo = t.todo
           /\ \A done, failing : Recorded(t, done, failing).todo = t.todo
  BY DEF Ticks, Advance, Leave, Rejected, Blocklisted, Recorded

-----------------------------------------------------------------------------
(***************************************************************************)
(* Type correctness.                                                       *)
(***************************************************************************)

\* A change of single fields of a tick is a tick.
LEMMA TickFields ==
    ASSUME NEW t \in Ticks
    PROVE  /\ \A p \in PCs : [t EXCEPT !.pc = p] \in Ticks
           /\ [t EXCEPT !.lost = TRUE] \in Ticks
           /\ \A r \in {"auth", "error"} : [t EXCEPT !.raised = r] \in Ticks
           /\ \A S \in SUBSET Docs : [t EXCEPT !.todo = S, !.pc = "beat"] \in Ticks
  <1> USE DEF Ticks
  <1>1. \A p \in PCs : [t EXCEPT !.pc = p] \in Ticks
    OBVIOUS
  <1>2. [t EXCEPT !.lost = TRUE] \in Ticks
    OBVIOUS
  <1>3. \A r \in {"auth", "error"} : [t EXCEPT !.raised = r] \in Ticks
    OBVIOUS
  <1>5. \A S \in SUBSET Docs : [t EXCEPT !.todo = S, !.pc = "beat"] \in Ticks
    BY DEF PCs
  <1>7. QED
    BY <1>1, <1>2, <1>3, <1>5

\* The accounting of a finished tick gives a loop again.
LEMMA LoopTypes ==
    ASSUME NEW l \in Loops, NEW t \in Ticks
    PROVE  Settled(l, Accounted(l, t)) \in Loops
  <1>0. \A n : StopAt(n, "failing") \in {"failing", "no"} /\ StopAt(n, "idle") \in {"idle", "no"}
    BY DEF StopAt
  <1>1. \A k \in Loops : FailureStrike(k) \in Loops
    <2>1. \A k \in Loops, n \in Nat, v \in {"failing", "no"} :
            [k EXCEPT !.strikes = n, !.stopped = v] \in Loops
      BY DEF Loops
    <2>2. \A k \in Loops : k.strikes + 1 \in Nat
      BY DEF Loops
    <2>3. QED
      BY <2>1, <2>2, <1>0 DEF FailureStrike
  <1>2. [l EXCEPT !.stopped = "auth"] \in Loops
    BY DEF Loops
  <1>3. [FailureStrike(l) EXCEPT !.idle = 0] \in Loops
    BY <1>1 DEF Loops
  <1>4. [l EXCEPT !.strikes = 0, !.idle = @ + 1, !.stopped = StopAt(l.idle + 1, "idle")]
            \in Loops
    <2>1. \A n \in Nat, v \in {"idle", "no"} :
            [l EXCEPT !.strikes = 0, !.idle = n, !.stopped = v] \in Loops
      BY DEF Loops
    <2>2. l.idle + 1 \in Nat
      BY DEF Loops
    <2>3. QED
      BY <2>1, <2>2, <1>0
  <1>5. [l EXCEPT !.strikes = 0, !.idle = 0] \in Loops
    BY DEF Loops
  <1>6. Accounted(l, t) \in Loops
    <2>1. CASE t.raised = "auth"
      BY <2>1, <1>2 DEF Accounted, Ticks
    <2>2. CASE t.raised = "error"
      BY <2>2, <1>1 DEF Accounted, Ticks
    <2>3. CASE t.raised = "no"
      BY <2>3, <1>3, <1>4, <1>5 DEF Accounted, Ticks
    <2>4. QED
      BY <2>1, <2>2, <2>3 DEF Ticks
  <1>7. [Accounted(l, t) EXCEPT !.stopped = "asked"] \in Loops
    BY <1>6 DEF Loops
  <1>8. QED
    BY <1>6, <1>7 DEF Settled

\* Every step of the workers, of the store and of the clock keeps the types.
LEMMA TypeStep == TypeOK /\ [Next]_vars => TypeOK'
  <1> SUFFICES ASSUME TypeOK, [Next]_vars PROVE TypeOK'
    OBVIOUS
  <1> USE DEF TypeOK
  <1>1. ASSUME NEW w \in Workers, NEW t \in Ticks,
               tick' = [tick EXCEPT ![w] = t]
        PROVE  tick' \in [Workers -> Ticks]
    BY <1>1
  <1>2. \A w \in Workers : tick[w] \in Ticks /\ loop[w] \in Loops
    OBVIOUS
  <1>3. Fault => spent' \in [manual : Nat, faults : Nat, stalls : Nat]
    BY DEF Fault
  <1>4. PCs = {"rest", "insert", "select", "beat", "embed", "recheck", "write",
               "release", "account"}
    BY DEF PCs
  <1>5. ASSUME NEW w \in Workers, WorkerStep(w) PROVE TypeOK'
    <2>0. Batch(w) \subseteq Docs /\ Cardinality(Batch(w)) \in Nat
      BY BatchInside, BatchCount DEF Batch, Ticks
    <2>1. CASE StartTick(w)
      <3>1. [NoTick EXCEPT !.pc = "insert"] \in Ticks
        BY DEF NoTick, Ticks, PCs
      <3>2. spent' \in [manual : Nat, faults : Nat, stalls : Nat]
        BY <2>1 DEF StartTick
      <3>3. QED
        BY <2>1, <1>1, <3>1, <3>2, StatementTypes DEF StartTick, data
    <2>2. CASE AcquireOk(w)
      BY <2>2, <1>1, <1>2, <1>4, TickFields, StatementTypes DEF AcquireOk, data
    <2>3. CASE AcquireRefused(w)
      <3>1. [[tick[w] EXCEPT !.pc = "account"] EXCEPT !.lost = TRUE] \in Ticks
        BY <1>2, <1>4, TickFields
      <3>2. tick' = [tick EXCEPT ![w] = [[tick[w] EXCEPT !.pc = "account"] EXCEPT !.lost = TRUE]]
        BY <2>3 DEF AcquireRefused
      <3>3. QED
        BY <2>3, <3>1, <3>2 DEF AcquireRefused, data
    <2>4. CASE Select(w)
      <3>1. \A S, n : Newest(Selectable(S), n) \in SUBSET Docs
        BY NewestInside DEF Selectable, Pending
      <3>2. PICK found \in SUBSET Docs :
              \/ tick' = [tick EXCEPT ![w] = Leave(tick[w])]
              \/ tick' = [tick EXCEPT ![w] = [tick[w] EXCEPT !.todo = found, !.pc = "beat"]]
        BY <2>4, <3>1 DEF Select
      <3>3. tick' \in [Workers -> Ticks]
        <4>1. Leave(tick[w]) \in Ticks
          BY <1>2, TickTypes
        <4>2. [tick[w] EXCEPT !.todo = found, !.pc = "beat"] \in Ticks
          BY <1>2, TickFields
        <4>3. QED
          BY <3>2, <1>1, <4>1, <4>2
      <3>4. QED
        BY <2>4, <3>3 DEF Select, data
    <2>5. CASE BeatOk(w)
      BY <2>5, <1>1, <1>2, <1>4, TickFields, StatementTypes DEF BeatOk, data
    <2>6. CASE BeatLost(w)
      BY <2>6, <1>1, <1>2, TickFields, TickTypes DEF BeatLost, data
    <2>7. CASE EmbedOk(w)
      BY <2>7, <1>1, <1>2, <1>4, TickFields DEF EmbedOk, data
    <2>8. CASE EmbedRejected(w)
      <3>1. tick' \in [Workers -> Ticks]
        BY <2>8, <1>1, <1>2, TickTypes DEF EmbedRejected
      <3>2. QED
        BY <2>8, <3>1, <1>3 DEF EmbedRejected, data
    <2>9. CASE EmbedAuth(w)
      BY <2>9, <1>1, <1>2, <1>3, TickFields, TickTypes DEF EmbedAuth, data
    <2>10. CASE RecheckOk(w)
      BY <2>10, <1>1, <1>2, <1>4, TickFields, StatementTypes DEF RecheckOk, data
    <2>11. CASE RecheckLost(w)
      BY <2>11, <1>1, <1>2, TickFields, TickTypes DEF RecheckLost, data
    <2>12. CASE Write(w)
      <3>1. PICK failing \in SUBSET Batch(w) : Write(w)!2!(failing)
        BY <2>12 DEF Write
      <3>2. tick' \in [Workers -> Ticks]
        BY <3>1, <1>1, <1>2, TickTypes
      <3>3. writes' \in [Docs -> Nat]
        BY <3>1, MinType
      <3>4. vec' \in [Docs -> {"none", "visible", "hidden"}]
        BY <3>1 DEF FailedRecord
      <3>5. QED
        BY <2>12, <3>1, <3>2, <3>3, <3>4, <2>0, <1>3 DEF Write
    <2>13. CASE TickError(w)
      BY <2>13, <1>1, <1>2, <1>3, TickFields, TickTypes DEF TickError, data
    <2>14. CASE Release(w)
      BY <2>14, <1>1, <1>2, <1>3, <1>4, TickFields, StatementTypes DEF Release, data
    <2>15. CASE Account(w)
      <3>1. NoTick \in Ticks
        BY DEF NoTick, Ticks, PCs
      <3>2. loop' \in [Workers -> Loops]
        BY <2>15, <1>2, LoopTypes DEF Account
      <3>3. QED
        BY <2>15, <3>1, <3>2, <1>1 DEF Account, data
    <2>16. QED
      BY <1>5, <2>1, <2>2, <2>3, <2>4, <2>5, <2>6, <2>7, <2>8, <2>9, <2>10, <2>11,
         <2>12, <2>13, <2>14, <2>15 DEF WorkerStep
  <1>6. ASSUME NEW w \in Workers, StopLoop(w) PROVE TypeOK'
    <2>1. [loop[w] EXCEPT !.stopped = "asked"] \in Loops
      BY <1>2 DEF Loops
    <2>2. QED
      BY <1>6, <2>1 DEF StopLoop, data
  <1>7. ASSUME NEW d \in Docs, LeafInserted(d) \/ Purge(d) \/ Delete(d) PROVE TypeOK'
    BY <1>7 DEF LeafInserted, Purge, Delete, Touched, Suppressed
  <1>8. CASE ClockTick
    <2>1. row' \in Rows
      BY <1>8, StatementTypes, RowCases DEF ClockTick
    <2>2. QED
      BY <1>8, <2>1 DEF ClockTick, data
  <1>9. CASE UNCHANGED vars
    BY <1>9 DEF vars
  <1>10. QED
    BY <1>5, <1>6, <1>7, <1>8, <1>9 DEF Next

\* The types hold throughout: the ticks of several processes and the autostart
\* loops never leave their states.
THEOREM TypeCorrect == Spec => []TypeOK
  <1>1. Init => TypeOK
    BY DEF Init, TypeOK, Rows, NoTick, NoLoop, Ticks, Loops, PCs
  <1>2. QED
    BY <1>1, TypeStep, PTL DEF Spec

-----------------------------------------------------------------------------
(***************************************************************************)
(* What a worker's step does to the ticks.                                 *)
(***************************************************************************)

\* A step of w leaves the other ticks alone, selects only pending documents,
\* begins with an empty selection, and writes only after a re-check.
LEMMA StepShape ==
    ASSUME TypeOK, NEW w \in Workers, WorkerStep(w)
    PROVE  /\ \A v \in Workers \ {w} : tick'[v] = tick[v]
           /\ \A d \in tick'[w].todo : d \in tick[w].todo \/ d \in Pending
           /\ tick'[w].pc = "insert" => tick'[w].todo = {}
           /\ tick'[w].pc = "write" => RecheckOk(w)
  <1> DEFINE Shape(t) ==
        /\ tick' = [tick EXCEPT ![w] = t]
        /\ \A d \in t.todo : d \in tick[w].todo \/ d \in Pending
        /\ t.pc = "insert" => t.todo = {}
        /\ t.pc = "write" => RecheckOk(w)
  <1>0. tick \in [Workers -> Ticks] /\ tick[w] \in Ticks
    BY DEF TypeOK
  <1>1. \A t : Shape(t) => /\ \A v \in Workers \ {w} : tick'[v] = tick[v]
                           /\ tick'[w] = t
    BY <1>0
  <1>2. SUFFICES \E t : Shape(t)
    BY <1>1
  <1>3. ASSUME NEW p \in {"select", "beat", "embed", "recheck", "release", "account"},
               tick' = [tick EXCEPT ![w].pc = p]
        PROVE  Shape([tick[w] EXCEPT !.pc = p])
    BY <1>3, <1>0 DEF Ticks
  <1>4. ASSUME NEW t \in Ticks, tick' = [tick EXCEPT ![w] = Leave(t)]
        PROVE  Shape(Leave(t))
    BY <1>4, TodoAfter
  <1>5. ASSUME NEW t \in Ticks, t.todo = tick[w].todo,
               tick' = [tick EXCEPT ![w] = Advance(t)]
        PROVE  Shape(Advance(t))
    BY <1>5, TodoAfter
  <1>6. CASE StartTick(w)
    <2>1. Shape([NoTick EXCEPT !.pc = "insert"])
      BY <1>6 DEF StartTick, NoTick
    <2>2. QED
      BY <2>1
  <1>7. CASE AcquireOk(w) \/ BeatOk(w) \/ EmbedOk(w) \/ Release(w)
    BY <1>7, <1>3 DEF AcquireOk, BeatOk, EmbedOk, Release
  <1>8. CASE AcquireRefused(w)
    <2>1. Shape([tick[w] EXCEPT !.pc = "account", !.lost = TRUE])
      BY <1>8, <1>0 DEF AcquireRefused, Ticks
    <2>2. QED
      BY <2>1
  <1>9. CASE Select(w)
    <2>1. \A S, n : Newest(Selectable(S), n) \subseteq Pending
      BY NewestInside DEF Selectable
    <2>2. PICK found \in SUBSET Pending :
            \/ tick' = [tick EXCEPT ![w] = Leave(tick[w])]
            \/ tick' = [tick EXCEPT ![w] = [tick[w] EXCEPT !.todo = found, !.pc = "beat"]]
      BY <1>9, <2>1 DEF Select
    <2>3. CASE tick' = [tick EXCEPT ![w] = Leave(tick[w])]
      BY <2>3, <1>0, <1>4
    <2>4. CASE tick' = [tick EXCEPT ![w] = [tick[w] EXCEPT !.todo = found, !.pc = "beat"]]
      <3>1. Shape([tick[w] EXCEPT !.todo = found, !.pc = "beat"])
        BY <2>4, <1>0 DEF Ticks
      <3>2. QED
        BY <3>1
    <2>5. QED
      BY <2>2, <2>3, <2>4
  <1>10. CASE BeatLost(w)
    BY <1>10, <1>0, <1>4, TickFields DEF BeatLost
  <1>11. CASE EmbedRejected(w)
    BY <1>11, <1>0, <1>5, TickTypes, TodoAfter DEF EmbedRejected
  <1>12. CASE EmbedAuth(w)
    BY <1>12, <1>0, <1>4, TickFields DEF EmbedAuth
  <1>13. CASE RecheckOk(w)
    <2>1. Shape([tick[w] EXCEPT !.pc = "write"])
      BY <1>13, <1>0 DEF RecheckOk, Ticks
    <2>2. QED
      BY <2>1
  <1>14. CASE RecheckLost(w)
    <2>1. [Blocklisted(tick[w]) EXCEPT !.lost = TRUE] \in Ticks
      BY <1>0, TickTypes, TickFields
    <2>2. QED
      BY <1>14, <1>4, <2>1 DEF RecheckLost
  <1>15. CASE Write(w)
    <2>1. PICK failing \in SUBSET Batch(w) :
            tick' = [tick EXCEPT ![w] =
                        Advance(Recorded(tick[w], Batch(w) \ failing, failing))]
      BY <1>15 DEF Write
    <2> DEFINE rec == Recorded(tick[w], Batch(w) \ failing, failing)
    <2>2. rec \in Ticks /\ rec.todo = tick[w].todo
      <3>1. rec \in Ticks
        BY <1>0, TickTypes
      <3>2. rec.todo = tick[w].todo
        BY <1>0, TodoAfter
      <3>3. QED
        BY <3>1, <3>2
    <2> HIDE DEF rec
    <2>3. QED
      BY <2>1, <2>2, <1>5 DEF rec
  <1>16. CASE TickError(w)
    BY <1>16, <1>0, <1>4, TickFields DEF TickError
  <1>17. CASE Account(w)
    <2>1. Shape(NoTick)
      BY <1>17 DEF Account, NoTick
    <2>2. QED
      BY <2>1
  <1>18. QED
    BY <1>6, <1>7, <1>8, <1>9, <1>10, <1>11, <1>12, <1>13, <1>14, <1>15, <1>16, <1>17
    DEF WorkerStep

\* Only Write changes the tables, and only for documents of its batch.
LEMMA WriteShape ==
    ASSUME TypeOK, NEW w \in Workers, WorkerStep(w)
    PROVE  /\ leaf' = leaf /\ raced' = raced
           /\ \/ vec' = vec /\ meta' = meta /\ writes' = writes
              \/ /\ tick[w].pc = "write"
                 /\ row' = row
                 /\ \E done \in SUBSET tick[w].todo :
                      /\ done \cap tick'[w].todo = {}
                      /\ vec' = [d \in Docs |-> IF d \in done THEN "visible" ELSE vec[d]]
                      /\ meta' = meta \cup done
                      /\ writes' = [d \in Docs |-> IF d \in done
                                       THEN Min({writes[d] + 1, 2}) ELSE writes[d]]
  <1>1. CASE Write(w)
    <2>1. PICK failing \in SUBSET Batch(w) : Write(w)!2!(failing)
      BY <1>1 DEF Write
    <2> DEFINE done == Batch(w) \ failing
    <2>2. done \in SUBSET tick[w].todo
      BY BatchInside DEF Batch
    <2>3. tick[w] \in Ticks /\ tick \in [Workers -> Ticks]
      BY DEF TypeOK
    <2>4. tick'[w].todo = tick[w].todo \ Batch(w)
      <3> DEFINE rec == Recorded(tick[w], done, failing)
      <3>1. rec \in Ticks /\ rec.todo = tick[w].todo
        <4>1. rec \in Ticks
          BY <2>3, TickTypes
        <4>2. rec.todo = tick[w].todo
          BY <2>3, TodoAfter
        <4>3. QED
          BY <4>1, <4>2
      <3>2. tick'[w] = Advance(rec)
        BY <2>1, <2>3
      <3> HIDE DEF rec
      <3>3. QED
        BY <3>1, <3>2, TodoAfter DEF Batch
    <2>5. vec' = [d \in Docs |-> IF d \in done THEN "visible" ELSE vec[d]]
      BY <2>1 DEF FailedRecord
    <2>6. done \cap tick'[w].todo = {}
      BY <2>4
    <2>7. QED
      BY <1>1, <2>1, <2>2, <2>5, <2>6 DEF Write
  <1>2. CASE ~Write(w)
    BY <1>2 DEF WorkerStep, StartTick, AcquireOk, AcquireRefused, Select, BeatOk, BeatLost,
       EmbedOk, EmbedRejected, EmbedAuth, RecheckOk, RecheckLost, TickError, Release,
       Account, data
  <1>3. QED
    BY <1>1, <1>2

-----------------------------------------------------------------------------
(***************************************************************************)
(* The tables agree.                                                       *)
(***************************************************************************)

MirrorInv == TypeOK /\ SelectedLive /\ VecMatchesMeta /\ MirrorExact

\* The invariant of the tables is preserved by every step.
LEMMA MirrorStep == MirrorInv /\ [Next]_vars => MirrorInv'
  <1> SUFFICES ASSUME MirrorInv, [Next]_vars PROVE MirrorInv'
    OBVIOUS
  <1>0. TypeOK /\ TypeOK'
    BY TypeStep DEF MirrorInv
  <1>1. ASSUME NEW w \in Workers, WorkerStep(w) PROVE MirrorInv'
    <2>1. SelectedLive'
      <3> SUFFICES ASSUME NEW v \in Workers, NEW d \in tick'[v].todo
                   PROVE  leaf'[d] = "live" \/ d \in raced'
        BY DEF SelectedLive
      <3>1. leaf' = leaf /\ raced' = raced
        BY <1>0, <1>1, WriteShape
      <3>2. d \in tick[v].todo \/ d \in Pending
        BY <1>0, <1>1, StepShape
      <3>3. QED
        BY <3>1, <3>2 DEF MirrorInv, SelectedLive, Pending, Eligible
    <2>2. CASE vec' = vec /\ meta' = meta /\ writes' = writes
      BY <2>1, <2>2, <1>0, <1>1, WriteShape DEF MirrorInv, VecMatchesMeta, MirrorExact
    <2>3. CASE ~(vec' = vec /\ meta' = meta /\ writes' = writes)
      <3>1. PICK done \in SUBSET tick[w].todo :
              /\ vec' = [d \in Docs |-> IF d \in done THEN "visible" ELSE vec[d]]
              /\ meta' = meta \cup done
        BY <2>3, <1>0, <1>1, WriteShape
      <3>2. VecMatchesMeta'
        BY <3>1 DEF MirrorInv, VecMatchesMeta
      <3>3. MirrorExact'
        <4>1. leaf' = leaf /\ raced' = raced
          BY <1>0, <1>1, WriteShape
        <4>2. QED
          BY <3>1, <4>1 DEF MirrorInv, MirrorExact, SelectedLive
      <3>4. QED
        BY <1>0, <2>1, <3>2, <3>3 DEF MirrorInv
    <2>4. QED
      BY <2>2, <2>3
  <1>2. ASSUME NEW w \in Workers, StopLoop(w) PROVE MirrorInv'
    BY <1>0, <1>2 DEF MirrorInv, StopLoop, data, SelectedLive, VecMatchesMeta, MirrorExact
  <1>3. ASSUME NEW d \in Docs, LeafInserted(d) PROVE MirrorInv'
    BY <1>0, <1>3
    DEF MirrorInv, TypeOK, LeafInserted, SelectedLive, VecMatchesMeta, MirrorExact
  <1>4. ASSUME NEW d \in Docs, Purge(d) PROVE MirrorInv'
    <2>1. SelectedLive'
      BY <1>0, <1>4 DEF MirrorInv, TypeOK, Purge, Touched, InFlight, SelectedLive
    <2>2. VecMatchesMeta' /\ MirrorExact'
      BY <1>0, <1>4
      DEF MirrorInv, TypeOK, Purge, Touched, Suppressed, VecMatchesMeta, MirrorExact
    <2>3. QED
      BY <1>0, <2>1, <2>2 DEF MirrorInv
  <1>5. ASSUME NEW d \in Docs, Delete(d) PROVE MirrorInv'
    <2>1. SelectedLive'
      BY <1>0, <1>5 DEF MirrorInv, TypeOK, Delete, Touched, InFlight, SelectedLive
    <2>2. VecMatchesMeta' /\ MirrorExact'
      BY <1>0, <1>5 DEF MirrorInv, TypeOK, Delete, Touched, VecMatchesMeta, MirrorExact
    <2>3. QED
      BY <1>0, <2>1, <2>2 DEF MirrorInv
  <1>6. CASE ClockTick
    BY <1>0, <1>6 DEF MirrorInv, ClockTick, data, SelectedLive, VecMatchesMeta, MirrorExact
  <1>7. CASE UNCHANGED vars
    BY <1>0, <1>7 DEF MirrorInv, vars, SelectedLive, VecMatchesMeta, MirrorExact
  <1>8. QED
    BY <1>1, <1>2, <1>3, <1>4, <1>5, <1>6, <1>7 DEF Next

\* The tables agree, with the selections that make them stay so.
LEMMA MirrorInvariance == Spec => []MirrorInv
  <1>1. Init => TypeOK
    BY DEF Init, TypeOK, Rows, NoTick, NoLoop, Ticks, Loops, PCs
  <1>2. Init => MirrorInv
    BY <1>1 DEF Init, MirrorInv, NoTick, SelectedLive, VecMatchesMeta, MirrorExact
  <1>3. QED
    BY <1>2, MirrorStep, PTL DEF Spec

\* The vec0 row and the meta row of a document come and go together, for any
\* number of workers, failures and deletions.
THEOREM VecAndMetaTogether == Spec => []VecMatchesMeta
  BY MirrorInvariance, PTL DEF MirrorInv

\* The suppressed column mirrors suppressed_at, up to the leaves that a purge
\* or a deletion found between _select_pending_docs and _write_batch.
THEOREM SuppressionMirrored == Spec => []MirrorExact
  BY MirrorInvariance, PTL DEF MirrorInv

-----------------------------------------------------------------------------
(***************************************************************************)
(* A document is embedded once.                                            *)
(***************************************************************************)

\* Two workers cannot both renew the one row.
LEMMA OneRenews ==
    ASSUME NEW r, NEW v, NEW w, Renewable(r, v), Renewable(r, w)
    PROVE  v = w
  BY DEF Renewable, IsRowOf

\* What a worker's step does to the row: the lock is gained only by an insert,
\* and a live row goes only when its owner releases it.
LEMMA LockShape ==
    ASSUME TypeOK, NEW w \in Workers, WorkerStep(w), NEW v \in Workers
    PROVE  /\ Renewable(row', v) => Renewable(row, v) \/ (v = w /\ AcquireOk(w))
           /\ Renewable(row, v) => Renewable(row', v) \/ (v = w /\ Release(w))
           /\ RecheckOk(w) => Renewable(row', w)
  <1>1. \/ row' = row
        \/ row' = GcExpired(row)
        \/ AcquireOk(w)
        \/ Renewable(row, w) /\ row' = RowOf(w, TTL)
        \/ Release(w) /\ row' = ReleaseLock(row, w)
    BY DEF WorkerStep, StartTick, AcquireRefused, Select, BeatOk, BeatLost, EmbedOk,
       EmbedRejected, EmbedAuth, RecheckOk, RecheckLost, Write, TickError, Release,
       Account, HeartbeatLock
  <1>2. RecheckOk(w) => row' = RowOf(w, TTL)
    BY DEF RecheckOk, HeartbeatLock
  <1>3. \A u : Renewable(RowOf(w, TTL), u) <=> u = w
    BY RowFields, TTLAssumption DEF Renewable, IsRowOf
  <1>4. ~Renewable(NoRow, v)
    BY RowFields DEF Renewable, IsRowOf
  <1>5. CASE row' = row
    BY <1>5, <1>2, <1>3
  <1>6. CASE row' = GcExpired(row)
    <2>1. row' = row \/ (row' = NoRow /\ row.left = 0)
      BY <1>6 DEF GcExpired
    <2>2. QED
      BY <2>1, <1>2, <1>3, <1>4 DEF Renewable
  <1>7. CASE AcquireOk(w)
    <2>1. ~row.held /\ row' = RowOf(w, TTL)
      BY <1>7 DEF AcquireOk, InsertOrIgnore
    <2>2. QED
      BY <1>7, <2>1, <1>3 DEF Renewable, IsRowOf
  <1>8. CASE Renewable(row, w) /\ row' = RowOf(w, TTL)
    BY <1>8, <1>3, OneRenews
  <1>9. CASE Release(w) /\ row' = ReleaseLock(row, w)
    <2>1. row' = row \/ (row' = NoRow /\ IsRowOf(row, w))
      BY <1>9 DEF ReleaseLock
    <2>2. QED
      BY <1>9, <2>1, <1>2, <1>3, <1>4 DEF Renewable, IsRowOf
  <1>10. QED
    BY <1>1, <1>5, <1>6, <1>7, <1>8, <1>9

\* The invariant of the writers is preserved by every step.
LEMMA OnceStep == TypeOK /\ OnceInv /\ [Next]_vars => OnceInv'
  <1> SUFFICES ASSUME TypeOK, OnceInv, [Next]_vars PROVE OnceInv'
    OBVIOUS
  <1>0. TypeOK'
    BY TypeStep
  <1>1. ASSUME NEW w \in Workers, WorkerStep(w) PROVE OnceInv'
    <2>1. NothingSelectedEarly'
      BY <1>1, StepShape DEF OnceInv, NothingSelectedEarly
    <2>2. WriterHoldsLock'
      <3> SUFFICES ASSUME NEW v \in Workers, tick'[v].pc = "write"
                   PROVE  Renewable(row', v)
        BY DEF WriterHoldsLock
      <3>1. CASE v = w
        BY <3>1, <1>1, StepShape, LockShape
      <3>2. CASE v # w
        BY <3>2, <1>1, StepShape, LockShape DEF OnceInv, WriterHoldsLock
      <3>3. QED
        BY <3>1, <3>2
    <2>3. \A d \in Pending : writes[d] = 0
      BY DEF OnceInv, WrittenKnown, Pending, Eligible, TypeOK
    <2>4. CASE vec' = vec /\ meta' = meta /\ writes' = writes
      <3>1. HolderUnwritten'
        <4> SUFFICES ASSUME NEW v \in Workers, Renewable(row', v),
                            NEW d \in tick'[v].todo
                     PROVE  writes'[d] = 0
          BY DEF HolderUnwritten
        <4>1. CASE v = w /\ AcquireOk(w)
          <5>1. tick'[w].todo = tick[w].todo /\ tick[w].pc = "insert"
            BY <4>1 DEF AcquireOk, TypeOK, Ticks
          <5>2. QED
            BY <4>1, <5>1 DEF OnceInv, NothingSelectedEarly
        <4>2. CASE ~(v = w /\ AcquireOk(w))
          <5>1. Renewable(row, v)
            BY <4>2, <1>1, LockShape
          <5>2. d \in tick[v].todo \/ d \in Pending
            BY <1>1, StepShape
          <5>3. QED
            BY <5>1, <5>2, <2>3, <2>4 DEF OnceInv, HolderUnwritten
        <4>3. QED
          BY <4>1, <4>2
      <3>2. WrittenKnown' /\ WrittenOnce'
        BY <2>4, <1>1, WriteShape DEF OnceInv, WrittenKnown, WrittenOnce
      <3>3. QED
        BY <2>1, <2>2, <3>1, <3>2 DEF OnceInv
    <2>5. CASE ~(vec' = vec /\ meta' = meta /\ writes' = writes)
      <3>1. PICK done \in SUBSET tick[w].todo :
              /\ done \cap tick'[w].todo = {}
              /\ meta' = meta \cup done
              /\ writes' = [d \in Docs |-> IF d \in done
                               THEN Min({writes[d] + 1, 2}) ELSE writes[d]]
        BY <2>5, <1>1, WriteShape
      <3>2. /\ row' = row /\ tick[w].pc = "write" /\ leaf' = leaf
            /\ Renewable(row, w)
        BY <2>5, <1>1, WriteShape DEF OnceInv, WriterHoldsLock
      <3>3. \A d \in done : writes[d] = 0 /\ d \in Docs
        BY <3>2 DEF OnceInv, HolderUnwritten, TypeOK, Ticks
      <3>4. \A d \in Docs : writes'[d] = IF d \in done THEN 1 ELSE writes[d]
        BY <3>1, <3>3, FirstWrite
      <3>5. HolderUnwritten'
        <4> SUFFICES ASSUME NEW v \in Workers, Renewable(row', v),
                            NEW d \in tick'[v].todo
                     PROVE  writes'[d] = 0
          BY DEF HolderUnwritten
        <4>1. v = w
          BY <3>2, OneRenews
        <4>2. d \in Docs
          BY <1>0 DEF TypeOK, Ticks
        <4>3. d \in tick[w].todo \/ d \in Pending
          BY <4>1, <1>1, StepShape
        <4>4. writes[d] = 0
          BY <4>3, <3>2, <2>3 DEF OnceInv, HolderUnwritten
        <4>5. QED
          BY <4>1, <4>2, <4>4, <3>1, <3>4
      <3>6. WrittenKnown' /\ WrittenOnce'
        BY <3>1, <3>2, <3>4 DEF OnceInv, WrittenKnown, WrittenOnce
      <3>7. QED
        BY <2>1, <2>2, <3>5, <3>6 DEF OnceInv
    <2>6. QED
      BY <2>4, <2>5
  <1> USE DEF OnceInv, WriterHoldsLock, HolderUnwritten, NothingSelectedEarly, WrittenKnown,
              WrittenOnce
  <1>2. ASSUME NEW w \in Workers, StopLoop(w) PROVE OnceInv'
    BY <1>2 DEF StopLoop, data
  <1>3. ASSUME NEW d \in Docs, LeafInserted(d) \/ Purge(d) \/ Delete(d) PROVE OnceInv'
    BY <1>3 DEF TypeOK, LeafInserted, Purge, Delete
  <1>4. CASE ClockTick
    <2>1. \A v \in Workers : Renewable(row', v) => Renewable(row, v)
      <3>1. row' = RowOf(row.worker, Dec(row.left)) /\ row.held /\ row.left > 0
        BY <1>4 DEF ClockTick, Age
      <3>2. QED
        BY <3>1, RowFields DEF Renewable, IsRowOf
    <2>2. QED
      BY <1>4, <2>1 DEF ClockTick, data
  <1>5. CASE UNCHANGED vars
    BY <1>5 DEF vars
  <1>6. QED
    BY <1>1, <1>2, <1>3, <1>4, <1>5 DEF Next

\* No document is embedded twice: the re-check of the lock after the Voyage
\* call is enough, for any number of workers and any leases that run out.
THEOREM EmbeddedOnce == Spec => []WrittenOnce
  <1>1. Init => TypeOK /\ OnceInv
    <2>1. Init => TypeOK
      BY DEF Init, TypeOK, Rows, NoTick, NoLoop, Ticks, Loops, PCs
    <2>2. Init => OnceInv
      BY DEF Init, NoTick, OnceInv, WriterHoldsLock, HolderUnwritten,
         NothingSelectedEarly, WrittenKnown, WrittenOnce
    <2>3. QED
      BY <2>1, <2>2
  <1>2. TypeOK /\ OnceInv /\ [Next]_vars => TypeOK' /\ OnceInv'
    BY TypeStep, OnceStep
  <1>3. OnceInv => WrittenOnce
    BY DEF OnceInv
  <1>4. QED
    BY <1>1, <1>2, <1>3, PTL DEF Spec

-----------------------------------------------------------------------------
(***************************************************************************)
(* Upkeep: session keys.                                                   *)
(***************************************************************************)
\* The keys a conversation may have.
ConvKeys == CallerKeys \cup {NullKey} \cup {LegacyKey(c) : c \in Convs}

\* Rows of conversations; a key may be NULL.
ConvRows == [live : BOOLEAN, sid : Nat, key : ConvKeys, active : BOOLEAN, brief : BOOLEAN]

\* The fields of the database.
Tables == {"tables", "columns", "cache", "unhashed", "ledger", "prompts", "parts", "born",
           "next", "fts", "cjk", "audit", "conv", "kids", "summ"}
\* The fields of a row of summaries.
SummaryColumns == {"live", "conv", "depth", "count", "content", "key"}

\* The rows of the tables that hold session keys; depth, count and content
\* are derived from data and not typed here.
SummaryTyped(r) ==
    /\ r = [f \in SummaryColumns |-> r[f]]
    /\ r.live \in BOOLEAN /\ r.conv \in Convs

\* The tables that hold keys are well formed.
KeyTables(d) ==
    /\ d = [f \in Tables |-> d[f]]
    /\ d.next \in Nat
    /\ d.conv \in [Convs -> ConvRows]
    /\ d.audit \in [Convs -> Seq(ConvKeys)]
    /\ d.summ = [s \in Summaries |-> d.summ[s]]
    /\ \A s \in Summaries : SummaryTyped(d.summ[s])

\* A conversation id is used once: what lies at or above the next one is free.
IdsFresh(d) == \A c \in Convs : c >= d.next => ~d.conv[c].live

\* A live summary's conversation is live, and its key is '' or that one's,
\* which then is not NULL.
SummaryKeys(d) ==
    \A s \in LiveSummaries(d) :
        /\ d.conv[d.summ[s].conv].live
        /\ \/ d.summ[s].key = NoKey
           \/ /\ d.summ[s].key = d.conv[d.summ[s].conv].key
              /\ d.summ[s].key # NullKey

\* Only live conversations that have a key have audit rows, and the last one
\* names it.
AuditKeys(d) ==
    \A c \in Convs : d.audit[c] # <<>> =>
        /\ d.conv[c].live
        /\ d.conv[c].key # NullKey
        /\ d.audit[c][Len(d.audit[c])] = d.conv[c].key

\* What every database that a step writes satisfies.
KeysKept(d) == KeyTables(d) /\ IdsFresh(d) /\ SummaryKeys(d) /\ AuditKeys(d)

\* What get_or_create_conversation is about to insert.
Wants == [sid : Nat, key : CallerKeys \cup {NullKey}]

\* The inductive invariant.
KeysInv == KeysKept(db) /\ want \in [Proc -> Wants]

-----------------------------------------------------------------------------
(* Steps that keep the tables of the keys.                                 *)

\* A database that differs in none of the keys, but that summaries may have
\* lost theirs.
SameKeys(d, e) ==
    /\ KeyTables(e)
    /\ e.next = d.next /\ e.conv = d.conv /\ e.audit = d.audit
    /\ \A s \in Summaries :
          /\ e.summ[s].live = d.summ[s].live
          /\ e.summ[s].conv = d.summ[s].conv
          /\ e.summ[s].key \in {d.summ[s].key, NoKey}

\* Such a database is as good.
LEMMA SameKeysKeeps ==
    ASSUME NEW d, NEW e, KeysKept(d), SameKeys(d, e)
    PROVE  KeysKept(e)
<1>1. KeyTables(e) /\ IdsFresh(e) /\ AuditKeys(e)
    BY DEF KeysKept, SameKeys, IdsFresh, AuditKeys
<1>2. SummaryKeys(e)
    BY DEF KeysKept, SameKeys, SummaryKeys, LiveSummaries
<1> QED
    BY <1>1, <1>2 DEF KeysKept

\* Nothing changed.
LEMMA SameKeysItself ==
    ASSUME NEW d, KeysKept(d)
    PROVE  SameKeys(d, d)
BY DEF KeysKept, SameKeys

\* A step that touches other tables only.
LEMMA CoreTablesKeep ==
    ASSUME NEW d, KeyTables(d)
    PROVE  SameKeys(d, EnsureCoreTables(d))
BY DEF KeyTables, Tables, SameKeys, EnsureCoreTables

\* backfill_message_identity_hashes touches messages only.
LEMMA HashesKeep ==
    ASSUME NEW d, KeyTables(d)
    PROVE  SameKeys(d, BackfillMessageIdentityHashes(d))
BY DEF KeyTables, Tables, SameKeys, BackfillMessageIdentityHashes

\* backfill_tool_call_columns touches message_parts only.
LEMMA ToolsKeep ==
    ASSUME NEW d, KeyTables(d)
    PROVE  SameKeys(d, BackfillToolCallColumns(d))
BY DEF KeyTables, Tables, SameKeys, BackfillToolCallColumns

\* seed_default_prompts touches the prompts only.
LEMMA PromptsKeep ==
    ASSUME NEW d, KeyTables(d)
    PROVE  SameKeys(d, SeedDefaultPrompts(d))
BY DEF KeyTables, Tables, SameKeys, SeedDefaultPrompts

\* One such step after another.
LEMMA SameKeysTransitive ==
    ASSUME NEW c, NEW d, NEW e, SameKeys(c, d), SameKeys(d, e)
    PROVE  SameKeys(c, e)
BY DEF SameKeys

\* The columns are added with '' as the key.
LEMMA ProbesKeep ==
    ASSUME NEW d, KeyTables(d)
    PROVE  SameKeys(d, ApplyStructuralColumnProbes(d))
<1> DEFINE e == ApplyStructuralColumnProbes(d)
           rows == [s \in Summaries |-> IF d.summ[s].live
                       THEN [d.summ[s] EXCEPT !.depth = 0, !.count = 0, !.key = NoKey]
                       ELSE d.summ[s]]
<1>1. CASE "v41" \in d.columns
    BY <1>1 DEF ApplyStructuralColumnProbes, KeyTables, SameKeys
<1>2. CASE "v41" \notin d.columns
    <2>1. e = [d EXCEPT !.columns = @ \cup {"v41"}, !.summ = rows]
        BY <1>2 DEF ApplyStructuralColumnProbes
    <2> HIDE DEF rows
    <2>2. /\ e = [f \in Tables |-> e[f]]
          /\ e.next = d.next /\ e.conv = d.conv /\ e.audit = d.audit /\ e.summ = rows
        BY <2>1 DEF KeyTables, Tables
    <2>3. ASSUME NEW s \in Summaries
          PROVE  /\ SummaryTyped(rows[s])
                 /\ rows[s].live = d.summ[s].live
                 /\ rows[s].conv = d.summ[s].conv
                 /\ rows[s].key \in {d.summ[s].key, NoKey}
        <3>1. SummaryTyped(d.summ[s])
            BY DEF KeyTables
        <3>2. rows[s] = IF d.summ[s].live
                        THEN [d.summ[s] EXCEPT !.depth = 0, !.count = 0, !.key = NoKey]
                        ELSE d.summ[s]
            BY DEF rows
        <3> QED
            BY <3>1, <3>2 DEF SummaryTyped, SummaryColumns
    <2>4. rows = [s \in Summaries |-> rows[s]]
        BY DEF rows
    <2> QED
        BY <2>2, <2>3, <2>4 DEF KeyTables, SameKeys
<1> QED
    BY <1>1, <1>2

\* _ensure_standalone_fts rebuilds an index only.
LEMMA StandaloneFtsKeeps ==
    ASSUME NEW d, KeyTables(d), NEW name
    PROVE  SameKeys(d, EnsureStandaloneFts(d, name))
<1>1. SameKeys(d, d)
    BY DEF SameKeys
<1> DEFINE seeded == SeededIndex(d)
<1> HIDE DEF seeded
<1>2. SameKeys(d, [d EXCEPT !.tables = @ \cup {"fts"}, !.fts = seeded])
    BY DEF KeyTables, Tables, SameKeys
<1>3. SameKeys(d, [d EXCEPT !.tables = @ \cup {"cjk"}, !.cjk = seeded])
    BY DEF KeyTables, Tables, SameKeys
<1> QED
    BY <1>1, <1>2, <1>3 DEF EnsureStandaloneFts, seeded

\* _ensure_fts5_tables rebuilds indexes only.
LEMMA FtsKeeps ==
    ASSUME NEW d, KeyTables(d)
    PROVE  SameKeys(d, EnsureFts5Tables(d))
<1> DEFINE dropped == [d EXCEPT !.tables = @ \ {"cjk"}, !.cjk = <<>>]
           base == EnsureStandaloneFts(IF Trigram THEN d ELSE dropped, "fts")
<1>1. SameKeys(d, d)
    BY DEF SameKeys
<1>2. SameKeys(d, dropped)
    BY DEF KeyTables, Tables, SameKeys
<1> HIDE DEF dropped
<1>3. SameKeys(d, base)
    <2>1. CASE Trigram
        BY <2>1, StandaloneFtsKeeps
    <2>2. CASE ~Trigram
        <3>1. KeyTables(dropped)
            BY <1>2 DEF SameKeys
        <3> QED
            BY <2>2, <3>1, <1>2, StandaloneFtsKeeps, SameKeysTransitive
    <2> QED
        BY <2>1, <2>2
<1> HIDE DEF base
<1>4. SameKeys(d, EnsureStandaloneFts(base, "cjk"))
    <2>1. KeyTables(base)
        BY <1>3 DEF SameKeys
    <2> QED
        BY <2>1, <1>3, StandaloneFtsKeeps, SameKeysTransitive
<1> QED
    BY <1>1, <1>3, <1>4 DEF EnsureFts5Tables, base, dropped

\* ensure_v41_tables adds and widens other tables only.
LEMMA V41TablesKeep ==
    ASSUME NEW d, KeyTables(d)
    PROVE  SameKeys(d, EnsureV41Tables(d))
<1> DEFINE w == WidenTierCheck(d)
<1>1. SameKeys(d, w)
    BY DEF KeyTables, Tables, SameKeys, WidenTierCheck
<1> HIDE DEF w
<1>2. SameKeys(w, [w EXCEPT !.tables = @ \cup {"v41"},
                           !.cache = IF @ = "none" THEN "empty" ELSE @])
    BY <1>1 DEF KeyTables, Tables, SameKeys
<1> QED
    BY <1>1, <1>2, SameKeysTransitive DEF EnsureV41Tables, w

\* A backfill of a derived column of the live summaries: f is what it writes.
LEMMA DepthsKeep ==
    ASSUME NEW d, KeyTables(d)
    PROVE  SameKeys(d, BackfillSummaryDepths(d))
<1> DEFINE e == BackfillSummaryDepths(d)
           rows == [s \in Summaries |->
                       IF d.summ[s].live
                       THEN [d.summ[s] EXCEPT !.depth = Depths(d, d.summ[s].conv)[s]]
                       ELSE d.summ[s]]
<1>1. e = [d EXCEPT !.summ = rows]
    BY DEF BackfillSummaryDepths
<1>2. ASSUME NEW s \in Summaries
      PROVE  /\ SummaryTyped(rows[s])
             /\ rows[s].live = d.summ[s].live
             /\ rows[s].conv = d.summ[s].conv
             /\ rows[s].key = d.summ[s].key
    <2> DEFINE value == Depths(d, d.summ[s].conv)[s]
    <2>1. SummaryTyped(d.summ[s])
        BY DEF KeyTables
    <2>2. rows[s] = IF d.summ[s].live THEN [d.summ[s] EXCEPT !.depth = value] ELSE d.summ[s]
        OBVIOUS
    <2> HIDE DEF value, rows
    <2> QED
        BY <2>1, <2>2 DEF SummaryTyped, SummaryColumns
<1>3. rows = [s \in Summaries |-> rows[s]]
    OBVIOUS
<1> HIDE DEF rows
<1>4. /\ e = [f \in Tables |-> e[f]]
      /\ e.next = d.next /\ e.conv = d.conv /\ e.audit = d.audit /\ e.summ = rows
    BY <1>1 DEF KeyTables, Tables
<1> QED
    BY <1>2, <1>3, <1>4 DEF KeyTables, SameKeys

\* _backfill_summary_metadata writes what is derived only.
LEMMA MetadataKeeps ==
    ASSUME NEW d, KeyTables(d)
    PROVE  SameKeys(d, BackfillSummaryMetadata(d))
<1> DEFINE e == BackfillSummaryMetadata(d)
           Written(counted) == [s \in Summaries |->
               IF d.summ[s].live THEN [d.summ[s] EXCEPT !.count = counted[s]] ELSE d.summ[s]]
<1>1. \E counted : e = [d EXCEPT !.summ = Written(counted)]
    <2> DEFINE o == ByDepth(d, LiveSummaries(d))
               N == Cardinality(LiveSummaries(d))
               f == CHOOSE counts : counts = [n \in 0 .. N |->
                        IF n = 0 THEN <<>>
                        ELSE Put(counts[n - 1], o[n], Descendants(d, o[n], counts[n - 1]))]
    <2>1. e = [d EXCEPT !.summ = Written(f[N])]
        BY DEF BackfillSummaryMetadata
    <2> HIDE DEF e, Written, f, N
    <2> QED
        BY <2>1
<1>2. PICK counted : e = [d EXCEPT !.summ = Written(counted)]
    BY <1>1
<1> DEFINE rows == Written(counted)
<1>3. ASSUME NEW s \in Summaries
      PROVE  /\ SummaryTyped(rows[s])
             /\ rows[s].live = d.summ[s].live
             /\ rows[s].conv = d.summ[s].conv
             /\ rows[s].key = d.summ[s].key
    <2>1. SummaryTyped(d.summ[s])
        BY DEF KeyTables
    <2>2. rows[s] = IF d.summ[s].live
                    THEN [d.summ[s] EXCEPT !.count = counted[s]] ELSE d.summ[s]
        OBVIOUS
    <2> HIDE DEF rows
    <2> QED
        BY <2>1, <2>2 DEF SummaryTyped, SummaryColumns
<1>4. rows = [s \in Summaries |-> rows[s]]
    OBVIOUS
<1>5. e = [d EXCEPT !.summ = rows]
    BY <1>2
<1> HIDE DEF rows
<1>6. /\ e = [f \in Tables |-> e[f]]
      /\ e.next = d.next /\ e.conv = d.conv /\ e.audit = d.audit /\ e.summ = rows
    BY <1>5 DEF KeyTables, Tables
<1> QED
    BY <1>3, <1>4, <1>6 DEF KeyTables, SameKeys

\* The ledger.
LEMMA VersionedKeeps ==
    ASSUME NEW d, NEW done, NEW name, KeyTables(d), SameKeys(d, done)
    PROVE  SameKeys(d, RunVersioned(done, name, d))
<1>1. SameKeys(d, d)
    BY DEF SameKeys
<1>2. SameKeys(done, [done EXCEPT !.ledger = @ \cup {name}])
    BY DEF KeyTables, Tables, SameKeys
<1> QED
    BY <1>1, <1>2, SameKeysTransitive DEF RunVersioned

-----------------------------------------------------------------------------
(* Steps that write keys.                                                  *)

\* NULL, '' and the callers' keys are distinct.
LEMMA KeyFacts ==
    /\ NullKey # NoKey
    /\ NullKey \in ConvKeys
    /\ NoKey \notin ConvKeys
    /\ CallerKeys \subseteq ConvKeys
    /\ NullKey \notin CallerKeys
    /\ \A c \in Convs : LegacyKey(c) \in ConvKeys /\ LegacyKey(c) # NullKey
BY UpkeepAssumption DEF ConvKeys, NullKey, NoKey, LegacyKey, Key

\* Appending a key to a conversation's audit.
LEMMA Audited ==
    ASSUME NEW trail \in Seq(ConvKeys), NEW k \in ConvKeys
    PROVE  /\ Append(trail, k) \in Seq(ConvKeys)
           /\ Append(trail, k)[Len(Append(trail, k))] = k
BY AppendProperties

\* After the backfill every live conversation has a key.
LEMMA ConversationKeysKeep ==
    ASSUME NEW d, KeysKept(d)
    PROVE  LET e == BackfillConversationSessionKeys(d)
           IN  /\ KeysKept(e)
               /\ \A c \in Convs : e.conv[c].live => e.conv[c].key # NullKey
<1> DEFINE e == BackfillConversationSessionKeys(d)
           null == {c \in LiveConvs(d) : d.conv[c].key = NullKey}
           trails == [c \in Convs |->
                         IF c \in null THEN Append(d.audit[c], LegacyKey(c)) ELSE d.audit[c]]
           rows == [c \in Convs |->
                       IF c \in null THEN [d.conv[c] EXCEPT !.key = LegacyKey(c)] ELSE d.conv[c]]
<1>1. e = [d EXCEPT !.audit = trails, !.conv = rows]
    BY DEF BackfillConversationSessionKeys
<1>2. ASSUME NEW c \in Convs
      PROVE  /\ rows[c] \in ConvRows
             /\ rows[c].live = d.conv[c].live
             /\ rows[c].key = IF c \in null THEN LegacyKey(c) ELSE d.conv[c].key
             /\ rows[c].live => rows[c].key # NullKey
             /\ c \in null => d.conv[c].live /\ d.conv[c].key = NullKey
    <2>1. d.conv[c] \in ConvRows
        BY DEF KeysKept, KeyTables
    <2>2. rows[c] = IF c \in null THEN [d.conv[c] EXCEPT !.key = LegacyKey(c)] ELSE d.conv[c]
        OBVIOUS
    <2>3. c \in null <=> d.conv[c].live /\ d.conv[c].key = NullKey
        BY DEF LiveConvs
    <2> HIDE DEF rows, null
    <2> QED
        BY <2>1, <2>2, <2>3, KeyFacts DEF ConvRows
<1>3. ASSUME NEW c \in Convs
      PROVE  /\ trails[c] \in Seq(ConvKeys)
             /\ c \in null => trails[c][Len(trails[c])] = LegacyKey(c)
             /\ c \notin null => trails[c] = d.audit[c]
    <2>1. d.audit[c] \in Seq(ConvKeys) /\ LegacyKey(c) \in ConvKeys
        BY KeyFacts DEF KeysKept, KeyTables
    <2>2. trails[c] = IF c \in null THEN Append(d.audit[c], LegacyKey(c)) ELSE d.audit[c]
        OBVIOUS
    <2> HIDE DEF trails, null
    <2> QED
        BY <2>1, <2>2, Audited
<1>4. /\ trails \in [Convs -> Seq(ConvKeys)]
      /\ rows \in [Convs -> ConvRows]
    BY <1>2, <1>3
<1> HIDE DEF trails, rows, null
<1>5. /\ e = [f \in Tables |-> e[f]]
      /\ e.next = d.next /\ e.summ = d.summ /\ e.audit = trails /\ e.conv = rows
    BY <1>1 DEF KeysKept, KeyTables, Tables
<1> HIDE DEF e
<1>6. KeyTables(e)
    BY <1>4, <1>5 DEF KeysKept, KeyTables
<1>7. IdsFresh(e)
    BY <1>2, <1>5 DEF KeysKept, IdsFresh
<1>8. SummaryKeys(e)
    <2> SUFFICES ASSUME NEW s \in LiveSummaries(e)
                 PROVE  /\ e.conv[e.summ[s].conv].live
                        /\ \/ e.summ[s].key = NoKey
                           \/ /\ e.summ[s].key = e.conv[e.summ[s].conv].key
                              /\ e.summ[s].key # NullKey
        BY DEF SummaryKeys
    <2> DEFINE c == d.summ[s].conv
    <2>1. s \in LiveSummaries(d) /\ c \in Convs
        BY <1>5 DEF LiveSummaries, KeysKept, KeyTables, SummaryTyped
    <2>2. /\ d.conv[c].live
          /\ d.summ[s].key = NoKey \/ (d.summ[s].key = d.conv[c].key /\ d.summ[s].key # NullKey)
        BY <2>1 DEF KeysKept, SummaryKeys
    <2> QED
        BY <1>2, <1>5, <2>1, <2>2
<1>9. AuditKeys(e)
    <2> SUFFICES ASSUME NEW c \in Convs, e.audit[c] # <<>>
                 PROVE  /\ e.conv[c].live
                        /\ e.conv[c].key # NullKey
                        /\ e.audit[c][Len(e.audit[c])] = e.conv[c].key
        BY DEF AuditKeys
    <2>1. CASE c \in null
        BY <1>2, <1>3, <1>5, <2>1
    <2>2. CASE c \notin null
        <3>1. /\ d.conv[c].live /\ d.conv[c].key # NullKey
              /\ d.audit[c][Len(d.audit[c])] = d.conv[c].key
            BY <1>3, <1>5, <2>2 DEF KeysKept, AuditKeys
        <3> QED
            BY <1>2, <1>3, <1>5, <2>2, <3>1
    <2> QED
        BY <2>1, <2>2
<1> QED
    BY <1>2, <1>5, <1>6, <1>7, <1>8, <1>9 DEF KeysKept, e

\* Every summary without a key takes its conversation's.
LEMMA SummaryKeysKeep ==
    ASSUME NEW d, KeysKept(d),
           \A c \in Convs : d.conv[c].live => d.conv[c].key # NullKey
    PROVE  KeysKept(BackfillSummarySessionKeys(d))
<1> DEFINE e == BackfillSummarySessionKeys(d)
           rows == [s \in Summaries |->
                       IF d.summ[s].live /\ d.summ[s].key = NoKey
                       THEN [d.summ[s] EXCEPT !.key = d.conv[d.summ[s].conv].key]
                       ELSE d.summ[s]]
<1>1. e = [d EXCEPT !.summ = rows]
    BY DEF BackfillSummarySessionKeys
<1>2. ASSUME NEW s \in Summaries
      PROVE  /\ SummaryTyped(rows[s])
             /\ rows[s].live = d.summ[s].live
             /\ rows[s].conv = d.summ[s].conv
             /\ rows[s].key = IF d.summ[s].live /\ d.summ[s].key = NoKey
                              THEN d.conv[d.summ[s].conv].key ELSE d.summ[s].key
    <2>1. SummaryTyped(d.summ[s])
        BY DEF KeysKept, KeyTables
    <2>2. rows[s] = IF d.summ[s].live /\ d.summ[s].key = NoKey
                    THEN [d.summ[s] EXCEPT !.key = d.conv[d.summ[s].conv].key] ELSE d.summ[s]
        OBVIOUS
    <2> HIDE DEF rows
    <2> QED
        BY <2>1, <2>2 DEF SummaryTyped, SummaryColumns
<1>3. rows = [s \in Summaries |-> rows[s]]
    OBVIOUS
<1> HIDE DEF rows
<1>4. /\ e = [f \in Tables |-> e[f]]
      /\ e.next = d.next /\ e.conv = d.conv /\ e.audit = d.audit /\ e.summ = rows
    BY <1>1 DEF KeysKept, KeyTables, Tables
<1> HIDE DEF e
<1>5. KeyTables(e) /\ IdsFresh(e) /\ AuditKeys(e)
    <2>1. KeyTables(e)
        <3>1. /\ e = [f \in Tables |-> e[f]]
              /\ e.next \in Nat
              /\ e.conv \in [Convs -> ConvRows]
              /\ e.audit \in [Convs -> Seq(ConvKeys)]
            BY <1>4 DEF KeysKept, KeyTables
        <3>2. e.summ = [s \in Summaries |-> e.summ[s]]
            BY <1>3, <1>4
        <3>3. \A s \in Summaries : SummaryTyped(e.summ[s])
            BY <1>2, <1>4
        <3> QED
            BY <3>1, <3>2, <3>3 DEF KeyTables
    <2>2. IdsFresh(e) /\ AuditKeys(e)
        BY <1>4 DEF KeysKept, IdsFresh, AuditKeys
    <2> QED
        BY <2>1, <2>2
<1>6. SummaryKeys(e)
    <2> SUFFICES ASSUME NEW s \in LiveSummaries(e)
                 PROVE  /\ e.conv[e.summ[s].conv].live
                        /\ \/ e.summ[s].key = NoKey
                           \/ /\ e.summ[s].key = e.conv[e.summ[s].conv].key
                              /\ e.summ[s].key # NullKey
        BY DEF SummaryKeys
    <2> DEFINE c == d.summ[s].conv
    <2>1. s \in LiveSummaries(d) /\ c \in Convs /\ s \in Summaries
        BY <1>2, <1>4 DEF LiveSummaries, KeysKept, KeyTables, SummaryTyped
    <2>2. /\ d.conv[c].live /\ d.conv[c].key # NullKey
          /\ d.summ[s].key = NoKey \/ (d.summ[s].key = d.conv[c].key /\ d.summ[s].key # NullKey)
        BY <2>1 DEF KeysKept, SummaryKeys
    <2> QED
        BY <1>2, <1>4, <2>1, <2>2
<1> QED
    BY <1>5, <1>6 DEF KeysKept, e

\* run_lcm_migrations keeps the keys.
LEMMA MigratedKeeps ==
    ASSUME NEW d, KeysKept(d)
    PROVE  KeysKept(Migrated(d))
<1> DEFINE a == EnsureCoreTables(d)
           b == ApplyStructuralColumnProbes(a)
           f == EnsureFts5Tables(b)
           v == EnsureV41Tables(f)
           hashed == BackfillMessageIdentityHashes(v)
           deep == RunVersioned(BackfillSummaryDepths(hashed), "backfillSummaryDepths", hashed)
           mdb == RunVersioned(BackfillSummaryMetadata(deep), "backfillSummaryMetadata", deep)
           tools == RunVersioned(BackfillToolCallColumns(mdb), "backfillToolCallColumns", mdb)
           keyed == BackfillConversationSessionKeys(tools)
           filled == BackfillSummarySessionKeys(keyed)
<1>1. KeysKept(a)
    BY CoreTablesKeep, SameKeysKeeps DEF KeysKept
<1> HIDE DEF a
<1>2. KeysKept(b)
    BY <1>1, ProbesKeep, SameKeysKeeps DEF KeysKept
<1> HIDE DEF b
<1>3. KeysKept(f)
    BY <1>2, FtsKeeps, SameKeysKeeps DEF KeysKept
<1> HIDE DEF f
<1>4. KeysKept(v)
    BY <1>3, V41TablesKeep, SameKeysKeeps DEF KeysKept
<1> HIDE DEF v
<1>5. KeysKept(hashed)
    BY <1>4, HashesKeep, SameKeysKeeps DEF KeysKept
<1> HIDE DEF hashed
<1>6. KeysKept(deep)
    <2>1. SameKeys(hashed, BackfillSummaryDepths(hashed))
        BY <1>5, DepthsKeep DEF KeysKept
    <2> QED
        BY <1>5, <2>1, VersionedKeeps, SameKeysKeeps DEF KeysKept
<1> HIDE DEF deep
<1>7. KeysKept(mdb)
    <2>1. SameKeys(deep, BackfillSummaryMetadata(deep))
        BY <1>6, MetadataKeeps DEF KeysKept
    <2> QED
        BY <1>6, <2>1, VersionedKeeps, SameKeysKeeps DEF KeysKept
<1> HIDE DEF mdb
<1>8. KeysKept(tools)
    <2>1. SameKeys(mdb, BackfillToolCallColumns(mdb))
        BY <1>7, ToolsKeep DEF KeysKept
    <2> QED
        BY <1>7, <2>1, VersionedKeeps, SameKeysKeeps DEF KeysKept
<1> HIDE DEF tools
<1>9. KeysKept(keyed) /\ \A c \in Convs : keyed.conv[c].live => keyed.conv[c].key # NullKey
    BY <1>8, ConversationKeysKeep
<1> HIDE DEF keyed
<1>10. KeysKept(filled)
    BY <1>9, SummaryKeysKeep
<1> HIDE DEF filled
<1>11. KeysKept(SeedDefaultPrompts(filled))
    BY <1>10, PromptsKeep, SameKeysKeeps DEF KeysKept
<1> QED
    BY <1>11 DEF Migrated, RunVersionedBackfills, filled, keyed, tools, mdb, deep, hashed,
                 v, f, b, a

-----------------------------------------------------------------------------
(* Requests.                                                               *)

\* Conversations whose rows change in nothing but, where they had no key,
\* the key: summaries in them have none, and they were never re-keyed.
LEMMA LateKeysKeep ==
    ASSUME NEW d, KeysKept(d), NEW rows \in [Convs -> ConvRows],
           \A c \in Convs :
              /\ rows[c].live = d.conv[c].live
              /\ rows[c].key = d.conv[c].key \/ d.conv[c].key = NullKey
    PROVE  KeysKept([d EXCEPT !.conv = rows])
<1> DEFINE e == [d EXCEPT !.conv = rows]
<1>1. /\ e = [f \in Tables |-> e[f]]
      /\ e.next = d.next /\ e.summ = d.summ /\ e.audit = d.audit /\ e.conv = rows
    BY DEF KeysKept, KeyTables, Tables
<1> HIDE DEF e
<1>2. KeyTables(e)
    BY <1>1 DEF KeysKept, KeyTables
<1>3. IdsFresh(e)
    BY <1>1 DEF KeysKept, IdsFresh
<1>4. SummaryKeys(e)
    <2> SUFFICES ASSUME NEW s \in LiveSummaries(e)
                 PROVE  /\ e.conv[e.summ[s].conv].live
                        /\ \/ e.summ[s].key = NoKey
                           \/ /\ e.summ[s].key = e.conv[e.summ[s].conv].key
                              /\ e.summ[s].key # NullKey
        BY DEF SummaryKeys
    <2>1. s \in LiveSummaries(d) /\ d.summ[s].conv \in Convs
        BY <1>1 DEF LiveSummaries, KeysKept, KeyTables, SummaryTyped
    <2> QED
        BY <1>1, <2>1 DEF KeysKept, SummaryKeys
<1>5. AuditKeys(e)
    BY <1>1 DEF KeysKept, AuditKeys
<1> QED
    BY <1>2, <1>3, <1>4, <1>5 DEF KeysKept, e

\* get_or_create_conversation finds a row, or reads what it will insert.
LEMMA GetConversationKeeps ==
    ASSUME KeysInv, NEW p \in Proc, NEW sid \in 1 .. 2, NEW k \in CallerKeys \cup {NullKey},
           GetConversation(p, sid, k)
    PROVE  KeysInv'
<1>1. KeysKept(db) /\ db.conv \in [Convs -> ConvRows] /\ want \in [Proc -> Wants]
    BY DEF KeysInv, KeysKept, KeyTables
<1>2. k \in ConvKeys /\ sid \in Nat
    BY KeyFacts
<1>3. CASE /\ k # NullKey /\ ActiveWith(db, k) # {}
           /\ db' = [db EXCEPT !.conv = [c \in Convs |->
                        IF c \in ActiveWith(db, k) THEN [db.conv[c] EXCEPT !.sid = sid]
                        ELSE db.conv[c]]]
           /\ UNCHANGED want
    <2> DEFINE rows == [c \in Convs |->
                           IF c \in ActiveWith(db, k) THEN [db.conv[c] EXCEPT !.sid = sid]
                           ELSE db.conv[c]]
    <2>1. ASSUME NEW c \in Convs
          PROVE  rows[c] \in ConvRows /\ rows[c].live = db.conv[c].live
                 /\ rows[c].key = db.conv[c].key
        <3>1. db.conv[c] \in ConvRows
            BY <1>1
        <3> QED
            BY <1>2, <3>1 DEF ConvRows
    <2>2. rows \in [Convs -> ConvRows]
        BY <2>1
    <2>3. db' = [db EXCEPT !.conv = rows]
        BY <1>3
    <2> HIDE DEF rows
    <2>4. KeysKept(db')
        BY <1>1, <2>1, <2>2, <2>3, LateKeysKeep
    <2> QED
        BY <1>1, <1>3, <2>4 DEF KeysInv
<1>4. CASE \E fill \in SUBSET {c \in Convs : db.conv[c].key = NullKey} :
              /\ db' = [db EXCEPT !.conv = [c \in Convs |->
                           IF c \in fill THEN [db.conv[c] EXCEPT !.key = k] ELSE db.conv[c]]]
              /\ UNCHANGED want
    <2>1. PICK fill \in SUBSET {c \in Convs : db.conv[c].key = NullKey} :
              /\ db' = [db EXCEPT !.conv = [c \in Convs |->
                           IF c \in fill THEN [db.conv[c] EXCEPT !.key = k] ELSE db.conv[c]]]
              /\ UNCHANGED want
        BY <1>4
    <2> DEFINE rows == [c \in Convs |->
                           IF c \in fill THEN [db.conv[c] EXCEPT !.key = k] ELSE db.conv[c]]
    <2>2. ASSUME NEW c \in Convs
          PROVE  rows[c] \in ConvRows /\ rows[c].live = db.conv[c].live
                 /\ (rows[c].key = db.conv[c].key \/ db.conv[c].key = NullKey)
        <3>1. db.conv[c] \in ConvRows
            BY <1>1
        <3> QED
            BY <1>2, <3>1 DEF ConvRows
    <2>3. rows \in [Convs -> ConvRows]
        BY <2>2
    <2>4. db' = [db EXCEPT !.conv = rows]
        BY <2>1
    <2> HIDE DEF rows
    <2>5. KeysKept(db')
        BY <1>1, <2>2, <2>3, <2>4, LateKeysKeep
    <2> QED
        BY <1>1, <2>1, <2>5 DEF KeysInv
<1>5. CASE UNCHANGED db /\ want' = [want EXCEPT ![p] = [sid |-> sid, key |-> k]]
    <2>1. want' \in [Proc -> Wants]
        BY <1>1, <1>2, <1>5 DEF Wants
    <2> QED
        BY <1>1, <1>5, <2>1 DEF KeysInv
<1>6. CASE UNCHANGED <<db, want>>
    BY <1>6 DEF KeysInv
<1>7. {c \in BySessionId(db, sid) : db.conv[c].active /\ db.conv[c].key = NullKey} \cap Convs
        \in SUBSET {c \in Convs : db.conv[c].key = NullKey}
    OBVIOUS
<1> DEFINE fill == {c \in BySessionId(db, sid) : db.conv[c].active /\ db.conv[c].key = NullKey}
<1>8. [c \in Convs |-> IF c \in fill THEN [db.conv[c] EXCEPT !.key = k] ELSE db.conv[c]]
       = [c \in Convs |-> IF c \in fill \cap Convs THEN [db.conv[c] EXCEPT !.key = k]
                          ELSE db.conv[c]]
    OBVIOUS
<1> QED
    BY <1>3, <1>4, <1>5, <1>6, <1>7, <1>8 DEF GetConversation

\* It inserts under an id never used before.
LEMMA CreateConversationKeeps ==
    ASSUME KeysInv, NEW p \in Proc, CreateConversation(p)
    PROVE  KeysInv'
<1>1. /\ KeysKept(db) /\ KeyTables(db) /\ want \in [Proc -> Wants]
      /\ want[p].sid \in Nat /\ want[p].key \in ConvKeys
    BY KeyFacts DEF KeysInv, KeysKept, Wants
<1>2. want' \in [Proc -> Wants]
    BY <1>1 DEF CreateConversation, NoWant, Wants
<1>3. KeysKept(db')
    <2>1. CASE UNCHANGED db
        BY <1>1, <2>1
    <2>2. CASE ~UNCHANGED db
        <3> DEFINE n == db.next
                   new == [live |-> TRUE, sid |-> want[p].sid, key |-> want[p].key,
                           active |-> TRUE, brief |-> FALSE]
        <3>1. /\ n \in Convs
              /\ db' = [db EXCEPT !.next = @ + 1, !.conv[db.next] = new]
            BY <2>2 DEF CreateConversation
        <3>2. new \in ConvRows /\ n \in Nat /\ new.live = TRUE
            BY <1>1 DEF ConvRows, KeyTables
        <3> HIDE DEF new
        <3>3. /\ db' = [f \in Tables |-> db'[f]]
              /\ db'.next = n + 1 /\ db'.conv = [db.conv EXCEPT ![n] = new]
              /\ db'.audit = db.audit /\ db'.summ = db.summ
            BY <1>1, <3>1 DEF KeyTables, Tables
        <3>4. KeyTables(db')
            <4>0. db.conv \in [Convs -> ConvRows] /\ n \in Nat
                BY <1>1 DEF KeyTables
            <4> HIDE DEF n
            <4>1. db'.conv \in [Convs -> ConvRows]
                BY <3>2, <3>3, <4>0
            <4>3. db'.next \in Nat
                BY <3>3, <4>0
            <4>2. /\ db'.audit \in [Convs -> Seq(ConvKeys)]
                  /\ db'.summ = [s \in Summaries |-> db'.summ[s]]
                  /\ \A s \in Summaries : SummaryTyped(db'.summ[s])
                BY <1>1, <3>3 DEF KeyTables
            <4> QED
                BY <3>3, <4>1, <4>2, <4>3 DEF KeyTables
        <3>5. ~db.conv[n].live /\ db.conv \in [Convs -> ConvRows]
            <4>1. n >= db.next
                BY <3>2
            <4>2. ~db.conv[n].live
                BY <1>1, <3>1, <4>1 DEF KeysKept, IdsFresh
            <4> QED
                BY <1>1, <4>2 DEF KeyTables
        <3>6. IdsFresh(db')
            <4> SUFFICES ASSUME NEW c \in Convs, c >= n + 1
                         PROVE  ~db'.conv[c].live
                BY <3>3 DEF IdsFresh
            <4>1. c # n /\ c >= n
                BY <3>2 DEF Convs
            <4> QED
                BY <1>1, <3>1, <3>3, <3>5, <4>1 DEF KeysKept, IdsFresh
        <3>7. SummaryKeys(db')
            <4> SUFFICES ASSUME NEW s \in LiveSummaries(db')
                         PROVE  /\ db'.conv[db'.summ[s].conv].live
                                /\ \/ db'.summ[s].key = NoKey
                                   \/ /\ db'.summ[s].key = db'.conv[db'.summ[s].conv].key
                                      /\ db'.summ[s].key # NullKey
                BY DEF SummaryKeys
            <4>1. s \in LiveSummaries(db) /\ db.summ[s].conv \in Convs
                BY <1>1, <3>3 DEF LiveSummaries, KeyTables, SummaryTyped
            <4>2. db.conv[db.summ[s].conv].live
                BY <1>1, <4>1 DEF KeysKept, SummaryKeys
            <4>3. db.summ[s].conv # n
                BY <3>5, <4>2
            <4> QED
                BY <1>1, <3>1, <3>3, <3>5, <4>1, <4>3 DEF KeysKept, SummaryKeys
        <3>8. AuditKeys(db')
            BY <1>1, <3>1, <3>3, <3>5 DEF KeysKept, AuditKeys
        <3> QED
            BY <3>4, <3>6, <3>7, <3>8 DEF KeysKept
    <2> QED
        BY <2>1, <2>2
<1> QED
    BY <1>2, <1>3 DEF KeysInv

\* Archiving touches no key.
LEMMA ArchiveKeeps ==
    ASSUME KeysInv, NEW p \in Proc, NEW c \in Convs, ArchiveConversation(p, c)
    PROVE  KeysInv'
<1>1. KeysKept(db) /\ db.conv \in [Convs -> ConvRows] /\ db.conv[c] \in ConvRows
    BY DEF KeysInv, KeysKept, KeyTables
<1> DEFINE rows == [db.conv EXCEPT ![c].active = FALSE]
<1>2. db' = [db EXCEPT !.conv = rows]
    BY <1>1 DEF ArchiveConversation, KeysKept, KeyTables, Tables
<1>3. rows \in [Convs -> ConvRows]
    BY <1>1 DEF ConvRows
<1>4. ASSUME NEW q \in Convs
      PROVE  rows[q].live = db.conv[q].live /\ rows[q].key = db.conv[q].key
    BY <1>1 DEF ConvRows
<1> HIDE DEF rows
<1>5. KeysKept(db')
    BY <1>1, <1>2, <1>3, <1>4, LateKeysKeep
<1> QED
    BY <1>5 DEF KeysInv, ArchiveConversation

\* insert_summary copies its conversation's key.
LEMMA InsertKeeps ==
    ASSUME KeysInv, NEW p \in Proc, NEW s \in Later, NEW c \in Convs, NEW m,
           InsertSummary(p, s, c, m)
    PROVE  KeysInv'
<1> DEFINE key == IF db.conv[c].key = NullKey THEN NoKey ELSE db.conv[c].key
           new == [live |-> TRUE, conv |-> c, depth |-> 0, count |-> 0, content |-> m,
                   key |-> key]
           rows == [db.summ EXCEPT ![s] = new]
<1>1. KeysKept(db) /\ KeyTables(db) /\ s \in Summaries /\ db.conv[c].live
    BY DEF KeysInv, KeysKept, Summaries, InsertSummary
<1>2. \E fts, cjk : db' = [db EXCEPT !.born = @ \cup {s}, !.summ[s] = new,
                                    !.fts = fts, !.cjk = cjk]
    BY DEF InsertSummary
<1>3. PICK fts, cjk : db' = [db EXCEPT !.born = @ \cup {s}, !.summ[s] = new,
                                      !.fts = fts, !.cjk = cjk]
    BY <1>2
<1>4. /\ SummaryTyped(new) /\ new.live = TRUE /\ new.conv = c /\ new.key = key
      /\ key = NoKey \/ (key = db.conv[c].key /\ key # NullKey)
    BY DEF SummaryTyped, SummaryColumns
<1> HIDE DEF new, key
<1>5. /\ db' = [f \in Tables |-> db'[f]]
      /\ db'.next = db.next /\ db'.conv = db.conv /\ db'.audit = db.audit /\ db'.summ = rows
    BY <1>1, <1>3 DEF KeyTables, Tables
<1>6. \A q \in Summaries : rows[q] = IF q = s THEN new ELSE db.summ[q]
    BY <1>1 DEF KeyTables
<1>7. rows = [q \in Summaries |-> rows[q]]
    BY <1>1 DEF KeyTables
<1> HIDE DEF rows
<1>8. KeyTables(db')
    <2>1. db'.next \in Nat /\ db'.conv \in [Convs -> ConvRows]
          /\ db'.audit \in [Convs -> Seq(ConvKeys)]
        BY <1>1, <1>5 DEF KeyTables
    <2>2. \A q \in Summaries : SummaryTyped(db'.summ[q])
        BY <1>1, <1>4, <1>5, <1>6 DEF KeyTables
    <2>3. db'.summ = [q \in Summaries |-> db'.summ[q]]
        BY <1>5, <1>7
    <2> QED
        BY <1>5, <2>1, <2>2, <2>3 DEF KeyTables
<1>9. IdsFresh(db') /\ AuditKeys(db')
    BY <1>1, <1>5 DEF KeysKept, IdsFresh, AuditKeys
<1>10. SummaryKeys(db')
    <2> SUFFICES ASSUME NEW q \in LiveSummaries(db')
                 PROVE  /\ db'.conv[db'.summ[q].conv].live
                        /\ \/ db'.summ[q].key = NoKey
                           \/ /\ db'.summ[q].key = db'.conv[db'.summ[q].conv].key
                              /\ db'.summ[q].key # NullKey
        BY DEF SummaryKeys
    <2>1. CASE q = s
        BY <1>1, <1>4, <1>5, <1>6, <2>1
    <2>2. CASE q # s
        <3>1. q \in LiveSummaries(db) /\ db'.summ[q] = db.summ[q]
            BY <1>5, <1>6, <2>2 DEF LiveSummaries
        <3> QED
            BY <1>1, <1>5, <3>1 DEF KeysKept, SummaryKeys
    <2> QED
        BY <2>1, <2>2
<1> QED
    BY <1>8, <1>9, <1>10 DEF KeysInv, KeysKept, InsertSummary

\* Conversations, their summaries and their audits move together.
LEMMA ReconcileKeeps ==
    ASSUME KeysInv, NEW p \in Proc, NEW from \in SUBSET KeysInUse(db), NEW to \in CallerKeys,
           ReconcileSessionKeys(p, from, to)
    PROVE  KeysInv'
<1> DEFINE convs == ReconciledConversations(db, from, to)
           rows == ReconciledSummaries(db, from, to)
           trails == ReconciledAudit(db, from, to)
           Moved(c) == db.conv[c].live /\ db.conv[c].key \in from
<1>1. KeysKept(db) /\ KeyTables(db)
    BY DEF KeysInv, KeysKept
<1>2. /\ to \in ConvKeys /\ to # NullKey /\ to # NoKey
      /\ NullKey \notin from /\ NoKey \notin from
    <2>1. ASSUME NEW c \in LiveConvs(db) PROVE db.conv[c].key # NoKey
        <3>1. db.conv[c] \in ConvRows
            BY <1>1 DEF LiveConvs, KeyTables
        <3> QED
            BY <3>1, KeyFacts DEF ConvRows
    <2> QED
        BY <2>1, KeyFacts, UpkeepAssumption DEF KeysInUse
<1>3. db' = [db EXCEPT !.conv = convs, !.summ = rows, !.audit = trails]
    BY DEF ReconcileSessionKeys
<1>4. ASSUME NEW c \in Convs
      PROVE  /\ convs[c] \in ConvRows
             /\ convs[c].live = db.conv[c].live
             /\ convs[c].key = IF Moved(c) THEN to ELSE db.conv[c].key
    <2>1. db.conv[c] \in ConvRows
        BY <1>1 DEF KeyTables
    <2>2. convs[c] = IF Moved(c) THEN [db.conv[c] EXCEPT !.key = to] ELSE db.conv[c]
        BY DEF ReconciledConversations
    <2> HIDE DEF convs, Moved
    <2> QED
        BY <1>2, <2>1, <2>2 DEF ConvRows
<1>5. ASSUME NEW s \in Summaries
      PROVE  /\ SummaryTyped(rows[s])
             /\ rows[s].live = db.summ[s].live
             /\ rows[s].conv = db.summ[s].conv
             /\ rows[s].key = IF db.summ[s].live /\ db.summ[s].key \in from
                              THEN to ELSE db.summ[s].key
    <2>1. SummaryTyped(db.summ[s])
        BY <1>1 DEF KeyTables
    <2>2. rows[s] = IF db.summ[s].live /\ db.summ[s].key \in from
                    THEN [db.summ[s] EXCEPT !.key = to] ELSE db.summ[s]
        BY DEF ReconciledSummaries
    <2> HIDE DEF rows
    <2> QED
        BY <2>1, <2>2 DEF SummaryTyped, SummaryColumns
<1>6. ASSUME NEW c \in Convs
      PROVE  /\ trails[c] \in Seq(ConvKeys)
             /\ Moved(c) => trails[c][Len(trails[c])] = to
             /\ ~Moved(c) => trails[c] = db.audit[c]
    <2>1. db.audit[c] \in Seq(ConvKeys)
        BY <1>1 DEF KeyTables
    <2>2. trails[c] = IF Moved(c) THEN Append(db.audit[c], to) ELSE db.audit[c]
        BY DEF ReconciledAudit
    <2> HIDE DEF trails, Moved
    <2> QED
        BY <1>2, <2>1, <2>2, Audited
<1>7. /\ convs \in [Convs -> ConvRows]
      /\ trails \in [Convs -> Seq(ConvKeys)]
      /\ rows = [s \in Summaries |-> rows[s]]
    BY <1>4, <1>6 DEF ReconciledConversations, ReconciledAudit, ReconciledSummaries
<1> HIDE DEF convs, rows, trails
<1>8. /\ db' = [f \in Tables |-> db'[f]]
      /\ db'.next = db.next /\ db'.conv = convs /\ db'.audit = trails /\ db'.summ = rows
    BY <1>1, <1>3 DEF KeyTables, Tables
<1>9. KeyTables(db')
    <2>1. db'.next \in Nat /\ db'.conv \in [Convs -> ConvRows]
          /\ db'.audit \in [Convs -> Seq(ConvKeys)]
        BY <1>1, <1>7, <1>8 DEF KeyTables
    <2>2. \A s \in Summaries : SummaryTyped(db'.summ[s])
        BY <1>5, <1>8
    <2>3. db'.summ = [s \in Summaries |-> db'.summ[s]]
        BY <1>7, <1>8
    <2> QED
        BY <1>8, <2>1, <2>2, <2>3 DEF KeyTables
<1>10. IdsFresh(db')
    BY <1>1, <1>4, <1>8 DEF KeysKept, IdsFresh
<1>11. SummaryKeys(db')
    <2> SUFFICES ASSUME NEW s \in LiveSummaries(db')
                 PROVE  /\ db'.conv[db'.summ[s].conv].live
                        /\ \/ db'.summ[s].key = NoKey
                           \/ /\ db'.summ[s].key = db'.conv[db'.summ[s].conv].key
                              /\ db'.summ[s].key # NullKey
        BY DEF SummaryKeys
    <2> DEFINE c == db.summ[s].conv
    <2>1. s \in Summaries /\ s \in LiveSummaries(db) /\ c \in Convs /\ db.summ[s].live
        BY <1>1, <1>5, <1>8 DEF LiveSummaries, KeyTables, SummaryTyped
    <2>2. /\ db.conv[c].live
          /\ db.summ[s].key = NoKey \/ (db.summ[s].key = db.conv[c].key
                                        /\ db.summ[s].key # NullKey)
        BY <1>1, <2>1 DEF KeysKept, SummaryKeys
    <2>3. db'.conv[db'.summ[s].conv] = convs[c] /\ db'.summ[s].key = rows[s].key
        BY <1>5, <1>8, <2>1
    <2>4. CASE db.summ[s].key = NoKey
        BY <1>2, <1>4, <1>5, <2>1, <2>2, <2>3, <2>4
    <2>5. CASE db.summ[s].key = db.conv[c].key /\ db.summ[s].key # NullKey
        BY <1>2, <1>4, <1>5, <2>1, <2>2, <2>3, <2>5
    <2> QED
        BY <2>2, <2>4, <2>5
<1>12. AuditKeys(db')
    <2> SUFFICES ASSUME NEW c \in Convs, db'.audit[c] # <<>>
                 PROVE  /\ db'.conv[c].live
                        /\ db'.conv[c].key # NullKey
                        /\ db'.audit[c][Len(db'.audit[c])] = db'.conv[c].key
        BY DEF AuditKeys
    <2>1. CASE Moved(c)
        BY <1>2, <1>4, <1>6, <1>8, <2>1
    <2>2. CASE ~Moved(c)
        <3>1. /\ db.conv[c].live /\ db.conv[c].key # NullKey
              /\ db.audit[c][Len(db.audit[c])] = db.conv[c].key
            BY <1>1, <1>6, <1>8, <2>2 DEF KeysKept, AuditKeys
        <3> QED
            BY <1>4, <1>6, <1>8, <2>2, <3>1
    <2> QED
        BY <2>1, <2>2
<1> QED
    BY <1>9, <1>10, <1>11, <1>12 DEF KeysInv, KeysKept, ReconcileSessionKeys

\* A staged conversation goes with its summaries and its audit.
LEMMA CleanersKeep ==
    ASSUME NEW d, KeysKept(d), NEW staged \in SUBSET Convs
    PROVE  KeysKept(DeleteCandidates(d, staged))
<1> DEFINE e == DeleteCandidates(d, staged)
           gone == {s \in LiveSummaries(d) : d.summ[s].conv \in staged}
           rows == [s \in Summaries |-> IF s \in gone THEN NoSummary ELSE d.summ[s]]
           trails == [c \in Convs |-> IF c \in staged THEN <<>> ELSE d.audit[c]]
           convs == [c \in Convs |-> IF c \in staged THEN NoConv ELSE d.conv[c]]
<1>1. KeyTables(d)
    BY DEF KeysKept
<1>2. \E kids, fts, cjk :
        e = [d EXCEPT !.kids = kids, !.fts = fts, !.cjk = cjk, !.summ = rows,
                      !.audit = trails, !.conv = convs]
    BY DEF DeleteCandidates
<1>3. ASSUME NEW s \in Summaries
      PROVE  SummaryTyped(rows[s]) /\ rows[s] = IF s \in gone THEN NoSummary ELSE d.summ[s]
    <2>1. SummaryTyped(NoSummary)
        BY UpkeepAssumption DEF SummaryTyped, SummaryColumns, NoSummary
    <2>2. SummaryTyped(d.summ[s])
        BY <1>1 DEF KeyTables
    <2> QED
        BY <2>1, <2>2
<1>4. ASSUME NEW c \in Convs
      PROVE  /\ convs[c] \in ConvRows
             /\ convs[c] = IF c \in staged THEN NoConv ELSE d.conv[c]
             /\ trails[c] \in Seq(ConvKeys)
             /\ trails[c] = IF c \in staged THEN <<>> ELSE d.audit[c]
    <2>1. NoConv \in ConvRows
        BY KeyFacts DEF NoConv, ConvRows
    <2>2. d.conv[c] \in ConvRows /\ d.audit[c] \in Seq(ConvKeys) /\ <<>> \in Seq(ConvKeys)
        BY <1>1 DEF KeyTables
    <2> QED
        BY <2>1, <2>2
<1>5. \A s \in LiveSummaries(d) : s \in gone <=> d.summ[s].conv \in staged
    OBVIOUS
<1>6. /\ convs \in [Convs -> ConvRows]
      /\ trails \in [Convs -> Seq(ConvKeys)]
      /\ rows = [s \in Summaries |-> rows[s]]
    BY <1>4
<1>7. NoSummary.live = FALSE /\ NoConv.live = FALSE
    BY DEF NoSummary, NoConv
<1> HIDE DEF e, gone, rows, trails, convs
<1>8. /\ e = [f \in Tables |-> e[f]]
      /\ e.next = d.next /\ e.conv = convs /\ e.audit = trails /\ e.summ = rows
    BY <1>1, <1>2 DEF KeyTables, Tables
<1>9. KeyTables(e)
    <2>1. e.next \in Nat /\ e.conv \in [Convs -> ConvRows] /\ e.audit \in [Convs -> Seq(ConvKeys)]
        BY <1>1, <1>6, <1>8 DEF KeyTables
    <2>2. \A s \in Summaries : SummaryTyped(e.summ[s])
        BY <1>3, <1>8
    <2>3. e.summ = [s \in Summaries |-> e.summ[s]]
        BY <1>6, <1>8
    <2> QED
        BY <1>8, <2>1, <2>2, <2>3 DEF KeyTables
<1>10. IdsFresh(e)
    BY <1>4, <1>7, <1>8 DEF KeysKept, IdsFresh
<1>11. SummaryKeys(e)
    <2> SUFFICES ASSUME NEW s \in LiveSummaries(e)
                 PROVE  /\ e.conv[e.summ[s].conv].live
                        /\ \/ e.summ[s].key = NoKey
                           \/ /\ e.summ[s].key = e.conv[e.summ[s].conv].key
                              /\ e.summ[s].key # NullKey
        BY DEF SummaryKeys
    <2>1. s \in Summaries /\ s \notin gone /\ e.summ[s] = d.summ[s] /\ s \in LiveSummaries(d)
        BY <1>3, <1>7, <1>8 DEF LiveSummaries
    <2>2. d.summ[s].conv \in Convs \ staged
        BY <1>1, <1>5, <2>1 DEF KeyTables, SummaryTyped
    <2>3. e.conv[d.summ[s].conv] = d.conv[d.summ[s].conv]
        BY <1>4, <1>8, <2>2
    <2> QED
        BY <2>1, <2>3 DEF KeysKept, SummaryKeys
<1>12. AuditKeys(e)
    BY <1>4, <1>8 DEF KeysKept, AuditKeys
<1> QED
    BY <1>9, <1>10, <1>11, <1>12 DEF KeysKept, e

\* The contents the doctor writes.
LEMMA DoctorWritesKeeps ==
    ASSUME KeysInv, NEW p \in Proc, DoctorWrites(p)
    PROVE  KeysInv'
<1> DEFINE rows == [s \in Summaries |->
                       IF s \in DOMAIN doc.over /\ db.summ[s].live
                       THEN [db.summ[s] EXCEPT !.content = doc.over[s]] ELSE db.summ[s]]
           index == UpdateSummaryFts(db, doc.over)
<1>1. KeysKept(db) /\ KeyTables(db)
    BY DEF KeysInv, KeysKept
<1>2. db' = [db EXCEPT !.summ = rows, !.fts = index]
    BY DEF DoctorWrites
<1>3. ASSUME NEW s \in Summaries
      PROVE  /\ SummaryTyped(rows[s])
             /\ rows[s].live = db.summ[s].live
             /\ rows[s].conv = db.summ[s].conv
             /\ rows[s].key = db.summ[s].key
    <2>1. SummaryTyped(db.summ[s])
        BY <1>1 DEF KeyTables
    <2>2. rows[s] = IF s \in DOMAIN doc.over /\ db.summ[s].live
                    THEN [db.summ[s] EXCEPT !.content = doc.over[s]] ELSE db.summ[s]
        OBVIOUS
    <2> HIDE DEF rows
    <2> QED
        BY <2>1, <2>2 DEF SummaryTyped, SummaryColumns
<1>4. rows = [s \in Summaries |-> rows[s]]
    OBVIOUS
<1> HIDE DEF rows, index
<1>5. /\ db' = [f \in Tables |-> db'[f]]
      /\ db'.next = db.next /\ db'.conv = db.conv /\ db'.audit = db.audit /\ db'.summ = rows
    BY <1>1, <1>2 DEF KeyTables, Tables
<1>6. SameKeys(db, db')
    BY <1>1, <1>3, <1>4, <1>5 DEF KeyTables, SameKeys
<1>7. KeysKept(db')
    BY <1>1, <1>6, SameKeysKeeps
<1> QED
    BY <1>7 DEF KeysInv, DoctorWrites

-----------------------------------------------------------------------------
(* The invariant.                                                          *)

\* The largest of some conversation ids.
LEMMA LargestId ==
    ASSUME NEW S \in SUBSET Convs, S # {}
    PROVE  Max(S) \in S /\ \A c \in S : c <= Max(S)
<1>0. \A c \in Convs : c \in Nat /\ c >= 1
    BY UpkeepAssumption DEF Convs
<1> DEFINE U == {n \in Nat : \A c \in S : c <= n}
<1>1. NumConv \in U /\ S \subseteq Nat
    BY UpkeepAssumption DEF Convs
<1>2. PICK n \in U : \A m \in U : ~(<<m, n>> \in OpToRel(<, Nat))
    BY <1>1, NatLessThanWellFounded, WFMin
<1>3. \A m \in U : ~(m < n)
    BY <1>2 DEF OpToRel
<1>4. n \in S
    <2> SUFFICES ASSUME n \notin S PROVE FALSE
        OBVIOUS
    <2>1. n \in Nat /\ \A c \in S : c \in Nat /\ c >= 1 /\ c <= n /\ c # n
        <3>1. n \in Nat /\ \A c \in S : c <= n
            BY <1>2
        <3>2. \A c \in S : c \in Nat /\ c >= 1
            BY <1>0
        <3> QED
            BY <3>1, <3>2
    <2>2. n >= 1 /\ n - 1 \in Nat /\ n - 1 < n
        BY <2>1
    <2>3. \A c \in S : c <= n - 1
        BY <2>1
    <2>4. n - 1 \in U
        BY <2>2, <2>3
    <2> QED
        BY <1>3, <2>2, <2>4
<1>5. \A c \in S : n >= c
    BY <1>1, <1>2
<1>6. \A x \in S : (\A y \in S : x >= y) => \A y \in S : y <= x
    BY <1>1
<1> QED
    BY <1>4, <1>5, <1>6 DEF Max

\* The legacy database and the new one satisfy the invariant.
LEMMA KeysInit == UpkeepInit => KeysInv
<1> SUFFICES ASSUME UpkeepInit PROVE KeysInv
    OBVIOUS
<1>1. PICK legacy \in Legacies : db = Found(legacy)
    BY DEF UpkeepInit
<1> DEFINE S == DOMAIN legacy.conv
           convs == [c \in Convs |-> IF c \in S THEN legacy.conv[c] ELSE NoConv]
           rows == [s \in Summaries |-> IF s \in Later THEN NoSummary
                      ELSE [live |-> TRUE, conv |-> Home, depth |-> 0, count |-> 0,
                            content |-> IF s \in legacy.marked THEN "marked" ELSE "sound",
                            key |-> NoKey]]
<1>2. /\ S \subseteq Convs /\ Home \in S
      /\ \A c \in S : legacy.conv[c] \in [live : {TRUE}, sid : Nat, key : CallerKeys \cup {NullKey},
                                         active : BOOLEAN, brief : BOOLEAN]
    BY LegacyAssumption
<1>3. Max(S) \in S /\ \A c \in S : c <= Max(S)
    BY <1>2, LargestId
<1>4. /\ db = [f \in Tables |-> db[f]]
      /\ db.next = 1 + Max(S) /\ db.conv = convs /\ db.summ = rows
      /\ db.audit = [c \in Convs |-> <<>>]
    BY <1>1 DEF Found, Tables
<1>5. ASSUME NEW c \in Convs
      PROVE  /\ convs[c] \in ConvRows
             /\ c \in S => convs[c].live = TRUE
             /\ c \notin S => convs[c].live = FALSE
    <2>1. NoConv \in ConvRows /\ NoConv.live = FALSE
        BY KeyFacts DEF NoConv, ConvRows
    <2>2. convs[c] = IF c \in S THEN legacy.conv[c] ELSE NoConv
        OBVIOUS
    <2>3. c \in S => legacy.conv[c] \in ConvRows /\ legacy.conv[c].live = TRUE
        BY <1>2, KeyFacts DEF ConvRows
    <2> HIDE DEF convs, S
    <2> QED
        BY <2>1, <2>2, <2>3
<1>6. ASSUME NEW s \in Summaries
      PROVE  /\ SummaryTyped(rows[s])
             /\ rows[s].conv = Home /\ rows[s].key = NoKey
    BY UpkeepAssumption DEF SummaryTyped, SummaryColumns, NoSummary
<1>7. convs \in [Convs -> ConvRows] /\ rows = [s \in Summaries |-> rows[s]]
    BY <1>5
<1> HIDE DEF convs, rows, S
<1>8. KeyTables(db)
    <2>1. db.next \in Nat
        BY <1>2, <1>3, <1>4 DEF Convs
    <2>2. db.audit \in [Convs -> Seq(ConvKeys)]
        <3>1. <<>> \in Seq(ConvKeys)
            BY EmptySeq
        <3> QED
            BY <1>4, <3>1
    <2> QED
        BY <1>4, <1>6, <1>7, <2>1, <2>2 DEF KeyTables
<1>9. IdsFresh(db)
    <2> SUFFICES ASSUME NEW c \in Convs, c >= 1 + Max(S) PROVE ~db.conv[c].live
        BY <1>4 DEF IdsFresh
    <2>1. \A q \in Convs : q \in Int
        BY DEF Convs
    <2>2. c \notin S
        BY <1>2, <1>3, <2>1
    <2> QED
        BY <1>4, <1>5, <2>2
<1>10. SummaryKeys(db)
    BY <1>2, <1>4, <1>5, <1>6 DEF SummaryKeys, LiveSummaries
<1>11. AuditKeys(db)
    BY <1>4 DEF AuditKeys
<1>12. want \in [Proc -> Wants]
    BY DEF UpkeepInit, NoWant, Wants
<1> QED
    BY <1>8, <1>9, <1>10, <1>11, <1>12 DEF KeysInv, KeysKept

\* The invariant is inductive, one step per action.
LEMMA KeysStep == KeysInv /\ [UpkeepNext]_upkeepVars => KeysInv'
<1> SUFFICES ASSUME KeysInv, [UpkeepNext]_upkeepVars PROVE KeysInv'
    OBVIOUS
<1>1. CASE UNCHANGED upkeepVars
    BY <1>1 DEF upkeepVars, KeysInv
<1>2. CASE UpkeepNext
    <2>1. PICK p \in Proc :
            \/ OpenLcmDb(p) \/ RunLcmMigrations(p) \/ MigrationFails(p) \/ CloseLcmDb(p)
            \/ \E sid \in 1..2, k \in CallerKeys \cup {NullKey} : GetConversation(p, sid, k)
            \/ CreateConversation(p)
            \/ \E c \in Convs : ArchiveConversation(p, c) \/ DoctorStart(p, c)
            \/ \E s \in Later, c \in Convs, m \in {"sound", "marked"} : InsertSummary(p, s, c, m)
            \/ \E from \in (SUBSET KeysInUse(db)) \ {{}}, to \in CallerKeys :
                   ReconcileSessionKeys(p, from, to)
            \/ ScanDoctorCleaners(p) \/ WriteDatabaseBackup(p) \/ ApplyDoctorCleaners(p)
            \/ DoctorRewrites(p) \/ DoctorSkips(p) \/ DoctorWrites(p)
        BY <1>2 DEF UpkeepNext
    <2>2. CASE UNCHANGED <<db, want>>
        BY <2>2 DEF KeysInv
    <2>3. CASE RunLcmMigrations(p)
        BY <2>3, MigratedKeeps DEF KeysInv, RunLcmMigrations
    <2>4. CASE CloseLcmDb(p)
        <3>1. want' \in [Proc -> Wants]
            BY <2>4 DEF KeysInv, CloseLcmDb, NoWant, Wants
        <3> QED
            BY <2>4, <3>1 DEF KeysInv, CloseLcmDb
    <2>5. CASE ApplyDoctorCleaners(p)
        <3>1. StagedConversations(db) \in SUBSET Convs
            BY DEF StagedConversations, MatchedConversations, LiveConvs
        <3> QED
            BY <2>5, <3>1, CleanersKeep DEF KeysInv, ApplyDoctorCleaners
    <2>6. CASE \/ OpenLcmDb(p) \/ MigrationFails(p) \/ ScanDoctorCleaners(p)
               \/ WriteDatabaseBackup(p) \/ DoctorRewrites(p) \/ DoctorSkips(p)
        BY <2>2, <2>6 DEF OpenLcmDb, MigrationFails, ScanDoctorCleaners, WriteDatabaseBackup,
                          DoctorRewrites, DoctorSkips
    <2>7. CASE \E c \in Convs : DoctorStart(p, c)
        BY <2>2, <2>7 DEF DoctorStart
    <2> QED
        BY <2>1, <2>3, <2>4, <2>5, <2>6, <2>7, GetConversationKeeps, CreateConversationKeeps,
           ArchiveKeeps, InsertKeeps, ReconcileKeeps, DoctorWritesKeeps
<1> QED
    BY <1>1, <1>2

(***************************************************************************)
(* KeysFollow: in every database found and for all processes and keys, a   *)
(* summary's session key is '' or its conversation's, and the last audit   *)
(* row of a re-keyed conversation names the key it has (insert_summary,    *)
(* _backfill_conversation_session_keys, _backfill_summary_session_keys,    *)
(* get_or_create_conversation, _reconcile_atomic and                       *)
(* _delete_temp_cleaner_candidates).                                       *)
(***************************************************************************)
THEOREM KeysFollowed == UpkeepSpec => []KeysFollow
<1>1. KeysInv => KeysFollow
    <2> SUFFICES ASSUME KeysInv PROVE KeysFollow
        OBVIOUS
    <2>1. \A s \in LiveSummaries(db) :
             db.summ[s].key \in {NoKey, db.conv[db.summ[s].conv].key}
        BY DEF KeysInv, KeysKept, SummaryKeys
    <2>2. \A c \in LiveConvs(db) : db.audit[c] # <<>> => Last(db.audit[c]) = db.conv[c].key
        BY DEF KeysInv, KeysKept, AuditKeys, Last, LiveConvs
    <2> QED
        BY <2>1, <2>2 DEF KeysFollow
<1> QED
    BY <1>1, KeysInit, KeysStep, PTL DEF UpkeepSpec

-----------------------------------------------------------------------------
(***************************************************************************)
(* Upkeep: derived columns, texts and repairs.                             *)
(***************************************************************************)
\* The summaries a database is found with.
Early == Leaf \cup Condensed

\* They are finitely many.
LEMMA EarlyFinite ==
    /\ IsFiniteSet(Early) /\ IsFiniteSet(Summaries) /\ IsFiniteSet(Condensed)
    /\ Cardinality(Condensed) \in Nat
    /\ Leaf \cap Condensed = {} /\ Later \cap Early = {}
<1>1. IsFiniteSet(Early) /\ IsFiniteSet(Condensed)
    BY UpkeepAssumption, FS_Union DEF Early
<1>2. Summaries = Early \cup Later
    BY DEF Summaries, Early
<1>3. IsFiniteSet(Summaries)
    BY <1>1, <1>2, UpkeepAssumption, FS_Union
<1> QED
    BY <1>1, <1>3, UpkeepAssumption, FS_CardinalityType DEF Early

\* The largest of finitely many depths and 0.
LEMMA LargestDepth ==
    ASSUME NEW g, NEW K, IsFiniteSet(K), \A k \in K : g[k] \in Nat
    PROVE  LET M == Max({0} \cup {g[k] : k \in K})
           IN  M \in Nat /\ \A k \in K : g[k] <= M
<1> DEFINE V == {g[k] : k \in K}
           D == {0} \cup V
<1>1. IsFiniteSet(V)
    BY ImageFinite
<1>2. IsFiniteSet({0})
    BY FS_Singleton
<1>3. IsFiniteSet(D) /\ D \subseteq Nat /\ D # {}
    <2>1. V \subseteq Nat
        OBVIOUS
    <2> HIDE DEF V
    <2>2. IsFiniteSet(D)
        BY <1>1, <1>2, FS_Union
    <2> QED
        BY <2>1, <2>2
<1>4. \A k \in K : g[k] \in D
    OBVIOUS
<1> HIDE DEF D
<1>5. Max(D) \in Nat /\ \A k \in K : g[k] <= Max(D)
    BY <1>3, <1>4, MaxFacts
<1> QED
    BY <1>5 DEF D

-----------------------------------------------------------------------------
(* Ages.                                                                   *)

\* age orders the summaries by when they were written.
Aged(age, kids) ==
    /\ age \in [Early -> Nat]
    /\ \A s \in Condensed : \A k \in kids[s] : age[k] < age[s]

\* There is such an order.
LEMMA HasAge ==
    ASSUME NEW kids, Grown(kids)
    PROVE  /\ \E age : Aged(age, kids)
           /\ \A s \in Condensed : kids[s] \subseteq Early /\ IsFiniteSet(kids[s])
<1>1. \A n : 1 .. n \subseteq Nat
    OBVIOUS
<1>2. \E age : Aged(age, kids)
    BY <1>1 DEF Grown, Aged, Early
<1>3. \A s \in Condensed : kids[s] \subseteq Early
    BY DEF Grown, Early
<1> QED
    BY <1>2, <1>3, EarlyFinite, FS_Subset

\* Of summaries, one was written first.
LEMMA Eldest ==
    ASSUME NEW age \in [Early -> Nat], NEW B \in SUBSET Early, B # {}
    PROVE  \E s \in B : \A t \in B : age[s] <= age[t]
<1> DEFINE A == {age[s] : s \in B}
<1>1. A \subseteq Nat /\ A # {}
    OBVIOUS
<1>2. PICK n \in A : \A m \in A : n <= m
    BY <1>1, LeastNat
<1> QED
    BY <1>2

-----------------------------------------------------------------------------
(* Sweeps.                                                                 *)

\* The database as it is found: its summaries live in one conversation.
Whole(d) ==
    /\ Grown(d.kids)
    /\ \A s \in Early : d.summ[s].live /\ d.summ[s].conv = Home
    /\ \A s \in Later : ~d.summ[s].live

\* Its summaries.
LEMMA WholeFacts ==
    ASSUME NEW d, Whole(d)
    PROVE  LiveSummaries(d) = Early /\ SummariesOf(d, Home) = Early
BY DEF Whole, LiveSummaries, SummariesOf, Summaries, Early

\* g gives the summaries it knows the depth of the tree under them.
Ranked(g, kids) ==
    /\ g = [s \in DOMAIN g |-> g[s]]
    /\ DOMAIN g \subseteq Early /\ Leaf \subseteq DOMAIN g
    /\ \A s \in DOMAIN g : g[s] \in Nat
    /\ \A s \in Leaf : g[s] = 0
    /\ \A s \in DOMAIN g \cap Condensed :
          /\ kids[s] \subseteq DOMAIN g
          /\ g[s] = 1 + Max({0} \cup {g[k] : k \in kids[s]})

\* A sweep keeps what is settled and settles something more.
LEMMA SweepStep ==
    ASSUME NEW d, Whole(d), NEW g, Ranked(g, d.kids)
    PROVE  LET h == Sweep(d, Home, g)
           IN  /\ Ranked(h, d.kids)
               /\ DOMAIN g \subseteq DOMAIN h
               /\ DOMAIN g # Early => \E s \in Condensed \ DOMAIN g : s \in DOMAIN h
<1> DEFINE h == Sweep(d, Home, g)
           new == Resolved(d, Home, g)
           V(s) == 1 + Max({0} \cup {g[k] : k \in d.kids[s]})
<1>1. SummariesOf(d, Home) = Early /\ Grown(d.kids)
    BY WholeFacts DEF Whole
<1>2. new = {s \in Condensed : d.kids[s] \subseteq DOMAIN g}
    BY <1>1 DEF Resolved, Early
<1>3. h = [s \in DOMAIN g \cup new |-> IF s \in DOMAIN g THEN g[s] ELSE V(s)]
    BY DEF Sweep
<1>4. ASSUME NEW s \in new PROVE V(s) \in Nat
    <2>1. IsFiniteSet(d.kids[s]) /\ \A k \in d.kids[s] : g[k] \in Nat
        BY <1>1, <1>2, HasAge DEF Ranked
    <2>2. Max({0} \cup {g[k] : k \in d.kids[s]}) \in Nat
        BY <2>1, LargestDepth
    <2> QED
        BY <2>2
<1>5. \A s \in DOMAIN g \cup new : s \in Condensed => d.kids[s] \subseteq DOMAIN g
    BY <1>2 DEF Ranked
<1> HIDE DEF h, new
<1>6. DOMAIN h = DOMAIN g \cup new /\ \A k \in DOMAIN g : h[k] = g[k]
    BY <1>3
<1>7. ASSUME NEW s \in DOMAIN h \cap Condensed
      PROVE  d.kids[s] \subseteq DOMAIN h /\ h[s] = 1 + Max({0} \cup {h[k] : k \in d.kids[s]})
    <2>1. d.kids[s] \subseteq DOMAIN g
        BY <1>5, <1>6
    <2>2. {h[k] : k \in d.kids[s]} = {g[k] : k \in d.kids[s]}
        BY <1>6, <2>1
    <2>3. h[s] = V(s)
        BY <1>3, <1>6 DEF Ranked
    <2> QED
        BY <1>6, <2>1, <2>2, <2>3
<1>8. Ranked(h, d.kids)
    <2> HIDE DEF V
    <2>1. h = [s \in DOMAIN h |-> h[s]]
        BY <1>3
    <2>2. DOMAIN h \subseteq Early /\ Leaf \subseteq DOMAIN h
        BY <1>6, <1>2 DEF Ranked, Early
    <2>3. \A s \in DOMAIN h : h[s] \in Nat
        BY <1>3, <1>4, <1>6 DEF Ranked
    <2>4. \A s \in Leaf : h[s] = 0
        BY <1>6 DEF Ranked
    <2> QED
        BY <2>1, <2>2, <2>3, <2>4, <1>7 DEF Ranked
<1>9. ASSUME DOMAIN g # Early PROVE \E s \in Condensed \ DOMAIN g : s \in DOMAIN h
    <2> DEFINE B == Early \ DOMAIN g
    <2>1. B # {} /\ B \in SUBSET Early /\ B \subseteq Condensed
        BY <1>9 DEF Ranked, Early
    <2>2. PICK age : Aged(age, d.kids)
        BY <1>1, HasAge
    <2>3. PICK s \in B : \A t \in B : age[s] <= age[t]
        BY <2>1, <2>2, Eldest DEF Aged
    <2>4. ASSUME NEW k \in d.kids[s] PROVE k \in DOMAIN g
        <3>1. k \in Early /\ age[k] < age[s] /\ age[k] \in Nat /\ age[s] \in Nat
            BY <1>1, <2>1, <2>2, <2>3, HasAge DEF Aged
        <3>2. k \notin B
            BY <2>3, <3>1
        <3> QED
            BY <3>1, <3>2
    <2> QED
        BY <1>2, <1>6, <2>1, <2>4
<1> QED
    BY <1>6, <1>8, <1>9 DEF h

\* f is the sequence of sweeps over the conversation.
Sweeps(f, d) ==
    f = [n \in 0 .. Cardinality(Condensed) |->
            IF n = 0 THEN [s \in SummariesOf(d, Home) \ Condensed |-> 0]
            ELSE Sweep(d, Home, f[n - 1])]

\* There is one.
LEMMA SweepsExist ==
    ASSUME NEW d
    PROVE  \E f : Sweeps(f, d)
<1> DEFINE N == Cardinality(Condensed)
           Value(g, n) == IF n = 0 THEN [s \in SummariesOf(d, Home) \ Condensed |-> 0]
                          ELSE Sweep(d, Home, g[n - 1])
           Good(m) == \E g : /\ g = [n \in 0 .. N |-> g[n]]
                             /\ \A n \in 0 .. N : n <= m => g[n] = Value(g, n)
           Bad == {m \in Nat : ~Good(m)}
<1>0. N \in Nat
    BY EarlyFinite
<1>1. ASSUME NEW g, NEW h, NEW n, n # 0 => g[n - 1] = h[n - 1]
      PROVE  Value(g, n) = Value(h, n)
    BY <1>1
<1> HIDE DEF Value, N
<1>2. Good(0)
    <2> DEFINE g == [n \in 0 .. N |-> Value(<<>>, 0)]
    <2>1. \A n \in 0 .. N : n <= 0 => n = 0
        BY <1>0
    <2>2. g[0] = Value(g, 0)
        BY <1>0, <1>1
    <2>3. g = [n \in 0 .. N |-> g[n]]
        OBVIOUS
    <2> QED
        BY <2>1, <2>2, <2>3
<1>3. ASSUME NEW m \in Nat, Good(m) PROVE Good(m + 1)
    <2>1. PICK g : /\ g = [n \in 0 .. N |-> g[n]]
                   /\ \A n \in 0 .. N : n <= m => g[n] = Value(g, n)
        BY <1>3
    <2> DEFINE h == [n \in 0 .. N |-> IF n <= m THEN g[n] ELSE Value(g, n)]
    <2>2. ASSUME NEW n \in 0 .. N, n <= m + 1 PROVE h[n] = Value(h, n)
        <3>1. h[n] = Value(g, n)
            BY <2>1
        <3>2. n # 0 => g[n - 1] = h[n - 1]
            BY <1>0, <2>2
        <3>3. Value(g, n) = Value(h, n)
            BY <3>2, <1>1
        <3> QED
            BY <3>1, <3>3
    <2>3. h = [n \in 0 .. N |-> h[n]]
        OBVIOUS
    <2> HIDE DEF h
    <2> QED
        BY <2>2, <2>3
<1> HIDE DEF Good
<1>4. Bad = {}
    <2>1. SUFFICES ASSUME Bad # {} PROVE FALSE
        OBVIOUS
    <2>2. PICK n \in Bad : \A m \in Bad : n <= m
        BY <2>1, LeastNat
    <2>3. n # 0
        BY <1>2, <2>2
    <2>4. n - 1 \in Nat /\ n - 1 \notin Bad
        BY <2>2, <2>3
    <2>5. Good(n - 1 + 1)
        BY <2>4, <1>3
    <2> QED
        BY <2>5, <2>2
<1>5. PICK g : /\ g = [n \in 0 .. N |-> g[n]]
               /\ \A n \in 0 .. N : n <= N => g[n] = Value(g, n)
    BY <1>0, <1>4 DEF Good
<1>6. \A n \in 0 .. N : g[n] = Value(g, n)
    BY <1>0, <1>5
<1>7. g = [n \in 0 .. N |-> Value(g, n)]
    BY <1>5, <1>6
<1> QED
    BY <1>7 DEF Value, N, Sweeps

\* The sweeps settle every summary.
LEMMA SweepsSettle ==
    ASSUME NEW d, Whole(d), NEW f, Sweeps(f, d)
    PROVE  LET g == f[Cardinality(Condensed)]
           IN  Ranked(g, d.kids) /\ DOMAIN g = Early
<1> DEFINE N == Cardinality(Condensed)
           Known(n) == Cardinality(DOMAIN f[n] \cap Condensed)
           Good(n) == /\ Ranked(f[n], d.kids)
                      /\ DOMAIN f[n] = Early \/ Known(n) >= n
           Bad == {n \in 0 .. N : ~Good(n)}
<1>0. N \in Nat /\ IsFiniteSet(Condensed) /\ Early \ Condensed = Leaf /\ Leaf \subseteq Early
      /\ Leaf \cap Condensed = {}
    BY EarlyFinite DEF Early
<1>1. SummariesOf(d, Home) = Early
    BY WholeFacts
<1>2. f[0] = [s \in Leaf |-> 0] /\ \A n \in 1 .. N : f[n] = Sweep(d, Home, f[n - 1])
    BY <1>0, <1>1 DEF Sweeps
<1>3. Good(0)
    <2>1. Ranked(f[0], d.kids)
        BY <1>0, <1>2 DEF Ranked
    <2>2. DOMAIN f[0] \cap Condensed = {}
        BY <1>0, <1>2
    <2>3. Known(0) = 0
        BY <2>2, FS_EmptySet
    <2> QED
        BY <2>1, <2>3
<1>4. ASSUME NEW n \in 1 .. N, Good(n - 1) PROVE Good(n)
    <2> DEFINE g == f[n - 1]
               h == f[n]
    <2>1. Ranked(g, d.kids) /\ h = Sweep(d, Home, g)
        BY <1>2, <1>4
    <2>2. /\ Ranked(h, d.kids) /\ DOMAIN g \subseteq DOMAIN h
          /\ DOMAIN g # Early => \E s \in Condensed \ DOMAIN g : s \in DOMAIN h
        BY <2>1, SweepStep
    <2>3. CASE DOMAIN g = Early
        BY <2>2, <2>3 DEF Ranked
    <2>4. CASE DOMAIN g # Early
        <3>1. Known(n - 1) >= n - 1
            BY <1>4, <2>4
        <3>2. PICK s \in Condensed \ DOMAIN g : s \in DOMAIN h
            BY <2>2, <2>4
        <3> DEFINE A == DOMAIN g \cap Condensed
                   B == DOMAIN h \cap Condensed
        <3>3. IsFiniteSet(B) /\ A \subseteq B /\ A # B
            BY <1>0, <2>2, <3>2, FS_Subset
        <3>4. IsFiniteSet(A)
            BY <3>3, FS_Subset
        <3>5. Cardinality(A) \in Nat /\ Cardinality(B) \in Nat
              /\ Cardinality(A) <= Cardinality(B) /\ Cardinality(A) # Cardinality(B)
            BY <3>3, <3>4, FS_Subset, FS_CardinalityType
        <3>6. Known(n - 1) = Cardinality(A) /\ Known(n) = Cardinality(B)
            OBVIOUS
        <3> HIDE DEF A, B, Known
        <3> QED
            BY <2>2, <3>1, <3>5, <3>6
    <2> QED
        BY <2>3, <2>4
<1> HIDE DEF Good
<1>5. Bad = {}
    <2>1. SUFFICES ASSUME Bad # {} PROVE FALSE
        OBVIOUS
    <2>2. PICK n \in Bad : \A m \in Bad : n <= m
        <3>1. Bad \subseteq Nat
            BY <1>0
        <3> QED
            BY <2>1, <3>1, LeastNat
    <2>3. n # 0
        BY <1>3, <2>2
    <2>4. n \in 1 .. N /\ n - 1 \in 0 .. N /\ n - 1 \notin Bad
        BY <1>0, <2>2, <2>3
    <2>5. Good(n)
        BY <2>4, <1>4
    <2> QED
        BY <2>5, <2>2
<1>6. Ranked(f[N], d.kids) /\ (DOMAIN f[N] = Early \/ Known(N) >= N)
    BY <1>0, <1>5 DEF Good
<1>7. ASSUME Known(N) >= N PROVE DOMAIN f[N] = Early
    <2> DEFINE A == DOMAIN f[N] \cap Condensed
    <2>1. A \subseteq Condensed /\ IsFiniteSet(A)
        BY <1>0, FS_Subset
    <2>2. Cardinality(A) \in Nat /\ Cardinality(A) <= N
          /\ (Cardinality(A) = N => A = Condensed)
        BY <1>0, <2>1, FS_Subset, FS_CardinalityType
    <2>3. A = Condensed
        BY <1>0, <1>7, <2>2
    <2> QED
        BY <1>6, <2>3 DEF Ranked, Early
<1> QED
    BY <1>6, <1>7

\* What is written as depths: the height of the tree under each summary.
LEMMA DepthsSettled ==
    ASSUME NEW d, Whole(d)
    PROVE  LET g == Depths(d, Home)
           IN  Ranked(g, d.kids) /\ DOMAIN g = Early
<1> DEFINE N == Cardinality(Condensed)
           f == CHOOSE sweeps : sweeps = [n \in 0 .. N |->
                    IF n = 0 THEN [s \in SummariesOf(d, Home) \ Condensed |-> 0]
                    ELSE Sweep(d, Home, sweeps[n - 1])]
<1>1. Sweeps(f, d)
    BY SweepsExist DEF Sweeps
<1>2. Depths(d, Home) = [s \in SummariesOf(d, Home) |->
                            IF s \in DOMAIN f[N] THEN f[N][s] ELSE 1]
    BY DEF Depths
<1> HIDE DEF f, N
<1>3. Ranked(f[N], d.kids) /\ DOMAIN f[N] = Early
    BY <1>1, SweepsSettle DEF N
<1>4. SummariesOf(d, Home) = Early
    BY WholeFacts
<1>5. Depths(d, Home) = f[N]
    BY <1>2, <1>3, <1>4 DEF Ranked
<1> QED
    BY <1>3, <1>5

-----------------------------------------------------------------------------
(* Heights and trees.                                                      *)

\* The reference: what is settled for all summaries is the height.
LEMMA HeightIs ==
    ASSUME NEW kids, Grown(kids), NEW g, Ranked(g, kids), DOMAIN g = Early
    PROVE  /\ \A s \in Early : Height(kids)[s] = g[s]
           /\ \A s \in Later : Height(kids)[s] = 0
<1> DEFINE V(h, s) == IF s \notin Condensed THEN 0 ELSE 1 + Max({0} \cup {h[k] : k \in kids[s]})
           H(h) == h = [s \in Summaries |-> V(h, s)]
           w == [s \in Summaries |-> IF s \in Early THEN g[s] ELSE 0]
<1>0. /\ Summaries = Early \cup Later /\ Condensed \subseteq Early
      /\ Early \ Condensed \subseteq Leaf /\ Early \subseteq Summaries
      /\ Later \cap Early = {}
    BY EarlyFinite DEF Summaries, Early
<1>k. \A s \in Condensed : kids[s] \subseteq Early
    BY HasAge
<1>1. ASSUME NEW s \in Summaries PROVE w[s] = V(w, s)
    <2>1. CASE s \in Condensed
        <3>1. {w[k] : k \in kids[s]} = {g[k] : k \in kids[s]}
            BY <1>0, <1>k, <2>1
        <3>2. w[s] = g[s]
            BY <1>0, <2>1
        <3> QED
            BY <1>0, <2>1, <3>1, <3>2 DEF Ranked
    <2>2. CASE s \notin Condensed
        BY <1>0, <2>2 DEF Ranked
    <2> QED
        BY <2>1, <2>2
<1>2. H(w)
    <2> HIDE DEF V
    <2>1. w = [s \in Summaries |-> w[s]]
        OBVIOUS
    <2> HIDE DEF w
    <2> QED
        BY <1>1, <2>1
<1>3. Height(kids) = CHOOSE h : H(h)
    BY DEF Height
<1> DEFINE h == Height(kids)
<1>4. H(h)
    <2> HIDE DEF H
    <2> QED
        BY <1>2, <1>3
<1>5. \A s \in Summaries : h[s] = V(h, s)
    <2> HIDE DEF V, h
    <2> QED
        BY <1>4
<1> HIDE DEF h, w, H
<1> DEFINE B == {s \in Early : h[s] # g[s]}
<1>6. B = {}
    <2>1. SUFFICES ASSUME B # {} PROVE FALSE
        OBVIOUS
    <2>2. PICK age : Aged(age, kids)
        BY HasAge
    <2>3. PICK s \in B : \A t \in B : age[s] <= age[t]
        BY <2>1, <2>2, Eldest DEF Aged
    <2>4. s \in Condensed
        BY <1>0, <1>5, <2>3 DEF Ranked
    <2>5. ASSUME NEW k \in kids[s] PROVE h[k] = g[k]
        <3>1. k \in Early /\ age[k] < age[s] /\ age[k] \in Nat /\ age[s] \in Nat
            BY <1>0, <1>k, <2>2, <2>4 DEF Aged
        <3> QED
            BY <2>3, <3>1
    <2>6. {h[k] : k \in kids[s]} = {g[k] : k \in kids[s]}
        BY <2>5
    <2>7. h[s] = g[s]
        BY <1>0, <1>5, <2>3, <2>4, <2>6 DEF Ranked
    <2> QED
        BY <2>3, <2>7
<1>7. \A s \in Later : h[s] = 0
    BY <1>0, <1>5
<1> QED
    BY <1>6, <1>7 DEF h

\* R relates a summary to what is below it, and maybe to more.
Covering(R, kids) ==
    \A s \in Condensed : \A k \in kids[s] : k \in R[s] /\ R[k] \subseteq R[s]

\* The recursion of Below has a solution: the least such relation.
LEMMA BelowIs ==
    ASSUME NEW kids, Grown(kids)
    PROVE  \A s \in Summaries :
              Below(kids)[s] = IF s \notin Condensed THEN {}
                               ELSE kids[s] \cup UNION {Below(kids)[k] : k \in kids[s]}
<1> DEFINE V(b, s) == IF s \notin Condensed THEN {}
                      ELSE kids[s] \cup UNION {b[k] : k \in kids[s]}
           H(b) == b = [s \in Summaries |-> V(b, s)]
           All == {R \in [Summaries -> SUBSET Summaries] : Covering(R, kids)}
           w == [s \in Summaries |->
                    IF s \in Condensed THEN {t \in Summaries : \A R \in All : t \in R[s]} ELSE {}]
           r == [s \in Summaries |-> V(w, s)]
<1>0. Condensed \subseteq Summaries /\ \A s \in Condensed : kids[s] \subseteq Summaries
    BY HasAge DEF Summaries, Early
<1>1. Covering(w, kids) /\ w \in [Summaries -> SUBSET Summaries]
    <2>1. ASSUME NEW s \in Condensed, NEW k \in kids[s]
          PROVE  k \in w[s] /\ w[k] \subseteq w[s]
        <3>1. \A R \in All : k \in R[s] /\ R[k] \subseteq R[s]
            BY DEF Covering
        <3> HIDE DEF All
        <3>2. k \in w[s]
            BY <1>0, <3>1
        <3>3. w[k] \subseteq w[s]
            BY <1>0, <3>1
        <3> QED
            BY <3>2, <3>3
    <2> QED
        BY <2>1 DEF Covering
<1>2. \A s \in Summaries : r[s] \subseteq w[s]
    <2> HIDE DEF w
    <2> QED
        BY <1>0, <1>1 DEF Covering
<1>3. r \in All
    <2>1. r \in [Summaries -> SUBSET Summaries]
        <3> HIDE DEF w
        <3> QED
            BY <1>0, <1>1
    <2>2. ASSUME NEW s \in Condensed, NEW k \in kids[s]
          PROVE  k \in r[s] /\ r[k] \subseteq r[s]
        <3>1. r[s] = kids[s] \cup UNION {w[j] : j \in kids[s]}
            BY <1>0
        <3>2. r[k] \subseteq w[k]
            BY <1>0, <1>2
        <3> HIDE DEF r, w
        <3> QED
            BY <3>1, <3>2
    <2> HIDE DEF r
    <2> QED
        BY <2>1, <2>2 DEF Covering
<1>4. \A s \in Summaries : w[s] \subseteq r[s]
    <2> HIDE DEF r, All
    <2> QED
        BY <1>3
<1>5. H(w)
    <2>1. \A s \in Summaries : w[s] = r[s]
        BY <1>2, <1>4
    <2>2. w = [s \in Summaries |-> w[s]]
        OBVIOUS
    <2>3. \A s \in Summaries : r[s] = V(w, s)
        OBVIOUS
    <2> HIDE DEF w, r, V
    <2> QED
        BY <2>1, <2>2, <2>3
<1>6. Below(kids) = CHOOSE b : H(b)
    BY DEF Below
<1> DEFINE b == Below(kids)
<1>7. H(b)
    <2> HIDE DEF H
    <2> QED
        BY <1>5, <1>6
<1> HIDE DEF b
<1>8. \A s \in Summaries : b[s] = V(b, s)
    <2> HIDE DEF V
    <2> QED
        BY <1>7
<1> QED
    BY <1>8 DEF b

\* What is below a summary was written before it.
LEMMA BelowOlder ==
    ASSUME NEW kids, Grown(kids), NEW age, Aged(age, kids)
    PROVE  \A s \in Early : /\ Below(kids)[s] \subseteq Early
                            /\ \A t \in Below(kids)[s] : age[t] < age[s]
<1> DEFINE b == Below(kids)
           Good(s) == b[s] \subseteq Early /\ \A t \in b[s] : age[t] < age[s]
           B == {s \in Early : ~Good(s)}
<1>0. \A s \in Condensed : kids[s] \subseteq Early
    BY HasAge
<1>1. \A s \in Early : b[s] = IF s \notin Condensed THEN {}
                              ELSE kids[s] \cup UNION {b[k] : k \in kids[s]}
    BY BelowIs DEF Summaries, Early
<1> HIDE DEF b
<1>2. B = {}
    <2>1. SUFFICES ASSUME B # {} PROVE FALSE
        OBVIOUS
    <2>3. PICK s \in B : \A t \in B : age[s] <= age[t]
        BY <2>1, Eldest DEF Aged
    <2>4. s \in Condensed /\ s \in Early
        BY <1>1, <2>3
    <2>5. ASSUME NEW k \in kids[s]
          PROVE  k \in Early /\ Good(k) /\ age[k] < age[s] /\ age[k] \in Nat /\ age[s] \in Nat
        <3>1. k \in Early /\ age[k] < age[s] /\ age[k] \in Nat /\ age[s] \in Nat
            BY <1>0, <2>4 DEF Aged
        <3> QED
            BY <2>3, <3>1
    <2>6. ASSUME NEW t \in b[s] PROVE t \in Early /\ age[t] < age[s]
        <3>1. t \in kids[s] \/ \E k \in kids[s] : t \in b[k]
            <4>1. b[s] = kids[s] \cup UNION {b[k] : k \in kids[s]}
                BY <1>1, <2>4
            <4> QED
                BY <4>1
        <3>2. ASSUME NEW k \in kids[s], t \in b[k] PROVE t \in Early /\ age[t] < age[s]
            <4>1. t \in Early /\ age[t] < age[k] /\ age[k] < age[s]
                  /\ age[k] \in Nat /\ age[s] \in Nat
                BY <2>5, <3>2
            <4>2. age[t] \in Nat
                BY <4>1 DEF Aged
            <4> QED
                BY <4>1, <4>2
        <3> QED
            BY <2>5, <3>1, <3>2
    <2> QED
        BY <2>3, <2>6
<1> QED
    BY <1>2 DEF b

\* The trees under two sources of a summary have nothing in common.
LEMMA BelowApart ==
    ASSUME NEW kids, Grown(kids), NEW s \in Condensed, NEW j \in kids[s], NEW k \in kids[s], j # k
    PROVE  ({j} \cup Below(kids)[j]) \cap ({k} \cup Below(kids)[k]) = {}
<1> DEFINE b == Below(kids)
           Tree(x) == {x} \cup b[x]
           B == Tree(j) \cap Tree(k)
<1>0. /\ \A t \in Condensed : kids[t] \subseteq Early
      /\ Condensed \subseteq Early
      /\ \A t, u \in Condensed : t # u => kids[t] \cap kids[u] = {}
    BY HasAge DEF Grown, Early
<1>1. \A t \in Early : b[t] = IF t \notin Condensed THEN {}
                              ELSE kids[t] \cup UNION {b[x] : x \in kids[t]}
    BY BelowIs DEF Summaries, Early
<1>2. PICK age : Aged(age, kids)
    BY HasAge
<1>3. \A t \in Early : b[t] \subseteq Early /\ \A u \in b[t] : age[u] < age[t]
    BY <1>2, BelowOlder
<1>4. \A t \in Early : age[t] \in Nat
    BY <1>2 DEF Aged
<1> HIDE DEF b
<1>5. j \in Early /\ k \in Early /\ s \in Early /\ age[j] < age[s] /\ age[k] < age[s]
    BY <1>0, <1>2 DEF Aged
\* Whatever is below x has its one parent in the tree of x.
<1>6. ASSUME NEW x \in Early, NEW t \in b[x], NEW p \in Condensed, t \in kids[p]
      PROVE  p \in Tree(x)
    <2> DEFINE Bad == {y \in Early : t \in b[y] /\ p \notin Tree(y)}
    <2>1. SUFFICES ASSUME Bad # {} PROVE FALSE
        BY <1>6
    <2>2. PICK y \in Bad : \A z \in Bad : age[y] <= age[z]
        <3>1. Bad \in SUBSET Early /\ age \in [Early -> Nat]
            BY <1>2 DEF Aged
        <3> QED
            BY <2>1, <3>1, Eldest
    <2>3. y \in Condensed
        BY <1>1, <2>2
    <2>4. b[y] = kids[y] \cup UNION {b[z] : z \in kids[y]}
        BY <1>1, <2>2, <2>3
    <2>5. t \notin kids[y]
        BY <1>0, <1>6, <2>2, <2>3
    <2>6. PICK z \in kids[y] : t \in b[z]
        BY <2>2, <2>4, <2>5
    <2>7. z \in Early /\ age[z] < age[y] /\ age[z] \in Nat /\ age[y] \in Nat
        BY <1>0, <1>2, <2>2, <2>3 DEF Aged
    <2>8. p \in Tree(z)
        BY <2>2, <2>6, <2>7
    <2>9. Tree(z) \subseteq b[y]
        BY <2>4
    <2> QED
        BY <2>2, <2>8, <2>9
\* Whatever is below x is a source.
<1>7. ASSUME NEW x \in Early, NEW t \in b[x] PROVE \E p \in Condensed : t \in kids[p]
    <2> DEFINE Bad == {y \in Early : t \in b[y]}
    <2>1. Bad \in SUBSET Early /\ Bad # {} /\ age \in [Early -> Nat]
        BY <1>2, <1>7 DEF Aged
    <2>2. PICK y \in Bad : \A z \in Bad : age[y] <= age[z]
        BY <2>1, Eldest
    <2>3. y \in Condensed
        BY <1>1, <2>2
    <2>4. b[y] = kids[y] \cup UNION {b[z] : z \in kids[y]}
        BY <1>1, <2>2, <2>3
    <2>5. ASSUME NEW z \in kids[y], t \in b[z] PROVE FALSE
        <3>1. z \in Early /\ age[z] < age[y] /\ age[z] \in Nat /\ age[y] \in Nat
            BY <1>0, <1>2, <2>2, <2>3 DEF Aged
        <3> QED
            BY <2>2, <2>5, <3>1
    <2> QED
        BY <2>2, <2>3, <2>4, <2>5
<1>8. s \notin Tree(j) /\ s \notin Tree(k)
    <2>1. ASSUME NEW x \in Early, age[x] < age[s], s \in Tree(x) PROVE FALSE
        <3>1. s = x \/ age[s] < age[x]
            BY <1>3, <2>1
        <3> QED
            BY <1>4, <1>5, <2>1, <3>1
    <2> QED
        BY <1>5, <2>1
<1>9. \A x \in kids[s] : \A p \in Condensed : x \in kids[p] => p = s
    BY <1>0
<1>10. ASSUME NEW x \in {j, k}, NEW y \in {j, k}, x # y, x \in Tree(y) PROVE FALSE
    <2>1. x \in b[y] /\ x \in kids[s] /\ y \in Early
        BY <1>5, <1>10
    <2>2. s \in Tree(y)
        BY <1>6, <2>1
    <2> QED
        BY <1>8, <2>2
\* Take a common element that was written last.
<1>11. B = {}
    <2>1. SUFFICES ASSUME B # {} PROVE FALSE
        OBVIOUS
    <2>2. B \subseteq Early /\ \A t \in B : t \in b[j] /\ t \in b[k]
        BY <1>3, <1>5, <1>10
    <2> DEFINE ages == {age[t] : t \in B}
    <2>3. ages \subseteq Nat /\ ages # {}
        BY <1>4, <2>1, <2>2
    <2>4. IsFiniteSet(ages)
        <3>1. IsFiniteSet(B)
            BY <2>2, EarlyFinite, FS_Subset
        <3> HIDE DEF B
        <3> QED
            BY <3>1, ImageFinite
    <2>5. Max(ages) \in ages /\ \A n \in ages : n <= Max(ages)
        <3> HIDE DEF ages
        <3> QED
            BY <2>3, <2>4, MaxFacts
    <2>6. PICK t \in B : \A u \in B : age[u] <= age[t]
        BY <2>5
    <2>7. t \in b[j] /\ t \in b[k] /\ t \in Early
        BY <2>2
    <2>8. PICK p \in Condensed : t \in kids[p]
        BY <1>5, <1>7, <2>7
    <2>9. p \in B
        BY <1>5, <1>6, <2>7, <2>8
    <2>10. age[t] < age[p] /\ age[p] <= age[t] /\ age[t] \in Nat /\ age[p] \in Nat
        BY <1>2, <1>4, <2>2, <2>6, <2>7, <2>8, <2>9 DEF Aged
    <2> QED
        BY <2>10
<1> QED
    BY <1>11 DEF b

\* Sets without common elements: the size of their union is the sum of theirs.
LEMMA UnionCounts ==
    ASSUME NEW S, IsFiniteSet(S), NEW G, \A x \in S : IsFiniteSet(G[x]),
           \A x, y \in S : x # y => G[x] \cap G[y] = {}
    PROVE  LET F == [x \in S |-> Cardinality(G[x])]
               U == UNION {G[x] : x \in S}
           IN  IsFiniteSet(U) /\ Cardinality(U) = SumOf(F, S)
<1> DEFINE F == [x \in S |-> Cardinality(G[x])]
           U(T) == UNION {G[x] : x \in T}
           Good(T) == IsFiniteSet(U(T)) /\ Cardinality(U(T)) = SumOf(F, T)
           B == {T \in SUBSET S : ~Good(T)}
<1>0. \A x \in S : F[x] \in Nat /\ F[x] = Cardinality(G[x])
    BY FS_CardinalityType
<1> HIDE DEF F
<1>1. SUFFICES ASSUME B # {} PROVE FALSE
    BY DEF F
<1>2. PICK T \in B : \A V \in B : Cardinality(T) <= Cardinality(V)
    <2>1. B \subseteq SUBSET S
        OBVIOUS
    <2> HIDE DEF B
    <2> QED
        BY <1>1, <2>1, SmallestSet
<1>3. T # {}
    <2>1. SUFFICES ASSUME T = {} PROVE FALSE
        OBVIOUS
    <2>2. U(T) = {}
        BY <2>1
    <2>3. SumOf(F, T) = 0
        BY <2>1, SumEmpty
    <2> QED
        BY <1>2, <2>2, <2>3, FS_EmptySet
<1>4. PICK x \in T : TRUE
    BY <1>3
<1> DEFINE t == T \ {x}
<1>5. IsFiniteSet(T) /\ IsFiniteSet(t) /\ T \subseteq S
    BY <1>2, FS_Subset
<1>6. Good(t)
    <2>1. Cardinality(T) \in Nat /\ Cardinality(t) = Cardinality(T) - 1
        BY <1>5, <1>4, FS_RemoveElement, FS_CardinalityType
    <2>2. t \in SUBSET S /\ t \notin B
        <3> HIDE DEF Good
        <3> QED
            BY <2>1, <1>2, <1>5
    <2> QED
        BY <2>2
<1>7. U(T) = U(t) \cup G[x] /\ U(t) \cap G[x] = {}
    BY <1>4, <1>5
<1>8. IsFiniteSet(G[x]) /\ x \in S
    BY <1>4, <1>5
<1>9. t \cup {x} = T /\ x \notin t /\ (\A y \in t \cup {x} : F[y] \in Int)
    BY <1>0, <1>4, <1>5
<1> HIDE DEF t
<1>10. SumOf(F, T) = F[x] + SumOf(F, t)
    BY <1>5, <1>9, SumAdd
<1> DEFINE W == U(t)
<1>11. IsFiniteSet(W) /\ Cardinality(W) = SumOf(F, t) /\ U(T) = W \cup G[x] /\ W \cap G[x] = {}
    BY <1>6, <1>7
<1> HIDE DEF W, U
<1>12. IsFiniteSet(W \cup G[x])
    BY <1>8, <1>11, FS_Union
<1>13. Cardinality(W \cup G[x]) = Cardinality(W) + Cardinality(G[x]) - Cardinality(W \cap G[x])
    BY <1>8, <1>11, FS_Union
<1>14. Cardinality(W \cap G[x]) = 0
    BY <1>11, FS_EmptySet
<1>15. Cardinality(W) \in Nat /\ Cardinality(G[x]) \in Nat
    BY <1>8, <1>11, FS_CardinalityType
<1>16. Cardinality(W \cup G[x]) = SumOf(F, T)
    BY <1>0, <1>8, <1>10, <1>11, <1>13, <1>14, <1>15
<1> QED
    BY <1>2, <1>11, <1>12, <1>16

\* descendant_count: one for each source and what is below it.
LEMMA BelowCounts ==
    ASSUME NEW kids, Grown(kids), NEW s \in Condensed
    PROVE  LET F == [k \in kids[s] |-> Cardinality(Below(kids)[k]) + 1]
           IN  /\ IsFiniteSet(Below(kids)[s])
               /\ \A k \in kids[s] : F[k] \in Nat
               /\ Cardinality(Below(kids)[s]) = SumOf(F, kids[s])
<1> DEFINE b == Below(kids)
           K == kids[s]
           F == [k \in K |-> Cardinality(b[k]) + 1]
           G == [k \in K |-> {k} \cup b[k]]
           E == [k \in K |-> Cardinality(G[k])]
<1>0. K \subseteq Early /\ IsFiniteSet(K) /\ s \in Early /\ s \in Summaries
    BY HasAge DEF Early, Summaries
<1>1. b[s] = K \cup UNION {b[k] : k \in K}
    BY <1>0, BelowIs
<1>2. PICK age : Aged(age, kids)
    BY HasAge
<1>3. \A t \in Early : b[t] \subseteq Early /\ \A u \in b[t] : age[u] < age[t]
    BY <1>2, BelowOlder
<1>4. \A j, k \in K : j # k => G[j] \cap G[k] = {}
    BY BelowApart
<1>g. \A k \in K : G[k] = {k} \cup b[k]
    OBVIOUS
<1> HIDE DEF b, G
<1>f. \A k \in K : F[k] = Cardinality(b[k]) + 1 /\ E[k] = Cardinality(G[k])
    OBVIOUS
<1>5. ASSUME NEW k \in K
      PROVE IsFiniteSet(b[k]) /\ IsFiniteSet(G[k]) /\ F[k] = E[k] /\ F[k] \in Nat
    <2>1. IsFiniteSet(b[k])
        BY <1>0, <1>3, EarlyFinite, FS_Subset
    <2>2. k \notin b[k]
        <3>1. age[k] \in Nat /\ k \in Early
            BY <1>0, <1>2 DEF Aged
        <3> QED
            BY <1>3, <3>1
    <2>3. G[k] = b[k] \cup {k}
        BY <1>g
    <2>4. IsFiniteSet(b[k] \cup {k}) /\ Cardinality(b[k] \cup {k}) = Cardinality(b[k]) + 1
        BY <2>1, <2>2, FS_AddElement
    <2>5. Cardinality(b[k]) \in Nat
        BY <2>1, FS_CardinalityType
    <2>6. Cardinality(G[k]) = Cardinality(b[k]) + 1 /\ IsFiniteSet(G[k])
        BY <2>3, <2>4
    <2>7. F[k] = Cardinality(b[k]) + 1 /\ E[k] = Cardinality(G[k])
        BY <1>f
    <2> HIDE DEF F, E, K
    <2> QED
        BY <2>1, <2>5, <2>6, <2>7
<1>6. b[s] = UNION {G[k] : k \in K}
    <2>1. ASSUME NEW x \in b[s] PROVE x \in UNION {G[k] : k \in K}
        BY <1>1, <1>g, <2>1
    <2>2. ASSUME NEW k \in K PROVE G[k] \subseteq b[s]
        BY <1>1, <1>g
    <2> QED
        BY <2>1, <2>2
<1>7. IsFiniteSet(b[s]) /\ Cardinality(b[s]) = SumOf(E, K)
    <2>1. IsFiniteSet(UNION {G[k] : k \in K})
          /\ Cardinality(UNION {G[k] : k \in K}) = SumOf([k \in K |-> Cardinality(G[k])], K)
        <3>1. \A k \in K : IsFiniteSet(G[k])
            BY <1>5
        <3> HIDE DEF K
        <3> QED
            BY <1>0, <1>4, <3>1, UnionCounts
    <2> QED
        BY <1>6, <2>1
<1>8. SumOf(F, K) = SumOf(E, K)
    <2> HIDE DEF F, E, K
    <2> QED
        BY <1>0, <1>5, SumSame
<1> QED
    BY <1>5, <1>7, <1>8 DEF b

-----------------------------------------------------------------------------
(* Shallow summaries first.                                                *)

\* o lists S by depth.
Lists(o, d, S) ==
    /\ o \in [1 .. Cardinality(S) -> S]
    /\ IsInjective(o)
    /\ \A i, j \in DOMAIN o : i < j => d.summ[o[i]].depth <= d.summ[o[j]].depth

\* There is such a list.
LEMMA ListExists ==
    ASSUME NEW d, NEW S, IsFiniteSet(S), \A s \in S : d.summ[s].depth \in Nat
    PROVE  \E o : Lists(o, d, S)
<1> DEFINE D == [s \in S |-> d.summ[s].depth]
           Good(T) == \E o : Lists(o, d, T)
           B == {T \in SUBSET S : ~Good(T)}
<1>0. \A s \in S : D[s] \in Nat /\ D[s] = d.summ[s].depth
    OBVIOUS
<1> HIDE DEF D
<1>1. SUFFICES ASSUME B # {} PROVE FALSE
    OBVIOUS
<1>2. PICK T \in B : \A V \in B : Cardinality(T) <= Cardinality(V)
    <2>1. B \subseteq SUBSET S
        OBVIOUS
    <2> HIDE DEF B
    <2> QED
        BY <1>1, <2>1, SmallestSet
<1>3. IsFiniteSet(T) /\ T \subseteq S /\ Cardinality(T) \in Nat
    BY <1>2, FS_Subset, FS_CardinalityType
<1>4. T # {}
    <2>1. SUFFICES ASSUME T = {} PROVE FALSE
        OBVIOUS
    <2>2. Cardinality(T) = 0
        BY <2>1, FS_EmptySet
    <2>3. 1 .. Cardinality(T) = {}
        BY <2>2
    <2> DEFINE o == [i \in 1 .. Cardinality(T) |-> i]
    <2>4. Lists(o, d, T)
        BY <2>3 DEF Lists, IsInjective
    <2> QED
        BY <1>2, <2>4
<1> DEFINE V == {D[s] : s \in T}
<1>5. IsFiniteSet(V) /\ V \subseteq Nat /\ V # {}
    BY <1>0, <1>3, <1>4, ImageFinite
<1>6. Max(V) \in V /\ \A n \in V : n <= Max(V)
    <2> HIDE DEF V
    <2> QED
        BY <1>5, MaxFacts
<1>7. PICK x \in T : \A s \in T : D[s] <= D[x]
    BY <1>6
<1> DEFINE t == T \ {x}
           n == Cardinality(T)
<1>8. IsFiniteSet(t) /\ Cardinality(t) = n - 1 /\ n \in Nat \ {0}
    BY <1>3, <1>4, <1>7, FS_Subset, FS_RemoveElement, FS_EmptySet
<1>9. Good(t)
    <2>1. t \in SUBSET S /\ t \notin B
        <3> HIDE DEF Good
        <3> QED
            BY <1>2, <1>3, <1>8
    <2> QED
        BY <2>1
<1>10. PICK o : Lists(o, d, t)
    BY <1>9
<1> DEFINE p == [i \in 1 .. n |-> IF i = n THEN x ELSE o[i]]
<1> HIDE DEF n
<1>11. DOMAIN o = 1 .. n - 1 /\ \A i \in 1 .. n - 1 : o[i] \in T /\ o[i] # x
    BY <1>8, <1>10 DEF Lists
<1>12. p \in [1 .. n -> T]
    BY <1>7, <1>8, <1>11
<1>13. \A i \in 1 .. n : i # n => i \in 1 .. n - 1
    BY <1>8
<1>14. IsInjective(p)
    <2>1. ASSUME NEW i \in 1 .. n, NEW j \in 1 .. n, p[i] = p[j] PROVE i = j
        <3>1. CASE i = n \/ j = n
            BY <1>11, <1>13, <2>1, <3>1
        <3>2. CASE i # n /\ j # n
            BY <1>10, <1>11, <1>13, <2>1, <3>2 DEF Lists, IsInjective
        <3> QED
            BY <3>1, <3>2
    <2> QED
        BY <2>1 DEF IsInjective
<1>15. ASSUME NEW i \in 1 .. n, NEW j \in 1 .. n, i < j
       PROVE  d.summ[p[i]].depth <= d.summ[p[j]].depth
    <2>1. i # n /\ i \in 1 .. n - 1
        BY <1>8, <1>15
    <2>2. CASE j = n
        <3>1. p[j] = x /\ p[i] \in T
            BY <1>12, <2>2
        <3>2. D[p[i]] <= D[x]
            BY <1>7, <3>1
        <3> QED
            BY <1>0, <1>3, <1>7, <3>1, <3>2
    <2>3. CASE j # n
        <3>1. p[i] = o[i] /\ p[j] = o[j] /\ j \in 1 .. n - 1
            BY <1>13, <2>1, <2>3
        <3> QED
            BY <1>10, <1>11, <1>15, <2>1, <3>1 DEF Lists
    <2> QED
        BY <2>2, <2>3
<1>16. Lists(p, d, T)
    <2>1. DOMAIN p = 1 .. n
        OBVIOUS
    <2> HIDE DEF p
    <2> QED
        BY <1>12, <1>14, <1>15, <2>1 DEF Lists, n
<1> QED
    BY <1>2, <1>16

\* ByDepth returns one, and it has every summary.
LEMMA ByDepthIs ==
    ASSUME NEW d, NEW S, IsFiniteSet(S), \A s \in S : d.summ[s].depth \in Nat
    PROVE  /\ Lists(ByDepth(d, S), d, S)
           /\ \A s \in S : \E i \in 1 .. Cardinality(S) : ByDepth(d, S)[i] = s
<1> DEFINE o == ByDepth(d, S)
           n == Cardinality(S)
<1>1. Lists(o, d, S)
    BY ListExists DEF ByDepth, Lists
<1>2. n \in Nat
    BY FS_CardinalityType
<1>3. IsFiniteSet(1 .. n) /\ Cardinality(1 .. n) = n
    BY <1>2, FS_Interval
<1> HIDE DEF o
<1>4. o \in Injection(1 .. n, S)
    BY <1>1 DEF Lists, Injection
<1>5. o \in Surjection(1 .. n, S)
    BY <1>3, <1>4, FS_Injection
<1> QED
    BY <1>1, <1>5 DEF Surjection, o

-----------------------------------------------------------------------------
(* Counting.                                                               *)

\* A fold of sources that were counted is the sum over them.
LEMMA DescendantsAdd ==
    ASSUME NEW c, NEW S, IsFiniteSet(S), \A k \in S : c[k] \in Int
    PROVE  MapThenSumSet(LAMBDA k : c[k] + 1, S) = SumOf([k \in S |-> c[k] + 1], S)
<1> DEFINE F == [k \in S |-> c[k] + 1]
<1>1. \A k \in S : F[k] = c[k] + 1
    OBVIOUS
<1>7. \A x \in S : F[x] \in Int
    BY <1>1
<1>2. PICK g : Adds(g, F, S)
    BY <1>7, SumsExist
<1> HIDE DEF F
<1>3. ASSUME NEW h
      PROVE  Adds(h, F, S) <=>
             h = [s \in SUBSET S |->
                     IF s = {} THEN 0
                     ELSE c[CHOOSE x \in s : TRUE] + 1
                          + h[s \ {CHOOSE x \in s : TRUE}]]
    <2>1. \A s \in SUBSET S : s # {} =>
              F[CHOOSE x \in s : TRUE] = c[CHOOSE x \in s : TRUE] + 1
        BY <1>1
    <2>2. [s \in SUBSET S |->
              IF s = {} THEN 0
              ELSE F[CHOOSE x \in s : TRUE] + h[s \ {CHOOSE x \in s : TRUE}]]
          = [s \in SUBSET S |->
              IF s = {} THEN 0
              ELSE c[CHOOSE x \in s : TRUE] + 1
                   + h[s \ {CHOOSE x \in s : TRUE}]]
        BY <2>1
    <2> QED
        BY <2>2 DEF Adds
<1>4. g = [s \in SUBSET S |->
              IF s = {} THEN 0
              ELSE c[CHOOSE x \in s : TRUE] + 1
                   + g[s \ {CHOOSE x \in s : TRUE}]]
    BY <1>2, <1>3
<1>5. \E h : /\ h = [s \in SUBSET S |->
                      IF s = {} THEN 0
                      ELSE c[CHOOSE x \in s : TRUE] + 1
                           + h[s \ {CHOOSE x \in s : TRUE}]]
             /\ MapThenSumSet(LAMBDA k : c[k] + 1, S) = h[S]
    BY <1>4 DEF MapThenSumSet, MapThenFoldSet
<1>6. IsSum(MapThenSumSet(LAMBDA k : c[k] + 1, S), F, S)
    BY <1>3, <1>5 DEF IsSum
<1> QED
    BY <1>6, <1>7, SumOfIs DEF F

\* The database as it is found, with depths that grow from a source to its
\* summary.
Deep(d) ==
    /\ Whole(d)
    /\ \A s \in Early : d.summ[s].depth \in Nat
    /\ \A s \in Condensed : \A k \in d.kids[s] : d.summ[k].depth < d.summ[s].depth

\* f is the sequence of counts over the summaries listed in o.
Counts(f, d, o) ==
    f = [n \in 0 .. Cardinality(LiveSummaries(d)) |->
            IF n = 0 THEN <<>>
            ELSE Put(f[n - 1], o[n], Descendants(d, o[n], f[n - 1]))]

\* There is one.
LEMMA CountsExist ==
    ASSUME NEW d, NEW o, IsFiniteSet(LiveSummaries(d))
    PROVE  \E f : Counts(f, d, o)
<1> DEFINE N == Cardinality(LiveSummaries(d))
           Value(g, n) == IF n = 0 THEN <<>>
                          ELSE Put(g[n - 1], o[n], Descendants(d, o[n], g[n - 1]))
           Good(m) == \E g : /\ g = [n \in 0 .. N |-> g[n]]
                             /\ \A n \in 0 .. N : n <= m => g[n] = Value(g, n)
           Bad == {m \in Nat : ~Good(m)}
<1>0. N \in Nat
    BY FS_CardinalityType
<1>1. ASSUME NEW g, NEW h, NEW n, n # 0 => g[n - 1] = h[n - 1]
      PROVE  Value(g, n) = Value(h, n)
    BY <1>1
<1> HIDE DEF Value, N
<1>2. Good(0)
    <2> DEFINE g == [n \in 0 .. N |-> Value(<<>>, 0)]
    <2>1. \A n \in 0 .. N : n <= 0 => n = 0
        BY <1>0
    <2>2. g[0] = Value(g, 0)
        BY <1>0, <1>1
    <2>3. g = [n \in 0 .. N |-> g[n]]
        OBVIOUS
    <2> QED
        BY <2>1, <2>2, <2>3
<1>3. ASSUME NEW m \in Nat, Good(m) PROVE Good(m + 1)
    <2>1. PICK g : /\ g = [n \in 0 .. N |-> g[n]]
                   /\ \A n \in 0 .. N : n <= m => g[n] = Value(g, n)
        BY <1>3
    <2> DEFINE h == [n \in 0 .. N |-> IF n <= m THEN g[n] ELSE Value(g, n)]
    <2>2. ASSUME NEW n \in 0 .. N, n <= m + 1 PROVE h[n] = Value(h, n)
        <3>1. h[n] = Value(g, n)
            BY <2>1
        <3>2. n # 0 => g[n - 1] = h[n - 1]
            BY <1>0, <2>2
        <3>3. Value(g, n) = Value(h, n)
            BY <3>2, <1>1
        <3> QED
            BY <3>1, <3>3
    <2>3. h = [n \in 0 .. N |-> h[n]]
        OBVIOUS
    <2> HIDE DEF h
    <2> QED
        BY <2>2, <2>3
<1> HIDE DEF Good
<1>4. Bad = {}
    <2>1. SUFFICES ASSUME Bad # {} PROVE FALSE
        OBVIOUS
    <2>2. PICK n \in Bad : \A m \in Bad : n <= m
        BY <2>1, LeastNat
    <2>3. n # 0
        BY <1>2, <2>2
    <2>4. n - 1 \in Nat /\ n - 1 \notin Bad
        BY <2>2, <2>3
    <2>5. Good(n - 1 + 1)
        BY <2>4, <1>3
    <2> QED
        BY <2>5, <2>2
<1>5. PICK g : /\ g = [n \in 0 .. N |-> g[n]]
               /\ \A n \in 0 .. N : n <= N => g[n] = Value(g, n)
    BY <1>0, <1>4 DEF Good
<1>6. \A n \in 0 .. N : g[n] = Value(g, n)
    BY <1>0, <1>5
<1>7. g = [n \in 0 .. N |-> Value(g, n)]
    BY <1>5, <1>6
<1> QED
    BY <1>7 DEF Value, N, Counts

\* One more is counted: its sources were before it.
LEMMA CountStep ==
    ASSUME NEW d, Deep(d), NEW o, Lists(o, d, Early),
           \A s \in Early : \E i \in 1 .. Cardinality(Early) : o[i] = s,
           NEW n \in 1 .. Cardinality(Early), NEW c,
           DOMAIN c = {o[i] : i \in 1 .. n - 1},
           \A s \in DOMAIN c : c[s] = Cardinality(Below(d.kids)[s])
    PROVE  Descendants(d, o[n], c) = Cardinality(Below(d.kids)[o[n]])
<1> DEFINE s == o[n]
           b == Below(d.kids)
           N == Cardinality(Early)
<1>0. N \in Nat /\ n \in 1 .. N /\ s \in Early /\ s \in Summaries /\ Grown(d.kids)
    BY EarlyFinite, FS_CardinalityType DEF Lists, Deep, Whole, Early, Summaries
<1>1. CASE s \notin Condensed
    <2>1. b[s] = {}
        BY <1>0, <1>1, BelowIs
    <2> QED
        BY <1>1, <2>1, FS_EmptySet DEF Descendants
<1>2. CASE s \in Condensed
    <2> DEFINE K == d.kids[s]
               F == [k \in K |-> Cardinality(b[k]) + 1]
               G == [k \in K |-> c[k] + 1]
    <2>1. ASSUME NEW k \in K PROVE k \in DOMAIN c
        <3>1. k \in Early
            BY <1>0, <1>2, HasAge
        <3>2. PICK i \in 1 .. N : o[i] = k
            BY <3>1
        <3>3. /\ d.summ[k].depth < d.summ[s].depth
              /\ d.summ[k].depth \in Nat /\ d.summ[s].depth \in Nat
            BY <1>0, <1>2, <3>1 DEF Deep
        <3>4. ~(n < i)
            <4>1. n < i => d.summ[o[n]].depth <= d.summ[o[i]].depth
                BY <1>0, <3>2 DEF Lists
            <4> QED
                BY <3>2, <3>3, <4>1
        <3>5. i # n
            BY <3>2, <3>3
        <3>6. i \in 1 .. n - 1
            BY <1>0, <3>2, <3>4, <3>5
        <3> QED
            BY <3>2, <3>6
    <2>2. K \cap DOMAIN c = K /\ IsFiniteSet(K)
        BY <1>0, <1>2, <2>1, HasAge
    <2>3. /\ \A k \in K : F[k] \in Nat
          /\ Cardinality(b[s]) = SumOf(F, K)
        BY <1>0, <1>2, BelowCounts
    <2>4. \A k \in K : F[k] = G[k] /\ F[k] = c[k] + 1
        BY <2>1
    <2>5. \A k \in K : c[k] \in Int
        <3>1. \A k \in Early : Cardinality(b[k]) \in Nat
            <4> TAKE k \in Early
            <4>1. PICK age : Aged(age, d.kids)
                BY <1>0, HasAge
            <4>2. b[k] \subseteq Early
                BY <1>0, <4>1, BelowOlder
            <4> QED
                BY <4>2, EarlyFinite, FS_Subset, FS_CardinalityType
        <3> QED
            BY <1>0, <1>2, <2>1, <3>1, HasAge
    <2> DEFINE D == Descendants(d, s, c)
    <2>6. D = MapThenSumSet(LAMBDA k : c[k] + 1, K)
        <3>1. D = MapThenSumSet(LAMBDA k : c[k] + 1, K \cap DOMAIN c)
            BY <1>2 DEF Descendants
        <3> QED
            BY <2>2, <3>1
    <2> HIDE DEF K, b, D
    <2>7. D = SumOf(G, K)
        BY <2>2, <2>5, <2>6, DescendantsAdd
    <2> HIDE DEF F, G
    <2>8. SumOf(F, K) = SumOf(G, K)
        BY <2>2, <2>3, <2>4, SumSame
    <2> QED
        BY <2>3, <2>7, <2>8 DEF D, b
<1> QED
    BY <1>1, <1>2

\* The counts written are the numbers of summaries below.
LEMMA CountsTrue ==
    ASSUME NEW d, Deep(d), NEW o, Lists(o, d, Early),
           \A s \in Early : \E i \in 1 .. Cardinality(Early) : o[i] = s,
           NEW f, Counts(f, d, o)
    PROVE  \A s \in Early : f[Cardinality(Early)][s] = Cardinality(Below(d.kids)[s])
<1> DEFINE N == Cardinality(Early)
           b == Below(d.kids)
           Good(n) == /\ DOMAIN f[n] = {o[i] : i \in 1 .. n}
                      /\ \A s \in DOMAIN f[n] : f[n][s] = Cardinality(b[s])
           Bad == {n \in 0 .. N : ~Good(n)}
<1>0. N \in Nat /\ LiveSummaries(d) = Early
    BY EarlyFinite, FS_CardinalityType, WholeFacts DEF Deep
<1>1. /\ f[0] = <<>>
      /\ \A n \in 1 .. N : f[n] = Put(f[n - 1], o[n], Descendants(d, o[n], f[n - 1]))
    BY <1>0 DEF Counts
<1>2. Good(0)
    BY <1>1
<1>3. ASSUME NEW n \in 1 .. N, Good(n - 1) PROVE Good(n)
    <2> DEFINE c == f[n - 1]
    <2>1. DOMAIN c = {o[i] : i \in 1 .. n - 1} /\ \A s \in DOMAIN c : c[s] = Cardinality(b[s])
        BY <1>3
    <2>2. Descendants(d, o[n], c) = Cardinality(b[o[n]])
        BY <2>1, CountStep
    <2>3. f[n] = Put(c, o[n], Cardinality(b[o[n]]))
        BY <1>1, <2>2
    <2> HIDE DEF c, b
    <2>4. DOMAIN f[n] = DOMAIN c \cup {o[n]}
          /\ \A s \in DOMAIN f[n] : f[n][s] = Cardinality(b[s])
        BY <2>1, <2>3 DEF Put
    <2>5. \A i : i \in 1 .. n <=> (i \in 1 .. n - 1 \/ i = n)
        BY <1>0
    <2>6. {o[i] : i \in 1 .. n} = {o[i] : i \in 1 .. n - 1} \cup {o[n]}
        BY <2>5
    <2> QED
        BY <2>1, <2>4, <2>6
<1> HIDE DEF Good
<1>5. Bad = {}
    <2>1. SUFFICES ASSUME Bad # {} PROVE FALSE
        OBVIOUS
    <2>2. PICK n \in Bad : \A m \in Bad : n <= m
        <3>1. Bad \subseteq Nat
            BY <1>0
        <3> QED
            BY <2>1, <3>1, LeastNat
    <2>3. n # 0
        BY <1>2, <2>2
    <2>4. n \in 1 .. N /\ n - 1 \in 0 .. N /\ n - 1 \notin Bad
        BY <1>0, <2>2, <2>3
    <2>5. Good(n)
        BY <2>4, <1>3
    <2> QED
        BY <2>5, <2>2
<1>6. Good(N)
    BY <1>0, <1>5
<1> QED
    BY <1>6 DEF Good

\* _backfill_summary_metadata: what it writes.
LEMMA MetadataIs ==
    ASSUME NEW d, Deep(d)
    PROVE  \E counted :
              /\ \A s \in Early : counted[s] = Cardinality(Below(d.kids)[s])
              /\ BackfillSummaryMetadata(d) =
                    [d EXCEPT !.summ = [s \in Summaries |->
                        IF d.summ[s].live THEN [d.summ[s] EXCEPT !.count = counted[s]]
                        ELSE d.summ[s]]]
<1> DEFINE L == LiveSummaries(d)
           o == ByDepth(d, L)
           N == Cardinality(L)
           f == CHOOSE counts : counts = [n \in 0 .. N |->
                    IF n = 0 THEN <<>>
                    ELSE Put(counts[n - 1], o[n], Descendants(d, o[n], counts[n - 1]))]
<1>1. L = Early /\ IsFiniteSet(L)
    BY WholeFacts, EarlyFinite DEF Deep
<1>2. Counts(f, d, o)
    <2>1. \E g : Counts(g, d, o)
        BY <1>1, CountsExist
    <2> HIDE DEF o
    <2> QED
        BY <2>1 DEF Counts
<1>3. BackfillSummaryMetadata(d) =
         [d EXCEPT !.summ = [s \in Summaries |->
              IF d.summ[s].live THEN [d.summ[s] EXCEPT !.count = f[N][s]] ELSE d.summ[s]]]
    BY DEF BackfillSummaryMetadata
<1> HIDE DEF f, N
<1>4. /\ Lists(o, d, Early)
      /\ \A s \in Early : \E i \in 1 .. Cardinality(Early) : o[i] = s
    BY <1>1, ByDepthIs DEF Deep
<1> HIDE DEF o, L
<1>5. \A s \in Early : f[N][s] = Cardinality(Below(d.kids)[s])
    BY <1>1, <1>2, <1>4, CountsTrue DEF N
<1> QED
    BY <1>3, <1>5

-----------------------------------------------------------------------------
(* What a database derives.                                                *)

\* Depth and descendant_count are those of the trees.
DerivedAt(d) ==
    \A s \in LiveSummaries(d) :
        /\ d.summ[s].depth = Height(d.kids)[s]
        /\ d.summ[s].count = Cardinality(Below(d.kids)[s])

\* The summaries found are there, in their conversation, or all are deleted.
Rooted(d) ==
    /\ Grown(d.kids)
    /\ \/ \A s \in Early : d.summ[s].live /\ d.summ[s].conv = Home
       \/ \A s \in Early : ~d.summ[s].live

\* The index holds nothing before it is created, and the texts after it.
FtsExact(d) ==
    /\ "fts" \notin d.tables => DOMAIN d.fts = {}
    /\ \A s \in DOMAIN d.fts \cap LiveSummaries(d) : d.fts[s] = d.summ[s].content

\* The versioned steps of the ladder.
Ladder == {"backfillSummaryDepths", "backfillSummaryMetadata", "backfillToolCallColumns"}

\* A database no process has migrated, and one some process has.
Raw(d) == "v41" \notin d.columns /\ Whole(d)
Laddered(d) == Ladder \subseteq d.ledger /\ "v41" \in d.columns /\ DerivedAt(d)

\* What every database that a step writes satisfies.
DataKept(d) ==
    /\ Rooted(d) /\ FtsExact(d)
    /\ d.ledger = {} => Raw(d)
    /\ d.ledger # {} => Laddered(d)

\* Every tree has heights.
LEMMA HeightsExist ==
    ASSUME NEW kids, Grown(kids)
    PROVE  \E g : Ranked(g, kids) /\ DOMAIN g = Early
<1> DEFINE d == [kids |-> kids, summ |-> [s \in Summaries |-> [live |-> s \in Early, conv |-> Home]]]
<1>1. Whole(d)
    <2>1. d.kids = kids /\ \A s \in Summaries : d.summ[s].live = (s \in Early) /\ d.summ[s].conv = Home
        OBVIOUS
    <2> HIDE DEF d
    <2>2. Early \subseteq Summaries /\ Later \subseteq Summaries /\ \A s \in Later : s \notin Early
        BY EarlyFinite DEF Summaries, Early
    <2> QED
        BY <2>1, <2>2 DEF Whole
<1>2. d.kids = kids
    OBVIOUS
<1> HIDE DEF d
<1> QED
    BY <1>1, <1>2, DepthsSettled

\* A height is a number, larger than those of the sources; a summary written
\* later has nothing below it.
LEMMA HeightFacts ==
    ASSUME NEW kids, Grown(kids)
    PROVE  /\ \A s \in Summaries : Height(kids)[s] \in Nat
           /\ \A s \in Condensed : \A k \in kids[s] : Height(kids)[k] < Height(kids)[s]
           /\ \A s \in Later : Height(kids)[s] = 0 /\ Cardinality(Below(kids)[s]) = 0
<1>1. PICK g : Ranked(g, kids) /\ DOMAIN g = Early
    BY HeightsExist
<1>2. /\ \A s \in Early : Height(kids)[s] = g[s]
      /\ \A s \in Later : Height(kids)[s] = 0
    BY <1>1, HeightIs
<1>3. Summaries = Early \cup Later /\ Condensed \subseteq Early
    BY DEF Summaries, Early
<1>4. \A s \in Summaries : Height(kids)[s] \in Nat
    BY <1>1, <1>2, <1>3 DEF Ranked
<1>5. ASSUME NEW s \in Condensed, NEW k \in kids[s] PROVE g[k] < g[s]
    <2> DEFINE K == kids[s]
               M == Max({0} \cup {g[x] : x \in K})
    <2>1. K \subseteq Early /\ IsFiniteSet(K)
        BY HasAge
    <2>2. \A x \in K : g[x] \in Nat
        BY <1>1, <2>1 DEF Ranked
    <2>3. M \in Nat /\ \A x \in K : g[x] <= M
        BY <2>1, <2>2, LargestDepth
    <2>4. g[s] = 1 + M
        BY <1>1, <1>3 DEF Ranked
    <2> HIDE DEF M
    <2> QED
        BY <2>2, <2>3, <2>4
<1>6. \A s \in Condensed : \A k \in kids[s] : Height(kids)[k] < Height(kids)[s]
    BY <1>2, <1>3, <1>5, HasAge
<1>7. \A s \in Later : Cardinality(Below(kids)[s]) = 0
    <2> TAKE s \in Later
    <2>1. s \in Summaries /\ s \notin Condensed
        BY <1>3, EarlyFinite
    <2>2. Below(kids)[s] = {}
        BY <2>1, BelowIs
    <2> QED
        BY <2>2, FS_EmptySet
<1> QED
    BY <1>2, <1>4, <1>6, <1>7

-----------------------------------------------------------------------------
(* The ladder.                                                             *)

\* A step of the ladder that leaves the summaries alone.
SameData(d, e) ==
    /\ e.kids = d.kids /\ e.ledger = d.ledger /\ e.columns = d.columns
    /\ \A s \in Summaries :
          /\ e.summ[s].live = d.summ[s].live
          /\ e.summ[s].conv = d.summ[s].conv
          /\ e.summ[s].content = d.summ[s].content
          /\ e.summ[s].depth = d.summ[s].depth
          /\ e.summ[s].count = d.summ[s].count
    /\ FtsExact(d) => FtsExact(e)

\* One such step after another.
LEMMA SameDataTransitive ==
    ASSUME NEW c, NEW d, NEW e, SameData(c, d), SameData(d, e)
    PROVE  SameData(c, e)
BY DEF SameData

\* A step that does not touch the index, the summaries or the ledger.
LEMMA SameDataTables ==
    ASSUME NEW d, NEW e,
           e.kids = d.kids, e.ledger = d.ledger, e.columns = d.columns, e.summ = d.summ,
           e.fts = d.fts, "fts" \in e.tables <=> "fts" \in d.tables
    PROVE  SameData(d, e)
BY DEF SameData, FtsExact, LiveSummaries

\* What SameData keeps.
LEMMA SameDataFacts ==
    ASSUME NEW d, NEW e, SameData(d, e)
    PROVE  /\ LiveSummaries(e) = LiveSummaries(d)
           /\ Whole(d) => Whole(e)
           /\ Rooted(d) => Rooted(e)
           /\ DerivedAt(d) => DerivedAt(e)
<1>1. LiveSummaries(e) = LiveSummaries(d)
    BY DEF SameData, LiveSummaries
<1>2. Early \subseteq Summaries /\ Later \subseteq Summaries
    BY DEF Early, Summaries
<1>3. Whole(d) => Whole(e)
    BY <1>2 DEF SameData, Whole
<1>4. Rooted(d) => Rooted(e)
    BY <1>2 DEF SameData, Rooted
<1>5. DerivedAt(d) => DerivedAt(e)
    BY <1>1 DEF SameData, DerivedAt, LiveSummaries
<1> QED
    BY <1>1, <1>3, <1>4, <1>5

\* The steps on other tables.
LEMMA OtherTablesData ==
    ASSUME NEW d, KeyTables(d)
    PROVE  /\ SameData(d, EnsureCoreTables(d))
           /\ SameData(d, BackfillMessageIdentityHashes(d))
           /\ SameData(d, BackfillToolCallColumns(d))
           /\ SameData(d, SeedDefaultPrompts(d))
           /\ SameData(d, BackfillConversationSessionKeys(d))
<1>1. SameData(d, EnsureCoreTables(d))
    <2> DEFINE e == EnsureCoreTables(d)
    <2>1. /\ e.kids = d.kids /\ e.ledger = d.ledger /\ e.columns = d.columns
          /\ e.summ = d.summ /\ e.fts = d.fts /\ e.tables = d.tables \cup {"core"}
        BY DEF EnsureCoreTables, KeyTables, Tables
    <2> HIDE DEF e
    <2> QED
        BY <2>1, SameDataTables DEF e
<1>2. SameData(d, BackfillMessageIdentityHashes(d))
    <2> DEFINE e == BackfillMessageIdentityHashes(d)
    <2>1. /\ e.kids = d.kids /\ e.ledger = d.ledger /\ e.columns = d.columns
          /\ e.summ = d.summ /\ e.fts = d.fts /\ e.tables = d.tables
        BY DEF BackfillMessageIdentityHashes, KeyTables, Tables
    <2> HIDE DEF e
    <2> QED
        BY <2>1, SameDataTables DEF e
<1>3. SameData(d, BackfillToolCallColumns(d))
    <2> DEFINE e == BackfillToolCallColumns(d)
    <2>1. /\ e.kids = d.kids /\ e.ledger = d.ledger /\ e.columns = d.columns
          /\ e.summ = d.summ /\ e.fts = d.fts /\ e.tables = d.tables
        BY DEF BackfillToolCallColumns, KeyTables, Tables
    <2> HIDE DEF e
    <2> QED
        BY <2>1, SameDataTables DEF e
<1>4. SameData(d, SeedDefaultPrompts(d))
    <2> DEFINE e == SeedDefaultPrompts(d)
    <2>1. /\ e.kids = d.kids /\ e.ledger = d.ledger /\ e.columns = d.columns
          /\ e.summ = d.summ /\ e.fts = d.fts /\ e.tables = d.tables
        BY DEF SeedDefaultPrompts, KeyTables, Tables
    <2> HIDE DEF e
    <2> QED
        BY <2>1, SameDataTables DEF e
<1>5. SameData(d, BackfillConversationSessionKeys(d))
    <2> DEFINE e == BackfillConversationSessionKeys(d)
    <2>1. \E audit, conv : e = [d EXCEPT !.audit = audit, !.conv = conv]
        BY DEF BackfillConversationSessionKeys
    <2> HIDE DEF e
    <2>2. /\ e.kids = d.kids /\ e.ledger = d.ledger /\ e.columns = d.columns
          /\ e.summ = d.summ /\ e.fts = d.fts /\ e.tables = d.tables
        BY <2>1 DEF KeyTables, Tables
    <2> QED
        BY <2>2, SameDataTables DEF e
<1> QED
    BY <1>1, <1>2, <1>3, <1>4, <1>5

\* ensure_v41_tables.
LEMMA V41TablesData ==
    ASSUME NEW d, KeyTables(d)
    PROVE  SameData(d, EnsureV41Tables(d))
<1> DEFINE w == WidenTierCheck(d)
           e == [w EXCEPT !.tables = @ \cup {"v41"}, !.cache = IF @ = "none" THEN "empty" ELSE @]
<1>1. /\ w = [f \in Tables |-> w[f]]
      /\ w.kids = d.kids /\ w.ledger = d.ledger /\ w.columns = d.columns
      /\ w.summ = d.summ /\ w.fts = d.fts /\ w.tables = d.tables
    BY DEF WidenTierCheck, KeyTables, Tables
<1> HIDE DEF w
<1>2. /\ e.kids = d.kids /\ e.ledger = d.ledger /\ e.columns = d.columns
      /\ e.summ = d.summ /\ e.fts = d.fts /\ e.tables = d.tables \cup {"v41"}
    BY <1>1 DEF Tables
<1>3. EnsureV41Tables(d) = e
    BY DEF EnsureV41Tables, w
<1> HIDE DEF e
<1> QED
    BY <1>2, <1>3, SameDataTables

\* _backfill_summary_session_keys writes keys only.
LEMMA SummaryKeysData ==
    ASSUME NEW d, KeyTables(d)
    PROVE  SameData(d, BackfillSummarySessionKeys(d))
<1> DEFINE e == BackfillSummarySessionKeys(d)
           rows == [s \in Summaries |->
                       IF d.summ[s].live /\ d.summ[s].key = NoKey
                       THEN [d.summ[s] EXCEPT !.key = d.conv[d.summ[s].conv].key] ELSE d.summ[s]]
<1>1. e = [d EXCEPT !.summ = rows]
    BY DEF BackfillSummarySessionKeys
<1>2. ASSUME NEW s \in Summaries
      PROVE  /\ rows[s].live = d.summ[s].live
             /\ rows[s].conv = d.summ[s].conv
             /\ rows[s].content = d.summ[s].content
             /\ rows[s].depth = d.summ[s].depth
             /\ rows[s].count = d.summ[s].count
    <2> DEFINE value == d.conv[d.summ[s].conv].key
    <2>1. SummaryTyped(d.summ[s])
        BY DEF KeyTables
    <2>2. rows[s] = IF d.summ[s].live /\ d.summ[s].key = NoKey
                    THEN [d.summ[s] EXCEPT !.key = value] ELSE d.summ[s]
        OBVIOUS
    <2> HIDE DEF value, rows
    <2> QED
        BY <2>1, <2>2 DEF SummaryTyped, SummaryColumns
<1> HIDE DEF rows, e
<1>3. /\ e.kids = d.kids /\ e.ledger = d.ledger /\ e.columns = d.columns
      /\ e.summ = rows /\ e.fts = d.fts /\ e.tables = d.tables
    BY <1>1 DEF KeyTables, Tables
<1>4. FtsExact(d) => FtsExact(e)
    BY <1>2, <1>3 DEF FtsExact, LiveSummaries
<1> QED
    BY <1>2, <1>3, <1>4 DEF SameData, e

\* _ensure_standalone_fts seeds an index with the texts.
LEMMA StandaloneFtsData ==
    ASSUME NEW d, KeyTables(d), NEW name
    PROVE  SameData(d, EnsureStandaloneFts(d, name))
<1> DEFINE seeded == SeededIndex(d)
           f == [d EXCEPT !.tables = @ \cup {"fts"}, !.fts = seeded]
           c == [d EXCEPT !.tables = @ \cup {"cjk"}, !.cjk = seeded]
<1>0. SameData(d, d)
    BY SameDataTables
<1>1. seeded = [s \in LiveSummaries(d) |-> d.summ[s].content]
    BY DEF SeededIndex
<1> HIDE DEF seeded
<1>2. SameData(d, f)
    <2>1. /\ f.kids = d.kids /\ f.ledger = d.ledger /\ f.columns = d.columns
          /\ f.summ = d.summ /\ f.fts = seeded /\ f.tables = d.tables \cup {"fts"}
        BY DEF KeyTables, Tables
    <2> HIDE DEF f
    <2>2. FtsExact(f)
        BY <1>1, <2>1 DEF FtsExact, LiveSummaries
    <2> QED
        BY <2>1, <2>2 DEF SameData
<1>3. SameData(d, c)
    <2>1. /\ c.kids = d.kids /\ c.ledger = d.ledger /\ c.columns = d.columns
          /\ c.summ = d.summ /\ c.fts = d.fts /\ c.tables = d.tables \cup {"cjk"}
        BY DEF KeyTables, Tables
    <2> HIDE DEF c
    <2> QED
        BY <2>1, SameDataTables
<1>4. EnsureStandaloneFts(d, name) \in {d, f, c}
    BY DEF EnsureStandaloneFts, seeded
<1> QED
    BY <1>0, <1>2, <1>3, <1>4

\* _ensure_fts5_tables.
LEMMA FtsData ==
    ASSUME NEW d, KeyTables(d)
    PROVE  SameData(d, EnsureFts5Tables(d))
<1> DEFINE dropped == [d EXCEPT !.tables = @ \ {"cjk"}, !.cjk = <<>>]
           start == IF Trigram THEN d ELSE dropped
           base == EnsureStandaloneFts(start, "fts")
<1>0. SameData(d, d)
    BY SameDataTables
<1>1. SameData(d, dropped)
    <2>1. /\ dropped.kids = d.kids /\ dropped.ledger = d.ledger /\ dropped.columns = d.columns
          /\ dropped.summ = d.summ /\ dropped.fts = d.fts /\ dropped.tables = d.tables \ {"cjk"}
        BY DEF KeyTables, Tables
    <2> HIDE DEF dropped
    <2> QED
        BY <2>1, SameDataTables
<1>2. KeyTables(dropped)
    BY DEF KeyTables, Tables
<1> HIDE DEF dropped
<1>3. SameData(d, start) /\ KeyTables(start)
    BY <1>0, <1>1, <1>2
<1> HIDE DEF start
<1>4. SameData(d, base) /\ KeyTables(base)
    <2>1. SameData(start, base)
        BY <1>3, StandaloneFtsData
    <2>2. KeyTables(base)
        BY <1>3, StandaloneFtsKeeps DEF SameKeys
    <2> QED
        BY <1>3, <2>1, <2>2, SameDataTransitive
<1> HIDE DEF base
<1>5. SameData(d, EnsureStandaloneFts(base, "cjk"))
    BY <1>4, StandaloneFtsData, SameDataTransitive
<1> QED
    BY <1>0, <1>4, <1>5 DEF EnsureFts5Tables, base, start, dropped

-----------------------------------------------------------------------------
\* A step that may write the derived columns.
SameTexts(d, e) ==
    /\ e.kids = d.kids
    /\ \A s \in Summaries :
          /\ e.summ[s].live = d.summ[s].live
          /\ e.summ[s].conv = d.summ[s].conv
          /\ e.summ[s].content = d.summ[s].content
    /\ FtsExact(d) => FtsExact(e)

\* Such a step keeps the trees whole.
LEMMA SameTextsFacts ==
    ASSUME NEW d, NEW e, SameTexts(d, e)
    PROVE  Whole(d) => Whole(e)
BY DEF SameTexts, Whole, Early, Summaries

\* The columns are added.
LEMMA ProbesData ==
    ASSUME NEW d, KeyTables(d)
    PROVE  LET e == ApplyStructuralColumnProbes(d)
           IN  /\ "v41" \in d.columns => e = d
               /\ SameTexts(d, e) /\ e.ledger = d.ledger /\ "v41" \in e.columns
<1> DEFINE e == ApplyStructuralColumnProbes(d)
           rows == [s \in Summaries |-> IF d.summ[s].live
                       THEN [d.summ[s] EXCEPT !.depth = 0, !.count = 0, !.key = NoKey]
                       ELSE d.summ[s]]
<1>1. CASE "v41" \in d.columns
    BY <1>1 DEF ApplyStructuralColumnProbes, SameTexts
<1>2. CASE "v41" \notin d.columns
    <2>1. e = [d EXCEPT !.columns = @ \cup {"v41"}, !.summ = rows]
        BY <1>2 DEF ApplyStructuralColumnProbes
    <2>2. ASSUME NEW s \in Summaries
          PROVE  /\ rows[s].live = d.summ[s].live
                 /\ rows[s].conv = d.summ[s].conv
                 /\ rows[s].content = d.summ[s].content
        <3>1. SummaryTyped(d.summ[s])
            BY DEF KeyTables
        <3>2. rows[s] = IF d.summ[s].live
                        THEN [d.summ[s] EXCEPT !.depth = 0, !.count = 0, !.key = NoKey]
                        ELSE d.summ[s]
            OBVIOUS
        <3> HIDE DEF rows
        <3> QED
            BY <3>1, <3>2 DEF SummaryTyped, SummaryColumns
    <2> HIDE DEF rows, e
    <2>3. /\ e.kids = d.kids /\ e.ledger = d.ledger /\ e.columns = d.columns \cup {"v41"}
          /\ e.summ = rows /\ e.fts = d.fts /\ e.tables = d.tables
        BY <2>1 DEF KeyTables, Tables
    <2>4. FtsExact(d) => FtsExact(e)
        BY <2>2, <2>3 DEF FtsExact, LiveSummaries
    <2>5. SameTexts(d, e) /\ e.ledger = d.ledger /\ "v41" \in e.columns
        BY <2>2, <2>3, <2>4 DEF SameTexts
    <2> QED
        BY <1>2, <2>5 DEF e
<1> QED
    BY <1>1, <1>2

\* _backfill_summary_depths writes heights.
LEMMA DepthsData ==
    ASSUME NEW d, KeyTables(d), Whole(d)
    PROVE  LET e == BackfillSummaryDepths(d)
           IN  /\ SameTexts(d, e) /\ e.ledger = d.ledger /\ e.columns = d.columns
               /\ \A s \in Early : e.summ[s].depth = Height(d.kids)[s]
<1> DEFINE e == BackfillSummaryDepths(d)
           rows == [s \in Summaries |->
                       IF d.summ[s].live
                       THEN [d.summ[s] EXCEPT !.depth = Depths(d, d.summ[s].conv)[s]]
                       ELSE d.summ[s]]
           g == Depths(d, Home)
<1>1. e = [d EXCEPT !.summ = rows]
    BY DEF BackfillSummaryDepths
<1>2. ASSUME NEW s \in Summaries
      PROVE  /\ rows[s].live = d.summ[s].live
             /\ rows[s].conv = d.summ[s].conv
             /\ rows[s].content = d.summ[s].content
             /\ s \in Early => rows[s].depth = g[s]
    <2> DEFINE value == Depths(d, d.summ[s].conv)[s]
    <2>1. SummaryTyped(d.summ[s])
        BY DEF KeyTables
    <2>2. rows[s] = IF d.summ[s].live THEN [d.summ[s] EXCEPT !.depth = value] ELSE d.summ[s]
        OBVIOUS
    <2>3. s \in Early => value = g[s] /\ d.summ[s].live
        BY DEF Whole
    <2> HIDE DEF value, rows, g
    <2> QED
        BY <2>1, <2>2, <2>3 DEF SummaryTyped, SummaryColumns
<1>3. Ranked(g, d.kids) /\ DOMAIN g = Early
    BY DepthsSettled
<1> HIDE DEF rows, e, g
<1>4. /\ e.kids = d.kids /\ e.ledger = d.ledger /\ e.columns = d.columns
      /\ e.summ = rows /\ e.fts = d.fts /\ e.tables = d.tables
    BY <1>1 DEF KeyTables, Tables
<1>5. FtsExact(d) => FtsExact(e)
    BY <1>2, <1>4 DEF FtsExact, LiveSummaries
<1>6. \A s \in Early : Height(d.kids)[s] = g[s]
    BY <1>3, HeightIs DEF Whole
<1>7. Early \subseteq Summaries
    BY DEF Early, Summaries
<1> QED
    BY <1>2, <1>4, <1>5, <1>6, <1>7 DEF SameTexts, e

\* _backfill_summary_metadata writes the numbers of summaries below.
LEMMA MetadataData ==
    ASSUME NEW d, KeyTables(d), Whole(d),
           \A s \in Early : d.summ[s].depth = Height(d.kids)[s]
    PROVE  LET e == BackfillSummaryMetadata(d)
           IN  /\ SameTexts(d, e) /\ e.ledger = d.ledger /\ e.columns = d.columns
               /\ DerivedAt(e)
<1> DEFINE e == BackfillSummaryMetadata(d)
<1>0. Grown(d.kids) /\ Early \subseteq Summaries /\ Condensed \subseteq Early
    BY DEF Whole, Early, Summaries
<1>1. Deep(d)
    <2>1. \A s \in Early : d.summ[s].depth \in Nat
        BY <1>0, HeightFacts
    <2>2. ASSUME NEW s \in Condensed, NEW k \in d.kids[s]
          PROVE  d.summ[k].depth < d.summ[s].depth
        <3>1. k \in Early /\ s \in Early
            BY <1>0, HasAge
        <3> QED
            BY <1>0, <3>1, HeightFacts
    <2> QED
        BY <2>1, <2>2 DEF Deep
<1>2. PICK counted :
              /\ \A s \in Early : counted[s] = Cardinality(Below(d.kids)[s])
              /\ e = [d EXCEPT !.summ = [s \in Summaries |->
                        IF d.summ[s].live THEN [d.summ[s] EXCEPT !.count = counted[s]]
                        ELSE d.summ[s]]]
    BY <1>1, MetadataIs
<1> DEFINE rows == [s \in Summaries |->
                        IF d.summ[s].live THEN [d.summ[s] EXCEPT !.count = counted[s]]
                        ELSE d.summ[s]]
<1>3. ASSUME NEW s \in Summaries
      PROVE  /\ rows[s].live = d.summ[s].live
             /\ rows[s].conv = d.summ[s].conv
             /\ rows[s].content = d.summ[s].content
             /\ rows[s].depth = d.summ[s].depth
             /\ d.summ[s].live => rows[s].count = counted[s]
    <2>1. SummaryTyped(d.summ[s])
        BY DEF KeyTables
    <2>2. rows[s] = IF d.summ[s].live THEN [d.summ[s] EXCEPT !.count = counted[s]] ELSE d.summ[s]
        OBVIOUS
    <2> HIDE DEF rows
    <2> QED
        BY <2>1, <2>2 DEF SummaryTyped, SummaryColumns
<1>4. e = [d EXCEPT !.summ = rows]
    BY <1>2
<1> HIDE DEF rows, e
<1>5. /\ e.kids = d.kids /\ e.ledger = d.ledger /\ e.columns = d.columns
      /\ e.summ = rows /\ e.fts = d.fts /\ e.tables = d.tables
    BY <1>4 DEF KeyTables, Tables
<1>6. FtsExact(d) => FtsExact(e)
    BY <1>3, <1>5 DEF FtsExact, LiveSummaries
<1>7. DerivedAt(e)
    <2> SUFFICES ASSUME NEW s \in LiveSummaries(e)
                 PROVE  /\ e.summ[s].depth = Height(e.kids)[s]
                        /\ e.summ[s].count = Cardinality(Below(e.kids)[s])
        BY DEF DerivedAt
    <2>1. s \in Summaries /\ d.summ[s].live
        BY <1>3, <1>5 DEF LiveSummaries
    <2>2. s \in Early
        BY <2>1 DEF Whole, Summaries, Early
    <2> QED
        BY <1>2, <1>3, <1>5, <2>1, <2>2
<1> QED
    BY <1>3, <1>5, <1>6, <1>7 DEF SameTexts, e

\* The ledger.
LEMMA VersionedData ==
    ASSUME NEW d, NEW done, NEW name, KeyTables(done)
    PROVE  LET e == RunVersioned(done, name, d)
           IN  /\ name \in d.ledger => e = d
               /\ name \notin d.ledger =>
                     /\ e.kids = done.kids /\ e.columns = done.columns /\ e.summ = done.summ
                     /\ e.ledger = done.ledger \cup {name}
                     /\ FtsExact(done) => FtsExact(e)
<1> DEFINE e == [done EXCEPT !.ledger = @ \cup {name}]
<1>1. /\ e.kids = done.kids /\ e.columns = done.columns /\ e.summ = done.summ
      /\ e.ledger = done.ledger \cup {name}
      /\ e.fts = done.fts /\ e.tables = done.tables
    BY DEF KeyTables, Tables
<1> HIDE DEF e
<1>2. FtsExact(done) => FtsExact(e)
    BY <1>1 DEF FtsExact, LiveSummaries
<1> QED
    BY <1>1, <1>2 DEF RunVersioned, e

\* run_lcm_migrations: the first one derives, later ones change nothing of it.
LEMMA MigratedData ==
    ASSUME NEW d, KeysKept(d), DataKept(d)
    PROVE  LET e == Migrated(d)
           IN  /\ DataKept(e) /\ e.ledger # {}
               /\ d.ledger # {} => SameData(d, e)
<1> DEFINE a == EnsureCoreTables(d)
           b == ApplyStructuralColumnProbes(a)
           f == EnsureFts5Tables(b)
           v == EnsureV41Tables(f)
           hashed == BackfillMessageIdentityHashes(v)
           deep == RunVersioned(BackfillSummaryDepths(hashed), "backfillSummaryDepths", hashed)
           mdb == RunVersioned(BackfillSummaryMetadata(deep), "backfillSummaryMetadata", deep)
           tools == RunVersioned(BackfillToolCallColumns(mdb), "backfillToolCallColumns", mdb)
           keyed == BackfillConversationSessionKeys(tools)
           filled == BackfillSummarySessionKeys(keyed)
           seeded == SeedDefaultPrompts(filled)
<1>0. Migrated(d) = seeded
    BY DEF Migrated, RunVersionedBackfills
<1>1. KeysKept(a) /\ SameData(d, a)
    BY CoreTablesKeep, SameKeysKeeps, OtherTablesData DEF KeysKept
<1> HIDE DEF a
<1>2. KeysKept(b) /\ ("v41" \in a.columns => b = a) /\ SameTexts(a, b)
      /\ b.ledger = a.ledger /\ "v41" \in b.columns
    BY <1>1, ProbesKeep, SameKeysKeeps, ProbesData DEF KeysKept
<1> HIDE DEF b
<1>3. KeysKept(f) /\ SameData(b, f)
    BY <1>2, FtsKeeps, SameKeysKeeps, FtsData DEF KeysKept
<1> HIDE DEF f
<1>4. KeysKept(v) /\ SameData(f, v)
    BY <1>3, V41TablesKeep, SameKeysKeeps, V41TablesData DEF KeysKept
<1> HIDE DEF v
<1>5. KeysKept(hashed) /\ SameData(v, hashed)
    BY <1>4, HashesKeep, SameKeysKeeps, OtherTablesData DEF KeysKept
<1> HIDE DEF hashed
<1>6. KeyTables(BackfillSummaryDepths(hashed)) /\ KeysKept(deep)
    <2>1. SameKeys(hashed, BackfillSummaryDepths(hashed))
        BY <1>5, DepthsKeep DEF KeysKept
    <2>2. KeyTables(BackfillSummaryDepths(hashed))
        BY <2>1 DEF SameKeys
    <2> QED
        BY <1>5, <2>1, <2>2, VersionedKeeps, SameKeysKeeps DEF KeysKept
<1>7. KeyTables(BackfillSummaryMetadata(deep)) /\ KeysKept(mdb)
    <2> HIDE DEF deep
    <2>1. SameKeys(deep, BackfillSummaryMetadata(deep))
        BY <1>6, MetadataKeeps DEF KeysKept
    <2>2. KeyTables(BackfillSummaryMetadata(deep))
        BY <2>1 DEF SameKeys
    <2> QED
        BY <1>6, <2>1, <2>2, VersionedKeeps, SameKeysKeeps DEF KeysKept
<1>8. KeyTables(BackfillToolCallColumns(mdb)) /\ KeysKept(tools)
    <2> HIDE DEF mdb
    <2>1. SameKeys(mdb, BackfillToolCallColumns(mdb))
        BY <1>7, ToolsKeep DEF KeysKept
    <2>2. KeyTables(BackfillToolCallColumns(mdb))
        BY <2>1 DEF SameKeys
    <2> QED
        BY <1>7, <2>1, <2>2, VersionedKeeps, SameKeysKeeps DEF KeysKept
<1>9. KeysKept(keyed) /\ SameData(tools, keyed)
    <2> HIDE DEF tools
    <2>1. KeysKept(keyed)
        BY <1>8, ConversationKeysKeep
    <2> QED
        BY <1>8, <2>1, OtherTablesData DEF KeysKept
<1>10. KeysKept(filled) /\ SameData(keyed, filled)
    <2> HIDE DEF tools
    <2>0. \A c \in Convs : keyed.conv[c].live => keyed.conv[c].key # NullKey
        BY <1>8, ConversationKeysKeep
    <2> HIDE DEF keyed
    <2>1. KeysKept(filled)
        BY <1>9, <2>0, SummaryKeysKeep
    <2> QED
        BY <1>9, <2>1, SummaryKeysData DEF KeysKept
<1>11. SameData(tools, seeded)
    <2> HIDE DEF tools, keyed, filled
    <2>1. SameData(filled, seeded)
        BY <1>10, OtherTablesData DEF KeysKept
    <2> HIDE DEF seeded
    <2> QED
        BY <1>9, <1>10, <2>1, SameDataTransitive
<1>12. SameData(b, hashed)
    BY <1>3, <1>4, <1>5, SameDataTransitive
<1>13. CASE d.ledger # {}
    <2>1. Ladder \subseteq d.ledger /\ "v41" \in d.columns /\ DerivedAt(d)
        BY <1>13 DEF DataKept, Laddered
    <2>2. b = a /\ SameData(d, hashed)
        BY <1>1, <1>2, <1>12, <2>1, SameDataTransitive DEF SameData
    <2>3. Ladder \subseteq hashed.ledger
        BY <2>1, <2>2 DEF SameData
    <2>4. deep = hashed
        BY <1>6, <2>3, VersionedData DEF Ladder
    <2> HIDE DEF deep
    <2>5. mdb = hashed
        BY <1>7, <2>3, <2>4, VersionedData DEF Ladder
    <2> HIDE DEF mdb
    <2>6. tools = hashed
        BY <1>8, <2>3, <2>5, VersionedData DEF Ladder
    <2> HIDE DEF tools, seeded
    <2>7. SameData(d, seeded)
        BY <1>11, <2>2, <2>6, SameDataTransitive
    <2>8. Rooted(seeded) /\ DerivedAt(seeded) /\ FtsExact(seeded)
        BY <2>1, <2>7, SameDataFacts DEF DataKept, SameData
    <2>9. seeded.ledger = d.ledger /\ seeded.columns = d.columns
        BY <2>7 DEF SameData
    <2> QED
        BY <1>0, <1>13, <2>1, <2>7, <2>8, <2>9 DEF DataKept, Laddered
<1>14. CASE d.ledger = {}
    <2>1. Whole(d) /\ FtsExact(d)
        BY <1>14 DEF DataKept, Raw
    <2>2. /\ Whole(hashed) /\ FtsExact(hashed)
          /\ hashed.ledger = {} /\ "v41" \in hashed.columns
        <3>1. Whole(b) /\ FtsExact(b)
            BY <1>1, <1>2, <2>1, SameDataFacts, SameTextsFacts DEF SameData, SameTexts
        <3> QED
            BY <1>1, <1>2, <1>12, <1>14, <3>1, SameDataFacts DEF SameData
    <2>3. /\ Whole(deep) /\ FtsExact(deep) /\ "v41" \in deep.columns
          /\ deep.ledger = {"backfillSummaryDepths"}
          /\ \A s \in Early : deep.summ[s].depth = Height(deep.kids)[s]
        <3> DEFINE done == BackfillSummaryDepths(hashed)
        <3>1. /\ SameTexts(hashed, done) /\ done.ledger = hashed.ledger
              /\ done.columns = hashed.columns
              /\ \A s \in Early : done.summ[s].depth = Height(hashed.kids)[s]
            BY <1>5, <2>2, DepthsData DEF KeysKept
        <3>2. Whole(done) /\ FtsExact(done) /\ done.kids = hashed.kids
            BY <2>2, <3>1, SameTextsFacts DEF SameTexts
        <3>3. KeyTables(done) /\ deep = RunVersioned(done, "backfillSummaryDepths", hashed)
            BY <1>6
        <3> HIDE DEF done, deep
        <3>4. /\ deep.kids = done.kids /\ deep.columns = done.columns /\ deep.summ = done.summ
              /\ deep.ledger = done.ledger \cup {"backfillSummaryDepths"}
              /\ FtsExact(deep)
            BY <2>2, <3>2, <3>3, VersionedData
        <3>5. Whole(deep)
            BY <3>2, <3>4 DEF Whole
        <3> QED
            BY <2>2, <3>1, <3>2, <3>4, <3>5
    <2>4. /\ Whole(mdb) /\ FtsExact(mdb) /\ "v41" \in mdb.columns /\ DerivedAt(mdb)
          /\ mdb.ledger = {"backfillSummaryDepths", "backfillSummaryMetadata"}
        <3> HIDE DEF deep
        <3> DEFINE done == BackfillSummaryMetadata(deep)
        <3>1. /\ SameTexts(deep, done) /\ done.ledger = deep.ledger
              /\ done.columns = deep.columns /\ DerivedAt(done)
            BY <1>6, <2>3, MetadataData DEF KeysKept
        <3>2. Whole(done) /\ FtsExact(done)
            BY <2>3, <3>1, SameTextsFacts DEF SameTexts
        <3>3. KeyTables(done) /\ mdb = RunVersioned(done, "backfillSummaryMetadata", deep)
            BY <1>7
        <3> HIDE DEF done, mdb
        <3>4. /\ mdb.kids = done.kids /\ mdb.columns = done.columns /\ mdb.summ = done.summ
              /\ mdb.ledger = done.ledger \cup {"backfillSummaryMetadata"}
              /\ FtsExact(mdb)
            BY <2>3, <3>2, <3>3, VersionedData
        <3>5. Whole(mdb) /\ DerivedAt(mdb)
            BY <3>1, <3>2, <3>4 DEF Whole, DerivedAt, LiveSummaries
        <3> QED
            BY <2>3, <3>1, <3>4, <3>5
    <2>5. /\ Whole(tools) /\ FtsExact(tools) /\ "v41" \in tools.columns /\ DerivedAt(tools)
          /\ tools.ledger = Ladder
        <3> HIDE DEF mdb
        <3> DEFINE done == BackfillToolCallColumns(mdb)
        <3>1. SameData(mdb, done)
            BY <1>7, OtherTablesData DEF KeysKept
        <3>2. Whole(done) /\ FtsExact(done) /\ DerivedAt(done)
              /\ done.ledger = mdb.ledger /\ done.columns = mdb.columns
            BY <2>4, <3>1, SameDataFacts DEF SameData
        <3>3. KeyTables(done) /\ tools = RunVersioned(done, "backfillToolCallColumns", mdb)
            BY <1>8
        <3> HIDE DEF done, tools
        <3>4. /\ tools.kids = done.kids /\ tools.columns = done.columns /\ tools.summ = done.summ
              /\ tools.ledger = done.ledger \cup {"backfillToolCallColumns"}
              /\ FtsExact(tools)
            BY <2>4, <3>2, <3>3, VersionedData
        <3>5. Whole(tools) /\ DerivedAt(tools)
            BY <3>2, <3>4 DEF Whole, DerivedAt, LiveSummaries
        <3> QED
            BY <2>4, <3>2, <3>4, <3>5 DEF Ladder
    <2> HIDE DEF tools, seeded
    <2>6. Whole(seeded) /\ DerivedAt(seeded) /\ FtsExact(seeded)
          /\ seeded.ledger = Ladder /\ "v41" \in seeded.columns
        BY <1>11, <2>5, SameDataFacts DEF SameData
    <2>7. Rooted(seeded)
        BY <2>6 DEF Rooted, Whole
    <2>8. Ladder # {}
        BY DEF Ladder
    <2> QED
        BY <1>0, <1>14, <2>6, <2>7, <2>8 DEF DataKept, Laddered
<1> QED
    BY <1>13, <1>14

-----------------------------------------------------------------------------
(* How the summarizer ends.                                                *)

\* The candidates are finitely many.
LEMMA CandidatesCounted ==
    \E n \in Nat : DOMAIN Candidates = 1 .. n /\ (Candidates # <<>> => n # 0)
<1> DEFINE First(i) == ModelLayers[i] # NoModel
                       /\ \A j \in 1 .. i - 1 : ModelLayers[j] # ModelLayers[i]
           named == {i \in DOMAIN ModelLayers : First(i)}
           n == Cardinality(named)
<1>1. IsFiniteSet(named)
    <2>1. PICK m \in Nat : DOMAIN ModelLayers = 1 .. m
        BY LayersAssumption
    <2>2. IsFiniteSet(1 .. m)
        BY <2>1, FS_Interval
    <2> QED
        BY <2>1, <2>2, FS_Subset
<1>2. n \in Nat
    BY <1>1, FS_CardinalityType
<1> DEFINE Nth(m) == CHOOSE i \in named : Cardinality({j \in named : j <= i}) = m
           f == [i \in 1 .. n |-> ModelLayers[Nth(i)]]
<1>3. Candidates = f
    BY Zenon DEF Candidates
<1>4. DOMAIN f = 1 .. n
    OBVIOUS
<1>5. n = 0 => f = <<>>
    <2> HIDE DEF n, Nth
    <2>1. n = 0 => 1 .. n = {}
        OBVIOUS
    <2> QED
        BY <2>1
<1> HIDE DEF n, f
<1> QED
    BY <1>2, <1>3, <1>4, <1>5

\* The last candidate is never passed over.
LEMMA LastEnds ==
    ASSUME NEW first, NEW retry, NEW isLast \in BOOLEAN
    PROVE  LET v == CandidateOutcome(first, retry, isLast)
           IN  v \in {"text", "next", "auth", "marked", "stop"} /\ (isLast => v # "next")
<1>1. AfterFirst(first, isLast) \in {"text", "again", "next", "auth", "marked", "stop"}
      /\ (isLast => AfterFirst(first, isLast) # "next")
    BY DEF AfterFirst
<1>2. AfterRetry(first, retry, isLast) \in {"text", "next", "auth", "marked", "stop"}
      /\ (isLast => AfterRetry(first, retry, isLast) # "next")
    BY DEF AfterRetry
<1> QED
    BY <1>1, <1>2 DEF CandidateOutcome

\* A chain ends with a text, a truncation or an authentication error.
LEMMA ChainEnds ==
    ASSUME NEW n \in Nat \ {0}, NEW S, NEW calls \in [1 .. n -> S]
    PROVE  Summarize(calls) \in {"text", "auth", "marked"}
<1> DEFINE out == [i \in 1 .. n |-> CandidateOutcome(calls[i][1], calls[i][2], i = n)]
           ended == {i \in 1 .. n : out[i] # "next"}
           first == CHOOSE i \in ended : \A j \in ended : i <= j
<1>1. Len(calls) = n
    OBVIOUS
<1>2. Summarize(calls) = IF out[first] # "stop" THEN out[first]
                         ELSE IF \E i \in 1 .. first : Refused(calls[i][1], calls[i][2])
                              THEN "auth" ELSE "marked"
    BY <1>1 DEF Summarize
<1>3. \A i \in 1 .. n : /\ out[i] \in {"text", "next", "auth", "marked", "stop"}
                        /\ i = n => out[i] # "next"
    BY LastEnds
<1> HIDE DEF out
<1>4. n \in ended /\ ended \subseteq Nat
    BY <1>3
<1>5. \E i \in ended : \A j \in ended : i <= j
    <2> HIDE DEF ended
    <2> QED
        BY <1>4, LeastNat
<1>6. first \in ended
    <2> HIDE DEF ended
    <2> QED
        BY <1>5
<1> HIDE DEF first
<1>7. out[first] \in {"text", "auth", "marked", "stop"}
    BY <1>3, <1>6
<1> QED
    BY <1>2, <1>7

\* So does a request of the doctor's.
LEMMA OutcomesEnd == \A outcome \in DoctorOutcomes : outcome \in {"text", "auth", "marked"}
<1>1. ASSUME NEW readings, NEW outcome \in SummarizeOutcomes(readings)
      PROVE  outcome \in {"text", "auth", "marked"}
    <2>1. PICK n \in Nat : DOMAIN Candidates = 1 .. n /\ (Candidates # <<>> => n # 0)
        BY CandidatesCounted
    <2>2. Candidates # <<>> /\ \E S : \E calls \in [DOMAIN Candidates -> S] : outcome = Summarize(calls)
        BY <1>1 DEF SummarizeOutcomes
    <2> QED
        BY <2>1, <2>2, ChainEnds
<1> QED
    BY <1>1 DEF DoctorOutcomes

-----------------------------------------------------------------------------
(* The doctor's pass.                                                      *)

\* A source that could not be repaired.
Traced(d, q, s) ==
    \E k \in d.kids[s] :
        \/ k \in q.skipped
        \/ d.summ[k].content = "tainted"
        \/ k \in DOMAIN q.over /\ q.over[k] = "tainted"

\* What the pass has rewritten.
RewritesGood(d, q) ==
    \A s \in DOMAIN q.over :
        /\ q.over[s] # "marked"
        /\ q.over[s] = "tainted" => s \in Condensed /\ (d.summ[s].live => Traced(d, q, s))

\* A source that carries a marker was tried, or comes earlier.
Queued(d, q) ==
    \A i \in DOMAIN q.todo : q.todo[i] \in Condensed /\ d.summ[q.todo[i]].live =>
        \A k \in d.kids[q.todo[i]] : d.summ[k].live /\ d.summ[k].content = "marked" =>
            k \in DOMAIN q.over \cup q.skipped \cup {q.todo[j] : j \in 1 .. i - 1}

\* A target is rewritten once.
Distinct(q) ==
    /\ \A i, j \in DOMAIN q.todo : q.todo[i] = q.todo[j] => i = j
    /\ \A i \in DOMAIN q.todo : q.todo[i] \notin DOMAIN q.over

\* The pass, or none.
PassGood(d, q) ==
    /\ q = [f \in {"proc", "todo", "over", "skipped"} |-> q[f]]
    /\ q.todo \in Seq(Summaries) /\ Distinct(q)
    /\ RewritesGood(d, q) /\ Queued(d, q)

\* None.
LEMMA IdlePass == ASSUME NEW d PROVE PassGood(d, IdleDoc)
<1>1. /\ IdleDoc = [f \in {"proc", "todo", "over", "skipped"} |-> IdleDoc[f]]
      /\ IdleDoc.todo = <<>> /\ IdleDoc.over = <<>>
    BY DEF IdleDoc
<1>2. <<>> \in Seq(Summaries) /\ DOMAIN <<>> = {}
    OBVIOUS
<1> QED
    BY <1>1, <1>2 DEF PassGood, RewritesGood, Queued, Distinct

\* The summaries found, their trees and texts stay, or all of them go.
TextsStay(d, e) ==
    \/ \A s \in Early : ~e.summ[s].live
    \/ /\ e.kids = d.kids
       /\ \A s \in Early : /\ e.summ[s].live = d.summ[s].live
                           /\ e.summ[s].content = d.summ[s].content

\* The pass is as good in the database another process has written.
LEMMA PassStays ==
    ASSUME NEW d, NEW e, NEW q, Grown(d.kids), PassGood(d, q), TextsStay(d, e)
    PROVE  PassGood(e, q)
<1>0. Condensed \subseteq Early /\ \A s \in Condensed : d.kids[s] \subseteq Early
    BY HasAge DEF Early
<1>1. CASE \A s \in Early : ~e.summ[s].live
    BY <1>0, <1>1 DEF PassGood, RewritesGood, Queued
<1>2. CASE /\ e.kids = d.kids
           /\ \A s \in Early : /\ e.summ[s].live = d.summ[s].live
                               /\ e.summ[s].content = d.summ[s].content
    <2>1. \A s \in Condensed : Traced(d, q, s) => Traced(e, q, s)
        BY <1>0, <1>2 DEF Traced
    <2>2. RewritesGood(e, q)
        BY <1>0, <1>2, <2>1 DEF PassGood, RewritesGood
    <2>3. Queued(e, q)
        BY <1>0, <1>2 DEF PassGood, Queued
    <2> QED
        BY <2>2, <2>3 DEF PassGood
<1> QED
    BY <1>1, <1>2 DEF TextsStay

\* A step that leaves the summaries alone keeps everything.
LEMMA SameDataKeeps ==
    ASSUME NEW d, NEW e, DataKept(d), SameData(d, e)
    PROVE  DataKept(e) /\ \A q : PassGood(d, q) => PassGood(e, q)
<1>1. Rooted(e) /\ FtsExact(e) /\ Grown(d.kids)
    BY SameDataFacts DEF DataKept, SameData, Rooted
<1>2. e.ledger = d.ledger /\ e.columns = d.columns
    BY DEF SameData
<1>3. DataKept(e)
    BY <1>1, <1>2, SameDataFacts DEF DataKept, Raw, Laddered
<1>4. TextsStay(d, e)
    BY DEF SameData, TextsStay, Early, Summaries
<1> QED
    BY <1>1, <1>3, <1>4, PassStays

\* A step that writes or deletes summaries of a database in use.
Follows(d, e) ==
    /\ e.ledger = d.ledger /\ e.columns = d.columns /\ Grown(e.kids)
    /\ \/ \A s \in Early : ~e.summ[s].live
       \/ /\ e.kids = d.kids
          /\ \A s \in Early : /\ e.summ[s].live = d.summ[s].live
                              /\ e.summ[s].conv = d.summ[s].conv
                              /\ e.summ[s].depth = d.summ[s].depth
                              /\ e.summ[s].count = d.summ[s].count
    /\ \A s \in Later : e.summ[s].live =>
          \/ e.summ[s].depth = 0 /\ e.summ[s].count = 0
          \/ /\ d.summ[s].live /\ e.summ[s].depth = d.summ[s].depth
             /\ e.summ[s].count = d.summ[s].count

\* What is derived stays exact.
LEMMA FollowsKeeps ==
    ASSUME NEW d, NEW e, DataKept(d), d.ledger # {}, Follows(d, e), FtsExact(e)
    PROVE  DataKept(e)
<1>1. Laddered(d) /\ DerivedAt(d) /\ Rooted(d) /\ Grown(d.kids) /\ Grown(e.kids)
    BY DEF DataKept, Laddered, Rooted, Follows
<1>2. Rooted(e)
    BY <1>1 DEF Follows, Rooted
<1>3. DerivedAt(e)
    <2> SUFFICES ASSUME NEW s \in LiveSummaries(e)
                 PROVE  /\ e.summ[s].depth = Height(e.kids)[s]
                        /\ e.summ[s].count = Cardinality(Below(e.kids)[s])
        BY DEF DerivedAt
    <2>1. s \in Summaries /\ e.summ[s].live
        BY DEF LiveSummaries
    <2>2. CASE s \in Early
        <3>1. /\ e.kids = d.kids /\ d.summ[s].live
              /\ e.summ[s].depth = d.summ[s].depth /\ e.summ[s].count = d.summ[s].count
            BY <2>1, <2>2 DEF Follows
        <3> QED
            BY <1>1, <2>1, <3>1 DEF DerivedAt, LiveSummaries
    <2>3. CASE s \in Later
        <3>1. e.summ[s].depth = 0 /\ e.summ[s].count = 0
            <4>1. d.summ[s].live => d.summ[s].depth = 0 /\ d.summ[s].count = 0
                BY <1>1, <2>1, <2>3, HeightFacts DEF DerivedAt, LiveSummaries
            <4> QED
                BY <2>1, <2>3, <4>1 DEF Follows
        <3> QED
            BY <1>1, <2>3, <3>1, HeightFacts
    <2> QED
        BY <2>1, <2>2, <2>3 DEF Summaries, Early
<1> QED
    BY <1>1, <1>2, <1>3 DEF DataKept, Laddered, Follows

-----------------------------------------------------------------------------
(* Steps of processes.                                                     *)

\* The inductive invariant.
DataInv ==
    /\ KeysInv
    /\ pc = [p \in Proc |-> pc[p]]
    /\ DataKept(db) /\ PassGood(db, doc)
    /\ db.ledger = {} => doc = IdleDoc /\ \A p \in Proc : pc[p] # "ready"

\* A process that is ready has migrated the database.
LEMMA ReadyMigrated ==
    ASSUME DataInv, NEW p \in Proc, pc[p] = "ready"
    PROVE  /\ db.ledger # {} /\ KeyTables(db) /\ DataKept(db) /\ PassGood(db, doc)
           /\ DerivedAt(db) /\ Rooted(db) /\ Grown(db.kids) /\ FtsExact(db)
BY DEF DataInv, KeysInv, KeysKept, DataKept, Laddered, Rooted

\* A step that leaves summaries, processes and the pass alone.
LEMMA QuietKeeps ==
    ASSUME DataInv, KeysInv', SameData(db, db'), UNCHANGED <<pc, doc>>
    PROVE  DataInv'
<1>1. DataKept(db') /\ PassGood(db', doc)
    BY SameDataKeeps DEF DataInv
<1>2. db'.ledger = db.ledger
    BY DEF SameData
<1> QED
    BY <1>1, <1>2 DEF DataInv

\* Conversations only.
LEMMA ConversationsData ==
    ASSUME NEW d, KeyTables(d), NEW e, NEW conv,
           e \in {d, [d EXCEPT !.conv = conv]}
    PROVE  SameData(d, e)
<1>1. /\ e.kids = d.kids /\ e.ledger = d.ledger /\ e.columns = d.columns
      /\ e.summ = d.summ /\ e.fts = d.fts /\ e.tables = d.tables
    BY DEF KeyTables, Tables
<1> QED
    BY <1>1, SameDataTables

\* get_or_create_conversation and archive_conversation write conversations.
LEMMA ConversationStepsData ==
    ASSUME KeysInv, NEW p \in Proc,
           \/ \E sid \in 1..2, k \in CallerKeys \cup {NullKey} : GetConversation(p, sid, k)
           \/ CreateConversation(p)
           \/ \E c \in Convs : ArchiveConversation(p, c)
    PROVE  SameData(db, db') /\ UNCHANGED <<pc, doc>>
<1>0. KeyTables(db)
    BY DEF KeysInv, KeysKept
<1>1. CASE \E sid \in 1..2, k \in CallerKeys \cup {NullKey} : GetConversation(p, sid, k)
    <2>1. PICK sid \in 1..2, k \in CallerKeys \cup {NullKey} : GetConversation(p, sid, k)
        BY <1>1
    <2>2. \E conv : db' \in {db, [db EXCEPT !.conv = conv]}
        BY <2>1 DEF GetConversation
    <2>3. UNCHANGED <<pc, doc>>
        BY <2>1 DEF GetConversation
    <2> QED
        BY <1>0, <2>2, <2>3, ConversationsData
<1>2. CASE CreateConversation(p)
    <2>1. \E conv, next : db' \in {db, [db EXCEPT !.next = next, !.conv = conv]}
        <3>1. CASE UNCHANGED db
            BY <3>1
        <3>2. CASE ~UNCHANGED db
            <4> DEFINE added == [live |-> TRUE, sid |-> want[p].sid, key |-> want[p].key,
                               active |-> TRUE, brief |-> FALSE]
                       conv == [db.conv EXCEPT ![db.next] = added]
                       next == db.next + 1
            <4>1. db' = [db EXCEPT !.next = @ + 1, !.conv[db.next] = added]
                BY <1>2, <3>2 DEF CreateConversation
            <4> HIDE DEF added
            <4>2. db' = [db EXCEPT !.next = next, !.conv = conv]
                BY <1>0, <4>1 DEF KeyTables, Tables
            <4> HIDE DEF conv, next
            <4> QED
                BY <4>2
        <3> QED
            BY <3>1, <3>2
    <2>2. UNCHANGED <<pc, doc>>
        BY <1>2 DEF CreateConversation
    <2>3. PICK conv, next : db' \in {db, [db EXCEPT !.next = next, !.conv = conv]}
        BY <2>1
    <2>4. /\ db'.kids = db.kids /\ db'.ledger = db.ledger /\ db'.columns = db.columns
          /\ db'.summ = db.summ /\ db'.fts = db.fts /\ db'.tables = db.tables
        BY <1>0, <2>3 DEF KeyTables, Tables
    <2>5. SameData(db, db')
        BY <2>4, SameDataTables
    <2> QED
        BY <2>2, <2>5
<1>3. CASE \E c \in Convs : ArchiveConversation(p, c)
    <2>1. PICK c \in Convs : ArchiveConversation(p, c)
        BY <1>3
    <2>2. \E conv : db' = [db EXCEPT !.conv = conv]
        <3> DEFINE conv == [db.conv EXCEPT ![c] = [@ EXCEPT !.active = FALSE]]
        <3>1. db' = [db EXCEPT !.conv[c].active = FALSE]
            BY <2>1 DEF ArchiveConversation
        <3>2. db' = [db EXCEPT !.conv = conv]
            BY <1>0, <3>1 DEF KeyTables, Tables
        <3> HIDE DEF conv
        <3> QED
            BY <3>2
    <2>3. UNCHANGED <<pc, doc>>
        BY <2>1 DEF ArchiveConversation
    <2> QED
        BY <1>0, <2>2, <2>3, ConversationsData
<1> QED
    BY <1>1, <1>2, <1>3

\* Reconciling writes keys only.
LEMMA ReconcileData ==
    ASSUME KeysInv, NEW p \in Proc, NEW from, NEW to, ReconcileSessionKeys(p, from, to)
    PROVE  SameData(db, db') /\ UNCHANGED <<pc, doc>>
<1> DEFINE conv == ReconciledConversations(db, from, to)
           audit == ReconciledAudit(db, from, to)
           rows == ReconciledSummaries(db, from, to)
<1>0. KeyTables(db)
    BY DEF KeysInv, KeysKept
<1>1. db' = [db EXCEPT !.conv = conv, !.summ = rows, !.audit = audit] /\ UNCHANGED <<pc, doc>>
    BY DEF ReconcileSessionKeys
<1>2. ASSUME NEW s \in Summaries
      PROVE  /\ rows[s].live = db.summ[s].live
             /\ rows[s].conv = db.summ[s].conv
             /\ rows[s].content = db.summ[s].content
             /\ rows[s].depth = db.summ[s].depth
             /\ rows[s].count = db.summ[s].count
    <2>1. SummaryTyped(db.summ[s])
        BY <1>0 DEF KeyTables
    <2>2. rows[s] = IF db.summ[s].live /\ db.summ[s].key \in from
                    THEN [db.summ[s] EXCEPT !.key = to] ELSE db.summ[s]
        BY DEF ReconciledSummaries
    <2> HIDE DEF rows
    <2> QED
        BY <2>1, <2>2 DEF SummaryTyped, SummaryColumns
<1> HIDE DEF conv, audit, rows
<1>3. /\ db'.kids = db.kids /\ db'.ledger = db.ledger /\ db'.columns = db.columns
      /\ db'.summ = rows /\ db'.fts = db.fts /\ db'.tables = db.tables
    BY <1>0, <1>1 DEF KeyTables, Tables
<1>4. FtsExact(db) => FtsExact(db')
    BY <1>2, <1>3 DEF FtsExact, LiveSummaries
<1> QED
    BY <1>1, <1>2, <1>3, <1>4 DEF SameData

\* insert_summary: a leaf, with its row in the index.
LEMMA InsertData ==
    ASSUME DataInv, KeysInv', NEW p \in Proc, NEW s \in Later, NEW c \in Convs,
           NEW m \in {"sound", "marked"}, InsertSummary(p, s, c, m)
    PROVE  DataInv'
<1>0. pc[p] = "ready" /\ UNCHANGED <<pc, doc>>
    BY DEF InsertSummary, Request
<1>1. /\ db.ledger # {} /\ KeyTables(db) /\ DataKept(db) /\ PassGood(db, doc)
      /\ Grown(db.kids) /\ FtsExact(db)
    BY <1>0, ReadyMigrated
<1> DEFINE key == IF db.conv[c].key = NullKey THEN NoKey ELSE db.conv[c].key
           new == [live |-> TRUE, conv |-> c, depth |-> 0, count |-> 0, content |-> m,
                   key |-> key]
           index == IF "fts" \in db.tables THEN Put(db.fts, s, m) ELSE db.fts
           rows == [db.summ EXCEPT ![s] = new]
<1>2. \E cjk : db' = [db EXCEPT !.born = @ \cup {s}, !.summ[s] = new, !.fts = index, !.cjk = cjk]
    BY DEF InsertSummary
<1>3. new.live = TRUE /\ new.depth = 0 /\ new.count = 0 /\ new.content = m
    OBVIOUS
<1> HIDE DEF new
<1>4. /\ db'.kids = db.kids /\ db'.ledger = db.ledger /\ db'.columns = db.columns
      /\ db'.summ = rows /\ db'.fts = index /\ db'.tables = db.tables
    BY <1>1, <1>2 DEF KeyTables, Tables
<1>5. /\ \A q \in Summaries : rows[q] = IF q = s THEN new ELSE db.summ[q]
      /\ s \in Summaries /\ s \notin Early /\ Early \subseteq Summaries /\ Later \subseteq Summaries
    BY <1>1, EarlyFinite DEF KeyTables, Summaries, Early
<1> HIDE DEF rows
<1>6. FtsExact(db')
    <2>1. "fts" \notin db'.tables => DOMAIN db'.fts = {}
        BY <1>1, <1>4 DEF FtsExact
    <2>2. ASSUME NEW q \in DOMAIN db'.fts \cap LiveSummaries(db')
          PROVE  db'.fts[q] = db'.summ[q].content
        <3>0. "fts" \in db.tables /\ index = Put(db.fts, s, m)
            BY <1>4, <2>1, <2>2
        <3>1. q \in Summaries /\ db'.summ[q].live
            BY <2>2 DEF LiveSummaries
        <3>2. CASE q = s
            BY <1>3, <1>4, <1>5, <3>0, <3>1, <3>2 DEF Put
        <3>3. CASE q # s
            <4>1. q \in DOMAIN db.fts /\ index[q] = db.fts[q]
                BY <1>4, <2>2, <3>0, <3>3 DEF Put
            <4>2. db'.summ[q] = db.summ[q] /\ q \in LiveSummaries(db)
                BY <1>4, <1>5, <3>1, <3>3 DEF LiveSummaries
            <4> QED
                BY <1>1, <1>4, <4>1, <4>2 DEF FtsExact
        <3> QED
            BY <3>2, <3>3
    <2> QED
        BY <2>1, <2>2 DEF FtsExact
<1> HIDE DEF index
<1>7. \A q \in Early : db'.summ[q] = db.summ[q]
    BY <1>4, <1>5
<1>8. ASSUME NEW q \in Later, db'.summ[q].live
      PROVE  \/ db'.summ[q].depth = 0 /\ db'.summ[q].count = 0
             \/ /\ db.summ[q].live /\ db'.summ[q].depth = db.summ[q].depth
                /\ db'.summ[q].count = db.summ[q].count
    <2>1. q \in Summaries
        BY <1>5
    <2>2. CASE q = s
        BY <1>3, <1>4, <1>5, <2>1, <2>2
    <2>3. CASE q # s
        <3>1. db'.summ[q] = db.summ[q]
            BY <1>4, <1>5, <2>1, <2>3
        <3> QED
            BY <1>8, <3>1
    <2> QED
        BY <2>2, <2>3
<1>9. Follows(db, db') /\ TextsStay(db, db')
    BY <1>1, <1>4, <1>7, <1>8 DEF Follows, TextsStay
<1>10. DataKept(db') /\ PassGood(db', doc)
    BY <1>1, <1>6, <1>9, FollowsKeeps, PassStays
<1> QED
    BY <1>0, <1>1, <1>4, <1>10 DEF DataInv

\* The cleaners take all of the summaries found or none of them.
LEMMA CleanersData ==
    ASSUME DataInv, KeysInv', NEW p \in Proc, ApplyDoctorCleaners(p)
    PROVE  DataInv'
<1> DEFINE staged == StagedConversations(db)
           gone == {s \in LiveSummaries(db) : db.summ[s].conv \in staged}
           rows == [s \in Summaries |-> IF s \in gone THEN NoSummary ELSE db.summ[s]]
           kids == [s \in Condensed |-> IF s \in gone THEN {} ELSE db.kids[s] \ gone]
           index == Without(db.fts, gone)
<1>0. pc[p] = "ready" /\ UNCHANGED <<pc, doc>> /\ db' = DeleteCandidates(db, staged)
    BY DEF ApplyDoctorCleaners
<1>1. /\ db.ledger # {} /\ KeyTables(db) /\ DataKept(db) /\ PassGood(db, doc)
      /\ Rooted(db) /\ Grown(db.kids) /\ FtsExact(db)
    BY <1>0, ReadyMigrated
<1>2. \E cjk, audit, conv :
        db' = [db EXCEPT !.kids = kids, !.fts = index, !.cjk = cjk, !.summ = rows,
                         !.audit = audit, !.conv = conv]
    BY <1>0 DEF DeleteCandidates
<1>3. \A s \in Summaries : rows[s] = IF s \in gone THEN NoSummary ELSE db.summ[s]
    OBVIOUS
<1>4. DOMAIN index = DOMAIN db.fts \ gone /\ \A s \in DOMAIN index : index[s] = db.fts[s]
    BY DEF Without
<1>5. /\ \A s \in Condensed : kids[s] = IF s \in gone THEN {} ELSE db.kids[s] \ gone
      /\ kids = [s \in Condensed |-> kids[s]]
    OBVIOUS
<1>6. /\ gone \subseteq Summaries
      /\ \A s \in Summaries : db.summ[s].live => (s \in gone <=> db.summ[s].conv \in staged)
      /\ \A s \in gone : db.summ[s].live
    BY DEF LiveSummaries
<1> HIDE DEF rows, kids, index, gone, staged
<1>7. /\ db'.kids = kids /\ db'.ledger = db.ledger /\ db'.columns = db.columns
      /\ db'.summ = rows /\ db'.fts = index /\ db'.tables = db.tables
    BY <1>1, <1>2 DEF KeyTables, Tables
<1>8. NoSummary.live = FALSE
    BY DEF NoSummary
<1>9. /\ Early \subseteq Summaries /\ Later \subseteq Summaries
      /\ Condensed \subseteq Early /\ Early = Leaf \cup Condensed
    BY DEF Early, Summaries
<1>10. FtsExact(db')
    <2>1. \A s \in LiveSummaries(db') : s \in LiveSummaries(db) /\ rows[s] = db.summ[s]
        BY <1>3, <1>7, <1>8 DEF LiveSummaries
    <2> QED
        BY <1>1, <1>4, <1>7, <2>1 DEF FtsExact
<1>11. Grown(kids)
    <2>1. kids \in [Condensed -> SUBSET Early]
        BY <1>1, <1>5, <1>9 DEF Grown
    <2>2. \A s \in Condensed : kids[s] \subseteq db.kids[s]
        BY <1>5
    <2>3. \A s, t \in Condensed : s # t => kids[s] \cap kids[t] = {}
        BY <1>1, <2>2 DEF Grown
    <2>4. \E age \in [Leaf \cup Condensed -> 1 .. Cardinality(Leaf \cup Condensed)] :
             \A s \in Condensed : \A k \in kids[s] : age[k] < age[s]
        BY <1>1, <2>2 DEF Grown
    <2> QED
        BY <1>9, <2>1, <2>3, <2>4 DEF Grown
<1>12. \/ \A s \in Early : ~db'.summ[s].live
       \/ db'.kids = db.kids /\ \A s \in Early : db'.summ[s] = db.summ[s]
    <2>1. CASE \A s \in Early : ~db.summ[s].live
        BY <1>3, <1>6, <1>7, <1>9, <2>1
    <2>2. CASE (\A s \in Early : db.summ[s].live /\ db.summ[s].conv = Home) /\ Home \in staged
        BY <1>3, <1>6, <1>7, <1>8, <1>9, <2>2
    <2>3. CASE (\A s \in Early : db.summ[s].live /\ db.summ[s].conv = Home) /\ Home \notin staged
        <3>1. \A s \in Early : s \notin gone
            BY <1>6, <1>9, <2>3
        <3>2. \A s \in Early : db'.summ[s] = db.summ[s]
            BY <1>3, <1>7, <1>9, <3>1
        <3>3. \A s \in Condensed : kids[s] = db.kids[s]
            <4> TAKE s \in Condensed
            <4>1. db.kids[s] \subseteq Early
                BY <1>1, HasAge
            <4> QED
                BY <1>5, <1>9, <3>1, <4>1
        <3>4. db.kids = [s \in Condensed |-> db.kids[s]]
            BY <1>1 DEF Grown
        <3>5. kids = db.kids
            BY <1>5, <3>3, <3>4
        <3> QED
            BY <1>7, <3>2, <3>5
    <2> QED
        BY <1>1, <2>1, <2>2, <2>3 DEF Rooted
<1>13. \A s \in Later : db'.summ[s].live => db.summ[s].live /\ db'.summ[s] = db.summ[s]
    BY <1>3, <1>7, <1>8, <1>9
<1>14. Follows(db, db') /\ TextsStay(db, db')
    BY <1>7, <1>11, <1>12, <1>13 DEF Follows, TextsStay
<1>15. DataKept(db') /\ PassGood(db', doc)
    BY <1>1, <1>10, <1>14, FollowsKeeps, PassStays
<1> QED
    BY <1>0, <1>1, <1>7, <1>15 DEF DataInv

\* The doctor writes texts and their rows in the index.
LEMMA DoctorWritesData ==
    ASSUME DataInv, KeysInv', NEW p \in Proc, DoctorWrites(p)
    PROVE  DataInv'
<1> DEFINE over == doc.over
           rows == [s \in Summaries |->
                       IF s \in DOMAIN over /\ db.summ[s].live
                       THEN [db.summ[s] EXCEPT !.content = over[s]] ELSE db.summ[s]]
           index == UpdateSummaryFts(db, over)
<1>0. /\ pc[p] = "ready" /\ UNCHANGED pc /\ doc' = IdleDoc
      /\ db' = [db EXCEPT !.summ = rows, !.fts = index]
    BY DEF DoctorWrites
<1>1. /\ db.ledger # {} /\ KeyTables(db) /\ DataKept(db) /\ Grown(db.kids) /\ FtsExact(db)
    BY <1>0, ReadyMigrated
<1>2. ASSUME NEW s \in Summaries
      PROVE  /\ rows[s].live = db.summ[s].live
             /\ rows[s].conv = db.summ[s].conv
             /\ rows[s].depth = db.summ[s].depth
             /\ rows[s].count = db.summ[s].count
             /\ db.summ[s].live =>
                   rows[s].content = IF s \in DOMAIN over THEN over[s] ELSE db.summ[s].content
    <2>1. SummaryTyped(db.summ[s])
        BY <1>1 DEF KeyTables
    <2>2. rows[s] = IF s \in DOMAIN over /\ db.summ[s].live
                    THEN [db.summ[s] EXCEPT !.content = over[s]] ELSE db.summ[s]
        OBVIOUS
    <2> HIDE DEF rows, over
    <2> QED
        BY <2>1, <2>2 DEF SummaryTyped, SummaryColumns
<1> HIDE DEF rows, index, over
<1>3. /\ db'.kids = db.kids /\ db'.ledger = db.ledger /\ db'.columns = db.columns
      /\ db'.summ = rows /\ db'.fts = index /\ db'.tables = db.tables
    BY <1>0, <1>1 DEF KeyTables, Tables
<1>4. FtsExact(db')
    <2>1. LiveSummaries(db') = LiveSummaries(db)
        BY <1>2, <1>3 DEF LiveSummaries
    <2>2. CASE "fts" \notin db.tables
        BY <1>1, <1>3, <2>2 DEF FtsExact, UpdateSummaryFts, index
    <2>3. CASE "fts" \in db.tables
        <3>1. index = [s \in DOMAIN db.fts \cup DOMAIN over |->
                          IF s \in DOMAIN over THEN over[s] ELSE db.fts[s]]
            BY <2>3 DEF UpdateSummaryFts, index
        <3>2. ASSUME NEW s \in DOMAIN index \cap LiveSummaries(db)
              PROVE  index[s] = rows[s].content
            <4>1. s \in Summaries /\ db.summ[s].live
                BY <3>2 DEF LiveSummaries
            <4>2. CASE s \in DOMAIN over
                BY <1>2, <3>1, <4>1, <4>2
            <4>3. CASE s \notin DOMAIN over
                <5>1. s \in DOMAIN db.fts \cap LiveSummaries(db) /\ index[s] = db.fts[s]
                    BY <3>1, <3>2, <4>3
                <5> QED
                    BY <1>1, <1>2, <4>1, <4>3, <5>1 DEF FtsExact
            <4> QED
                BY <4>2, <4>3
        <3> QED
            BY <1>3, <2>1, <2>3, <3>2 DEF FtsExact
    <2> QED
        BY <2>2, <2>3
<1>5. Follows(db, db')
    <2>1. Early \subseteq Summaries /\ Later \subseteq Summaries
        BY DEF Early, Summaries
    <2> QED
        BY <1>1, <1>2, <1>3, <2>1 DEF Follows
<1>6. DataKept(db')
    BY <1>1, <1>4, <1>5, FollowsKeeps
<1>7. PassGood(db', doc')
    BY <1>0, IdlePass
<1> QED
    BY <1>0, <1>1, <1>3, <1>6, <1>7 DEF DataInv

-----------------------------------------------------------------------------
(* The pass.                                                               *)

\* The targets are queued by depth.
LEMMA DoctorStartData ==
    ASSUME DataInv, KeysInv', NEW p \in Proc, NEW c \in Convs, DoctorStart(p, c)
    PROVE  DataInv'
<1> DEFINE T == LoadDoctorTargets(db, c)
           o == ByDepth(db, T)
<1>0. /\ pc[p] = "ready" /\ UNCHANGED <<db, pc>>
      /\ doc' = [proc |-> p, todo |-> o, over |-> <<>>, skipped |-> {}]
    BY DEF DoctorStart, Request, OrderDoctorTargets
<1>1. /\ db.ledger # {} /\ DataKept(db) /\ DerivedAt(db) /\ Rooted(db) /\ Grown(db.kids)
    BY <1>0, ReadyMigrated
<1>2. \A s : s \in T <=> /\ s \in Summaries /\ db.summ[s].live /\ db.summ[s].conv = c
                         /\ db.summ[s].content = "marked"
    BY DEF LoadDoctorTargets, SummariesOf, LiveSummaries, DetectDoctorMarker
<1> HIDE DEF T
<1>3. IsFiniteSet(T)
    BY <1>2, EarlyFinite, FS_Subset
<1>4. \A s \in Summaries : db.summ[s].live => db.summ[s].depth = Height(db.kids)[s]
    BY <1>1 DEF DerivedAt, LiveSummaries
<1>5. \A s \in T : db.summ[s].depth \in Nat
    BY <1>1, <1>2, <1>4, HeightFacts
<1>6. /\ Lists(o, db, T)
      /\ \A s \in T : \E i \in 1 .. Cardinality(T) : o[i] = s
    BY <1>3, <1>5, ByDepthIs
<1> HIDE DEF o
<1> DEFINE n == Cardinality(T)
<1>7. n \in Nat /\ o \in [1 .. n -> T]
    BY <1>3, <1>6, FS_CardinalityType DEF Lists
<1>8. o \in Seq(Summaries)
    <2>1. o \in [1 .. n -> Summaries]
        BY <1>2, <1>7
    <2> HIDE DEF n
    <2> QED
        BY <1>7, <2>1
<1>9. ASSUME NEW i \in 1 .. n, o[i] \in Condensed, NEW k \in db.kids[o[i]],
             db.summ[k].live, db.summ[k].content = "marked"
      PROVE  k \in {o[j] : j \in 1 .. i - 1}
    <2> DEFINE s == o[i]
    <2>1. s \in T /\ s \in Early /\ k \in Early /\ k \in Summaries /\ s \in Summaries
        BY <1>1, <1>7, <1>9, HasAge DEF Early, Summaries
    <2>2. db.summ[s].conv = c /\ db.summ[s].live
        BY <1>2, <2>1
    <2>3. db.summ[k].conv = c
        BY <1>1, <2>1, <2>2 DEF Rooted
    <2>4. k \in T
        BY <1>2, <1>9, <2>1, <2>3
    <2>5. PICK j \in 1 .. n : o[j] = k
        BY <1>6, <2>4
    <2>6. db.summ[k].depth < db.summ[s].depth
        BY <1>1, <1>4, <1>9, <2>1, <2>2, HeightFacts
    <2>7. db.summ[k].depth \in Nat /\ db.summ[s].depth \in Nat
        BY <1>5, <2>1, <2>4
    <2>8. i < j => db.summ[s].depth <= db.summ[k].depth
        <3>1. DOMAIN o = 1 .. n
            BY <1>7
        <3> QED
            BY <1>6, <2>5, <3>1 DEF Lists
    <2>9. i # j
        BY <2>5, <2>6, <2>7
    <2>10. ~(i < j)
        BY <2>6, <2>7, <2>8
    <2>11. j \in 1 .. i - 1
        BY <1>7, <2>9, <2>10
    <2> QED
        BY <2>5, <2>11
<1>10. /\ doc' = [f \in {"proc", "todo", "over", "skipped"} |-> doc'[f]]
       /\ doc'.todo = o /\ DOMAIN doc'.over = {} /\ doc'.skipped = {}
    <2>1. DOMAIN <<>> = {}
        OBVIOUS
    <2>2. /\ doc' = [f \in {"proc", "todo", "over", "skipped"} |-> doc'[f]]
          /\ doc'.todo = o /\ doc'.over = <<>> /\ doc'.skipped = {}
        BY <1>0
    <2> QED
        BY <2>1, <2>2
<1>11. RewritesGood(db, doc')
    BY <1>10 DEF RewritesGood
<1>12. Queued(db, doc')
    <2>1. DOMAIN o = 1 .. n
        BY <1>7
    <2> HIDE DEF n
    <2> QED
        BY <1>9, <1>10, <2>1 DEF Queued
<1>13. Distinct(doc')
    BY <1>6, <1>10 DEF Distinct, Lists, IsInjective
<1>14. PassGood(db, doc')
    BY <1>8, <1>10, <1>11, <1>12, <1>13 DEF PassGood
<1> QED
    BY <1>0, <1>1, <1>14 DEF DataInv

\* The next target leaves the queue and is among those tried.
LEMMA QueueMoves ==
    ASSUME NEW d, NEW q, PassGood(d, q), q.todo # <<>>, NEW r,
           r.todo = Tail(q.todo), DOMAIN r.over \subseteq DOMAIN q.over \cup {Head(q.todo)},
           DOMAIN q.over \cup q.skipped \cup {Head(q.todo)} \subseteq DOMAIN r.over \cup r.skipped
    PROVE  /\ r.todo \in Seq(Summaries) /\ Distinct(r) /\ Queued(d, r)
           /\ Head(q.todo) \in Summaries \ DOMAIN q.over
           /\ 1 \in DOMAIN q.todo /\ Head(q.todo) = q.todo[1]
<1> DEFINE t == q.todo
           n == Len(t)
<1>1. /\ t \in Seq(Summaries) /\ n \in Nat \ {0} /\ DOMAIN t = 1 .. n
      /\ Tail(t) \in Seq(Summaries) /\ DOMAIN Tail(t) = 1 .. n - 1
      /\ \A i \in 1 .. n - 1 : Tail(t)[i] = t[i + 1]
      /\ Head(t) = t[1]
    <2>1. t \in Seq(Summaries) /\ t # <<>>
        BY DEF PassGood
    <2> HIDE DEF t
    <2> QED
        BY <2>1
<1>2. ASSUME NEW i \in 1 .. n - 1, r.todo[i] \in Condensed, d.summ[r.todo[i]].live,
             NEW k \in d.kids[r.todo[i]], d.summ[k].live, d.summ[k].content = "marked"
      PROVE  k \in DOMAIN r.over \cup r.skipped \cup {r.todo[j] : j \in 1 .. i - 1}
    <2>1. i + 1 \in 1 .. n /\ r.todo[i] = t[i + 1]
        BY <1>1
    <2>2. k \in DOMAIN q.over \cup q.skipped \cup {t[j] : j \in 1 .. (i + 1) - 1}
        BY <1>1, <1>2, <2>1 DEF PassGood, Queued
    <2>3. ASSUME NEW j \in 1 .. (i + 1) - 1, k = t[j], j # 1
          PROVE  k \in {r.todo[m] : m \in 1 .. i - 1}
        <3>1. j - 1 \in 1 .. i - 1 /\ j - 1 \in 1 .. n - 1 /\ j - 1 + 1 = j
            BY <1>1, <2>3
        <3>2. r.todo[j - 1] = t[j]
            BY <1>1, <3>1
        <3> QED
            BY <2>3, <3>1, <3>2
    <2> QED
        BY <1>1, <2>2, <2>3
<1>3. DOMAIN r.todo = 1 .. n - 1 /\ r.todo \in Seq(Summaries)
    BY <1>1
<1>4. 1 \in DOMAIN t /\ Head(t) \in Summaries \ DOMAIN q.over
    <2>1. 1 \in DOMAIN t
        BY <1>1
    <2>2. t[1] \notin DOMAIN q.over
        BY <2>1 DEF PassGood, Distinct
    <2>3. t[1] \in Summaries
        BY <1>1, <2>1
    <2> QED
        BY <1>1, <2>1, <2>2, <2>3
<1>5. Distinct(r)
    <2>1. \A i \in 1 .. n - 1 : i + 1 \in 1 .. n /\ i + 1 # 1 /\ r.todo[i] = t[i + 1]
        BY <1>1
    <2>2. /\ \A i, j \in 1 .. n : t[i] = t[j] => i = j
          /\ \A i \in 1 .. n : t[i] \notin DOMAIN q.over
        BY <1>1 DEF PassGood, Distinct
    <2>3. \A i \in 1 .. n - 1 : r.todo[i] \notin DOMAIN r.over
        BY <1>1, <1>4, <2>1, <2>2
    <2>4. ASSUME NEW i \in 1 .. n - 1, NEW j \in 1 .. n - 1, r.todo[i] = r.todo[j] PROVE i = j
        <3>1. i + 1 = j + 1
            BY <2>1, <2>2, <2>4
        <3> QED
            BY <1>1, <3>1
    <2> HIDE DEF n, t
    <2> QED
        BY <1>3, <2>3, <2>4 DEF Distinct
<1> HIDE DEF n
<1> QED
    BY <1>1, <1>2, <1>3, <1>4, <1>5 DEF Queued

\* What the pass wrote and skipped before it stays traced.
LEMMA TracesStay ==
    ASSUME NEW d, NEW q, NEW r, NEW x, Traced(d, q, x), q.skipped \subseteq r.skipped,
           DOMAIN q.over \subseteq DOMAIN r.over, \A k \in DOMAIN q.over : r.over[k] = q.over[k]
    PROVE  Traced(d, r, x)
BY DEF Traced

\* A rewrite is tainted by a source that was tried only.
LEMMA RewriteTraced ==
    ASSUME NEW d, NEW q, PassGood(d, q), 1 \in DOMAIN q.todo, NEW s, s = q.todo[1],
           d.summ[s].live, s \in Condensed,
           SourceContents(d, s, q.over) \cap {"marked", "tainted"} # {}
    PROVE  Traced(d, q, s)
<1>1. PICK k \in d.kids[s] \cap LiveSummaries(d) :
         (IF k \in DOMAIN q.over THEN q.over[k] ELSE d.summ[k].content) \in {"marked", "tainted"}
    BY DEF SourceContents
<1>2. CASE k \in DOMAIN q.over
    <2>1. q.over[k] # "marked"
        BY <1>2 DEF PassGood, RewritesGood
    <2> QED
        BY <1>1, <1>2, <2>1 DEF Traced
<1>3. CASE k \notin DOMAIN q.over /\ d.summ[k].content = "marked"
    <2>1. d.summ[k].live
        BY <1>1 DEF LiveSummaries
    <2>2. k \in DOMAIN q.over \cup q.skipped \cup {q.todo[j] : j \in 1 .. 1 - 1}
        BY <1>1, <1>3, <2>1 DEF PassGood, Queued
    <2>3. k \in q.skipped
        BY <1>3, <2>2
    <2> QED
        BY <1>1, <2>3 DEF Traced
<1>4. CASE k \notin DOMAIN q.over /\ d.summ[k].content # "marked"
    BY <1>1, <1>4 DEF Traced
<1> QED
    BY <1>2, <1>3, <1>4

\* The doctor rewrites a target.
LEMMA DoctorRewritesData ==
    ASSUME DataInv, KeysInv', NEW p \in Proc, DoctorRewrites(p)
    PROVE  DataInv'
<1>0. pc[p] = "ready" /\ doc.todo # <<>> /\ UNCHANGED <<db, pc>>
    BY DEF DoctorRewrites
<1>1. /\ db.ledger # {} /\ DataKept(db) /\ PassGood(db, doc) /\ Grown(db.kids)
    BY <1>0, ReadyMigrated
<1> DEFINE s == Head(doc.todo)
<1>2. PICK outcome \in DoctorOutcomes :
          /\ Usable(outcome)
          /\ DoctorNext(Put(doc.over, s, Rewritten(db, s, doc.over, outcome)), doc.skipped)
    BY DEF DoctorRewrites
<1> DEFINE v == Rewritten(db, s, doc.over, outcome)
           over == Put(doc.over, s, v)
<1>3. outcome = "text"
    BY <1>2, OutcomesEnd DEF Usable, DetectDoctorMarker
<1>4. /\ v \in {"tainted", "sound"}
      /\ v = "tainted" => /\ s \in Condensed
                          /\ SourceContents(db, s, doc.over) \cap {"marked", "tainted"} # {}
    BY <1>3 DEF Rewritten, IsCondensedTarget
<1>5. /\ DOMAIN over = DOMAIN doc.over \cup {s}
      /\ over[s] = v /\ \A x \in DOMAIN doc.over : x # s => over[x] = doc.over[x]
    BY DEF Put
<1>6. /\ doc' = [f \in {"proc", "todo", "over", "skipped"} |-> doc'[f]]
      /\ doc'.todo = Tail(doc.todo) /\ doc'.over = over /\ doc'.skipped = doc.skipped
    <2>1. doc' = [doc EXCEPT !.todo = Tail(@), !.over = over, !.skipped = doc.skipped]
        BY <1>2 DEF DoctorNext
    <2> HIDE DEF over
    <2> QED
        BY <1>1, <2>1 DEF PassGood
<1> HIDE DEF v, s, over
<1>7. /\ doc'.todo \in Seq(Summaries) /\ Distinct(doc') /\ Queued(db, doc')
      /\ s \in Summaries \ DOMAIN doc.over /\ 1 \in DOMAIN doc.todo /\ s = doc.todo[1]
    <2>1. /\ doc'.todo = Tail(doc.todo)
          /\ DOMAIN doc'.over = DOMAIN doc.over \cup {Head(doc.todo)}
          /\ doc'.skipped = doc.skipped
        BY <1>5, <1>6 DEF s
    <2>2. /\ DOMAIN doc'.over \subseteq DOMAIN doc.over \cup {Head(doc.todo)}
          /\ DOMAIN doc.over \cup doc.skipped \cup {Head(doc.todo)}
                \subseteq DOMAIN doc'.over \cup doc'.skipped
        BY <2>1
    <2> QED
        BY <1>0, <1>1, <2>1, <2>2, QueueMoves DEF s
<1>8. \A x : Traced(db, doc, x) => Traced(db, doc', x)
    BY <1>5, <1>6, <1>7, TracesStay
<1>9. v = "tainted" /\ db.summ[s].live => Traced(db, doc, s)
    BY <1>1, <1>4, <1>7, RewriteTraced
<1>10. RewritesGood(db, doc')
    <2> SUFFICES ASSUME NEW x \in DOMAIN over
                 PROVE  /\ over[x] # "marked"
                        /\ over[x] = "tainted" => x \in Condensed
                                                  /\ (db.summ[x].live => Traced(db, doc', x))
        BY <1>6 DEF RewritesGood
    <2>1. CASE x = s
        BY <1>4, <1>5, <1>8, <1>9, <2>1
    <2>2. CASE x # s
        BY <1>1, <1>5, <1>8, <2>2 DEF PassGood, RewritesGood
    <2> QED
        BY <2>1, <2>2
<1>11. PassGood(db, doc')
    BY <1>6, <1>7, <1>10 DEF PassGood
<1> QED
    BY <1>0, <1>1, <1>11 DEF DataInv

\* The doctor skips a target.
LEMMA DoctorSkipsData ==
    ASSUME DataInv, KeysInv', NEW p \in Proc, DoctorSkips(p)
    PROVE  DataInv'
<1>0. pc[p] = "ready" /\ doc.todo # <<>> /\ UNCHANGED <<db, pc>>
    BY DEF DoctorSkips
<1>1. /\ db.ledger # {} /\ DataKept(db) /\ PassGood(db, doc)
    BY <1>0, ReadyMigrated
<1>2. /\ doc' = [f \in {"proc", "todo", "over", "skipped"} |-> doc'[f]]
      /\ doc'.todo = Tail(doc.todo) /\ doc'.over = doc.over
      /\ doc'.skipped = doc.skipped \cup {Head(doc.todo)}
    BY <1>1 DEF DoctorSkips, DoctorNext, PassGood
<1>3. doc'.todo \in Seq(Summaries) /\ Distinct(doc') /\ Queued(db, doc')
    BY <1>0, <1>1, <1>2, QueueMoves
<1>4. \A x : Traced(db, doc, x) => Traced(db, doc', x)
    BY <1>2, TracesStay
<1>5. RewritesGood(db, doc')
    BY <1>1, <1>2, <1>4 DEF PassGood, RewritesGood
<1>6. PassGood(db, doc')
    BY <1>2, <1>3, <1>5 DEF PassGood
<1> QED
    BY <1>0, <1>1, <1>6 DEF DataInv

-----------------------------------------------------------------------------
(* The invariant.                                                          *)

\* The database found.
LEMMA DataInit == UpkeepInit => DataInv
<1> SUFFICES ASSUME UpkeepInit PROVE DataInv
    OBVIOUS
<1>1. PICK legacy \in Legacies : db = Found(legacy)
    BY DEF UpkeepInit
<1>2. Grown(legacy.kids)
    BY LegacyAssumption
<1>3. /\ db.ledger = {} /\ db.columns = {} /\ db.kids = legacy.kids /\ db.fts = <<>>
      /\ \A s \in Summaries : /\ s \in Later => ~db.summ[s].live
                              /\ s \notin Later => db.summ[s].live /\ db.summ[s].conv = Home
    BY <1>1 DEF Found, NoSummary
<1>4. Early \subseteq Summaries /\ Later \subseteq Summaries /\ \A s \in Early : s \notin Later
    BY EarlyFinite DEF Early, Summaries
<1>5. Whole(db) /\ Rooted(db)
    BY <1>2, <1>3, <1>4 DEF Whole, Rooted
<1>6. FtsExact(db)
    BY <1>3 DEF FtsExact
<1>7. DataKept(db)
    BY <1>3, <1>5, <1>6 DEF DataKept, Raw
<1>8. PassGood(db, doc)
    BY IdlePass DEF UpkeepInit
<1> QED
    BY <1>7, <1>8, KeysInit DEF DataInv, UpkeepInit

\* The invariant is inductive, one step per action.
LEMMA DataStep == DataInv /\ [UpkeepNext]_upkeepVars => DataInv'
<1> SUFFICES ASSUME DataInv, [UpkeepNext]_upkeepVars PROVE DataInv'
    OBVIOUS
<1>0. KeysInv /\ KeysInv'
    BY KeysStep DEF DataInv
<1>1. CASE UNCHANGED upkeepVars
    BY <1>0, <1>1 DEF upkeepVars, DataInv
<1>2. CASE UpkeepNext
    <2>1. PICK p \in Proc :
            \/ OpenLcmDb(p) \/ RunLcmMigrations(p) \/ MigrationFails(p) \/ CloseLcmDb(p)
            \/ \E sid \in 1..2, k \in CallerKeys \cup {NullKey} : GetConversation(p, sid, k)
            \/ CreateConversation(p)
            \/ \E c \in Convs : ArchiveConversation(p, c) \/ DoctorStart(p, c)
            \/ \E s \in Later, c \in Convs, m \in {"sound", "marked"} : InsertSummary(p, s, c, m)
            \/ \E from \in (SUBSET KeysInUse(db)) \ {{}}, to \in CallerKeys :
                   ReconcileSessionKeys(p, from, to)
            \/ ScanDoctorCleaners(p) \/ WriteDatabaseBackup(p) \/ ApplyDoctorCleaners(p)
            \/ DoctorRewrites(p) \/ DoctorSkips(p) \/ DoctorWrites(p)
        BY <1>2 DEF UpkeepNext
    <2>2. CASE OpenLcmDb(p) \/ MigrationFails(p)
        <3>1. /\ UNCHANGED <<db, doc>>
              /\ \E state \in {"open", "closed"} : pc' = [pc EXCEPT ![p] = state]
            BY <2>2 DEF OpenLcmDb, MigrationFails
        <3>2. /\ pc' = [q \in Proc |-> pc'[q]]
              /\ \A q \in Proc : pc[q] # "ready" => pc'[q] # "ready"
            BY <3>1 DEF DataInv
        <3> QED
            BY <1>0, <3>1, <3>2 DEF DataInv
    <2>3. CASE RunLcmMigrations(p)
        <3> DEFINE e == Migrated(db)
        <3>1. db' = e /\ UNCHANGED doc /\ pc' = [pc EXCEPT ![p] = "ready"]
            BY <2>3 DEF RunLcmMigrations
        <3>2. /\ DataKept(e) /\ e.ledger # {}
              /\ db.ledger # {} => SameData(db, e)
            BY <1>0, MigratedData DEF DataInv, KeysInv
        <3> HIDE DEF e
        <3>3. PassGood(e, doc)
            <4>1. CASE db.ledger = {}
                BY <4>1, IdlePass DEF DataInv
            <4>2. CASE db.ledger # {}
                BY <3>2, <4>2, SameDataKeeps DEF DataInv
            <4> QED
                BY <4>1, <4>2
        <3>4. pc' = [q \in Proc |-> pc'[q]]
            BY <3>1 DEF DataInv
        <3> QED
            BY <1>0, <3>1, <3>2, <3>3, <3>4 DEF DataInv
    <2>4. CASE CloseLcmDb(p)
        <3>1. /\ UNCHANGED db /\ doc' \in {doc, IdleDoc} /\ pc' = [pc EXCEPT ![p] = "closed"]
            BY <2>4 DEF CloseLcmDb
        <3>2. /\ pc' = [q \in Proc |-> pc'[q]]
              /\ \A q \in Proc : pc[q] # "ready" => pc'[q] # "ready"
            BY <3>1 DEF DataInv
        <3>3. PassGood(db, doc')
            BY <3>1, IdlePass DEF DataInv
        <3>4. db.ledger = {} => doc' = IdleDoc /\ \A q \in Proc : pc'[q] # "ready"
            BY <3>1, <3>2 DEF DataInv
        <3> QED
            BY <1>0, <3>1, <3>2, <3>3, <3>4 DEF DataInv
    <2>5. CASE \/ \E sid \in 1..2, k \in CallerKeys \cup {NullKey} : GetConversation(p, sid, k)
               \/ CreateConversation(p)
               \/ \E c \in Convs : ArchiveConversation(p, c)
        BY <1>0, <2>5, ConversationStepsData, QuietKeeps
    <2>6. CASE \E from \in (SUBSET KeysInUse(db)) \ {{}}, to \in CallerKeys :
                   ReconcileSessionKeys(p, from, to)
        BY <1>0, <2>6, ReconcileData, QuietKeeps
    <2>7. CASE ScanDoctorCleaners(p) \/ WriteDatabaseBackup(p)
        <3>1. UNCHANGED <<db, pc, doc>>
            BY <2>7 DEF ScanDoctorCleaners, WriteDatabaseBackup
        <3> QED
            BY <1>0, <3>1 DEF DataInv
    <2>8. CASE \E c \in Convs : DoctorStart(p, c)
        BY <1>0, <2>8, DoctorStartData
    <2>9. CASE \E s \in Later, c \in Convs, m \in {"sound", "marked"} : InsertSummary(p, s, c, m)
        BY <1>0, <2>9, InsertData
    <2> QED
        BY <1>0, <2>1, <2>2, <2>3, <2>4, <2>5, <2>6, <2>7, <2>8, <2>9, CleanersData,
           DoctorRewritesData, DoctorSkipsData, DoctorWritesData
<1> QED
    BY <1>1, <1>2

\* The invariant of the specification.
LEMMA DataInvariance == UpkeepSpec => []DataInv
BY DataInit, DataStep, PTL DEF UpkeepSpec

(***************************************************************************)
(* DerivedExact: whatever trees of summaries the database was found with,  *)
(* and whatever the processes do afterwards, once one of them has run the  *)
(* ladder the depth of every summary is the height of the tree under it    *)
(* and descendant_count the number of summaries in it                      *)
(* (_backfill_summary_depths, _backfill_summary_metadata).                 *)
(***************************************************************************)
THEOREM DerivedColumns == UpkeepSpec => []DerivedExact
<1>1. DataInv => DerivedExact
    BY DEF DataInv, DataKept, Laddered, DerivedAt, DerivedExact, Current
<1> QED
    BY <1>1, DataInvariance, PTL

(***************************************************************************)
(* RepairSound: for every set of providers and every order of steps of the *)
(* processes, a repair is never a fallback, it carries marker text of a    *)
(* source only if that one could not be repaired in the same pass, and     *)
(* summaries_fts holds the texts of the summaries (_order_doctor_targets,  *)
(* _build_condensed_source_text, _update_summary_fts, summarize).          *)
(***************************************************************************)
THEOREM RepairsSound == UpkeepSpec => []RepairSound
<1>1. DataInv => RepairSound
    <2> SUFFICES ASSUME DataInv PROVE RepairSound
        OBVIOUS
    <2>1. RewritesGood(db, doc) /\ FtsExact(db)
        BY DEF DataInv, PassGood, DataKept
    <2> QED
        BY <2>1 DEF RewritesGood, Traced, FtsExact, RepairSound, DetectDoctorMarker
<1> QED
    BY <1>1, DataInvariance, PTL
=============================================================================
