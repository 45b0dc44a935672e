---------------------------- MODULE SessionLocks ----------------------------
(***************************************************************************)
(* SessionLockRegistry (engine/session_locks.py): one lock per session, in *)
(* a dictionary whose idle records are pruned.  acquire_sync looks the     *)
(* record up and counts itself in under the dictionary's own lock, waits   *)
(* for the record's lock outside it, and on the way out counts itself out  *)
(* by looking the session up again.  Pruning forgets records that nobody   *)
(* counts on, so that a session may get a new record, with a new lock,     *)
(* while a thread still remembers an old one.                              *)
(*                                                                         *)
(* Lock objects are named by members of LockIds; an object is reused only  *)
(* when neither the dictionary nor a thread refers to it.  acquire, the    *)
(* asyncio twin, has the same steps.                                       *)
(***************************************************************************)
EXTENDS Integers, FiniteSets

CONSTANTS
    Threads,        \* threads (or tasks) that acquire session locks
    Sessions,       \* session ids
    LockIds,        \* identities of lock objects
    HighWaterMark   \* high_water_mark

NoLock == "none"

ASSUME RegistryAssumption ==
    /\ IsFiniteSet(Threads)
    /\ IsFiniteSet(Sessions)
    /\ HighWaterMark \in Nat
    /\ NoLock \notin LockIds \cup Sessions

VARIABLES
    reg,     \* _sync_records: the session's lock object, or NoLock
    refcount, \* refcount of the session's record; 0 without one
    pc,      \* where each thread is in acquire_sync
    sess,    \* session each thread acquires, or NoLock
    mine     \* lock object each thread got from the dictionary, or NoLock

locksVars == <<reg, refcount, pc, sess, mine>>

TypeOK ==
    /\ reg \in [Sessions -> LockIds \cup {NoLock}]
    /\ refcount \in [Sessions -> Nat]
    /\ pc \in [Threads -> {"idle", "waiting", "body", "leaving"}]
    /\ sess \in [Threads -> Sessions \cup {NoLock}]
    /\ mine \in [Threads -> LockIds \cup {NoLock}]

LocksInit ==
    /\ reg = [s \in Sessions |-> NoLock]
    /\ refcount = [s \in Sessions |-> 0]
    /\ pc = [t \in Threads |-> "idle"]
    /\ sess = [t \in Threads |-> NoLock]
    /\ mine = [t \in Threads |-> NoLock]

-----------------------------------------------------------------------------
\* A lock object nobody refers to: what a constructor returns.
Fresh(l) ==
    /\ \A s \in Sessions : reg[s] # l
    /\ \A t \in Threads : mine[t] # l

\* _acquire_sync_record: get or create, and count in.
AcquireRecord(t, s) ==
    /\ pc[t] = "idle"
    /\ \E l \in LockIds :
        /\ IF reg[s] = NoLock THEN Fresh(l) ELSE l = reg[s]
        /\ reg' = [reg EXCEPT ![s] = l]
        /\ mine' = [mine EXCEPT ![t] = l]
    /\ refcount' = [refcount EXCEPT ![s] = @ + 1]
    /\ sess' = [sess EXCEPT ![t] = s]
    /\ pc' = [pc EXCEPT ![t] = "waiting"]

\* with record.lock: a thread that has this very object holds it in its body.
EnterBody(t) ==
    /\ pc[t] = "waiting"
    /\ \A u \in Threads : pc[u] = "body" => mine[u] # mine[t]
    /\ pc' = [pc EXCEPT ![t] = "body"]
    /\ UNCHANGED <<reg, refcount, sess, mine>>

\* The body ends, normally or not, and the lock is released.
LeaveBody(t) ==
    /\ pc[t] = "body"
    /\ pc' = [pc EXCEPT ![t] = "leaving"]
    /\ UNCHANGED <<reg, refcount, sess, mine>>

\* Mutant of GiveUp: a wait that ends without the lock does not count itself out.
GiveUpUncounted(t) ==
    /\ pc[t] = "waiting"
    /\ pc' = [pc EXCEPT ![t] = "idle"]
    /\ sess' = [sess EXCEPT ![t] = NoLock]
    /\ mine' = [mine EXCEPT ![t] = NoLock]
    /\ UNCHANGED <<reg, refcount>>

\* The wait for the lock is interrupted or cancelled: finally runs all the same.
GiveUp(t) ==
    /\ pc[t] = "waiting"
    /\ pc' = [pc EXCEPT ![t] = "leaving"]
    /\ UNCHANGED <<reg, refcount, sess, mine>>

\* Mutant of Pruned: every record goes.
PrunedAll(n) == [s \in Sessions |-> NoLock]

\* The records that survive _prune_sync_locked, given the refcounts n.
Pruned(n) == [s \in Sessions |-> IF n[s] = 0 THEN NoLock ELSE reg[s]]

Registered == {s \in Sessions : reg[s] # NoLock}

\* _release_sync_record: count out the session's record, prune past the mark.
ReleaseRecord(t) ==
    LET s == sess[t]
        n == IF reg[s] # NoLock THEN [refcount EXCEPT ![s] = @ - 1] ELSE refcount
    IN  /\ pc[t] = "leaving"
        /\ refcount' = n
        /\ reg' = IF Cardinality(Registered) > HighWaterMark THEN Pruned(n) ELSE reg
        /\ pc' = [pc EXCEPT ![t] = "idle"]
        /\ sess' = [sess EXCEPT ![t] = NoLock]
        /\ mine' = [mine EXCEPT ![t] = NoLock]

\* prune_sync, called from outside.
Prune ==
    /\ reg' = Pruned(refcount)
    /\ UNCHANGED <<refcount, pc, sess, mine>>

-----------------------------------------------------------------------------
LocksNext ==
    \/ \E t \in Threads :
        \/ \E s \in Sessions : AcquireRecord(t, s)
        \/ EnterBody(t) \/ LeaveBody(t) \/ GiveUp(t) \/ ReleaseRecord(t)
    \/ Prune

LocksSpec == LocksInit /\ [][LocksNext]_locksVars

-----------------------------------------------------------------------------
\* The threads counted on the record of session s.
Users(s) == {t \in Threads : sess[t] = s}

\* Safety, for the refcount against pruning.  Two threads never run their
\* bodies for the same session at once, although locks are dropped from the
\* dictionary and recreated.
SessionExclusive ==
    \A t, u \in Threads :
        pc[t] = "body" /\ pc[u] = "body" /\ sess[t] = sess[u] => t = u

\* Safety, for the second lookup in _release_sync_record.  The record a thread
\* counts itself out of is the one it counted itself in: the dictionary keeps
\* every record in use, under its session, and no refcount drifts.
RecordsKept ==
    /\ \A t \in Threads : sess[t] # NoLock => mine[t] = reg[sess[t]]
    /\ \A s \in Sessions : refcount[s] = Cardinality(Users(s))

\* Safety, for "the dict cannot grow without bound".  At most HighWaterMark
\* records are idle, so the dictionary's size is bounded by the mark plus the
\* threads at work, however many sessions come by, waits are cancelled and records
\* are pruned by others between a count and the next.
IdleBounded ==
    Cardinality({s \in Registered : Users(s) = {}}) <= HighWaterMark
=============================================================================
