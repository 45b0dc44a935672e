------------------------------ MODULE WorkerLock ------------------------------
(***************************************************************************)
(* run_with_heartbeat (concurrency/worker_lock.py) executed by several     *)
(* processes that contend for the lock of one job kind, and the operator's *)
(* force_release_lock (operator/worker_orchestrator.py).                   *)
(*                                                                         *)
(* A worker acquires the lock in two statements (the GC of an expired row  *)
(* and the INSERT OR IGNORE, autocommitted one by one on connections       *)
(* opened by open_lcm_db), runs its body while an asyncio task renews the  *)
(* lease, and releases the lock on the way out.  The body and the          *)
(* heartbeat task interleave; a worker may stall for any time (the clock   *)
(* ticks whatever the workers do) and may crash at any point.              *)
(*                                                                         *)
(* lease and evicted are history variables: lease[w] is how long the last  *)
(* successful acquire or heartbeat of w promised it the lock for, and      *)
(* evicted the workers whose row an operator deleted.                      *)
(***************************************************************************)
EXTENDS LockTable

VARIABLES
    row,       \* the lcm_worker_lock row
    pc,        \* pc[w]: where run_with_heartbeat of w is
    stolen,    \* stolen[w]: stolen_event.is_set()
    beating,   \* beating[w]: the heartbeat task of w is alive
    lease,     \* history: ticks left of the last lease w obtained
    evicted,   \* history: workers whose row an operator deleted
    guard      \* force_release_lock's read holder, between its two statements

vars == <<row, pc, stolen, beating, lease, evicted, guard>>

NoGuard == "none"

ASSUME GuardAssumption == NoGuard \notin Workers

PCs == {"idle", "insert", "body", "closing", "crashed"}

TypeOK ==
    /\ row \in Rows
    /\ pc \in [Workers -> PCs]
    /\ stolen \in [Workers -> BOOLEAN]
    /\ beating \in [Workers -> BOOLEAN]
    /\ lease \in [Workers -> 0 .. TTL]
    /\ evicted \in SUBSET Workers
    /\ guard \in Workers \cup {NoGuard}

Init ==
    /\ row = NoRow
    /\ pc = [w \in Workers |-> "idle"]
    /\ stolen = [w \in Workers |-> FALSE]
    /\ beating = [w \in Workers |-> FALSE]
    /\ lease = [w \in Workers |-> 0]
    /\ evicted = {}
    /\ guard = NoGuard

-----------------------------------------------------------------------------
\* acquire_lock, first statement: drop an expired row.
AcquireGc(w) ==
    /\ pc[w] = "idle"
    /\ row' = GcExpired(row)
    /\ pc' = [pc EXCEPT ![w] = "insert"]
    /\ UNCHANGED <<stolen, beating, lease, evicted, guard>>

\* acquire_lock, second statement, when its rowcount is 1: the stolen event
\* and the heartbeat task are created and the body starts.
AcquireInsert(w) ==
    /\ pc[w] = "insert"
    /\ ~row.held
    /\ row' = InsertOrIgnore(row, w)
    /\ pc' = [pc EXCEPT ![w] = "body"]
    /\ stolen' = [stolen EXCEPT ![w] = FALSE]
    /\ beating' = [beating EXCEPT ![w] = TRUE]
    /\ lease' = [lease EXCEPT ![w] = TTL]
    /\ evicted' = evicted \ {w}
    /\ UNCHANGED guard

\* The row is taken: rowcount is 0 and run_with_heartbeat returns None.
AcquireRefused(w) ==
    /\ pc[w] = "insert"
    /\ row.held
    /\ row' = InsertOrIgnore(row, w)
    /\ pc' = [pc EXCEPT ![w] = "idle"]
    /\ UNCHANGED <<stolen, beating, lease, evicted, guard>>

\* One turn of _heartbeat_loop after its sleep, heartbeat_lock succeeding.
HeartbeatOk(w) ==
    /\ beating[w]
    /\ ~stolen[w]
    /\ Renewable(row, w)
    /\ row' = HeartbeatLock(row, w)
    /\ lease' = [lease EXCEPT ![w] = TTL]
    /\ UNCHANGED <<pc, stolen, beating, evicted, guard>>

\* Mutant of HeartbeatLost: the task ends without setting the event.
HeartbeatLostSilently(w) ==
    /\ beating[w]
    /\ ~stolen[w]
    /\ ~Renewable(row, w)
    /\ row' = HeartbeatLock(row, w)
    /\ beating' = [beating EXCEPT ![w] = FALSE]
    /\ UNCHANGED <<pc, stolen, lease, evicted, guard>>

\* heartbeat_lock matched no row: the event is set and the task returns.
HeartbeatLost(w) ==
    /\ beating[w]
    /\ ~stolen[w]
    /\ ~Renewable(row, w)
    /\ row' = HeartbeatLock(row, w)
    /\ stolen' = [stolen EXCEPT ![w] = TRUE]
    /\ beating' = [beating EXCEPT ![w] = FALSE]
    /\ UNCHANGED <<pc, lease, evicted, guard>>

\* heartbeat_lock raised sqlite3.Error: reported to the body the same way,
\* although the row may still be this worker's.
HeartbeatError(w) ==
    /\ beating[w]
    /\ ~stolen[w]
    /\ stolen' = [stolen EXCEPT ![w] = TRUE]
    /\ beating' = [beating EXCEPT ![w] = FALSE]
    /\ UNCHANGED <<row, pc, lease, evicted, guard>>

\* Mutant of BodyExit: the heartbeat task is not cancelled.
BodyExitStillBeating(w) ==
    /\ pc[w] = "body"
    /\ pc' = [pc EXCEPT ![w] = "closing"]
    /\ UNCHANGED <<row, stolen, beating, lease, evicted, guard>>

\* The body returns or raises; the finally clause cancels the heartbeat task.
BodyExit(w) ==
    /\ pc[w] = "body"
    /\ pc' = [pc EXCEPT ![w] = "closing"]
    /\ beating' = [beating EXCEPT ![w] = FALSE]
    /\ UNCHANGED <<row, stolen, lease, evicted, guard>>

\* The rest of the finally clause: release_lock, guarded by the worker id.
Release(w) ==
    /\ pc[w] = "closing"
    /\ row' = ReleaseLock(row, w)
    /\ pc' = [pc EXCEPT ![w] = "idle"]
    /\ lease' = [lease EXCEPT ![w] = 0]
    /\ UNCHANGED <<stolen, beating, evicted, guard>>

\* release_lock raised sqlite3.Error, which is logged: the row stays.
ReleaseError(w) ==
    /\ pc[w] = "closing"
    /\ pc' = [pc EXCEPT ![w] = "idle"]
    /\ lease' = [lease EXCEPT ![w] = 0]
    /\ UNCHANGED <<row, stolen, beating, evicted, guard>>

\* The process dies; its row stays behind until it expires.
Crash(w) ==
    /\ pc[w] # "crashed"
    /\ pc' = [pc EXCEPT ![w] = "crashed"]
    /\ beating' = [beating EXCEPT ![w] = FALSE]
    /\ lease' = [lease EXCEPT ![w] = 0]
    /\ UNCHANGED <<row, stolen, evicted, guard>>

Restart(w) ==
    /\ pc[w] = "crashed"
    /\ pc' = [pc EXCEPT ![w] = "idle"]
    /\ UNCHANGED <<row, stolen, beating, lease, evicted, guard>>

-----------------------------------------------------------------------------
\* force_release_lock without a guard: DELETE by kind only.
ForceRelease ==
    /\ row.held
    /\ row' = NoRow
    /\ evicted' = evicted \cup {row.worker}
    /\ UNCHANGED <<pc, stolen, beating, lease, guard>>

\* force_release_lock(expected_worker_id = w), first statement: lock_info
\* shows the expected holder.  (Any other holder is an early return.)
GuardedRead(w) ==
    /\ guard = NoGuard
    /\ IsRowOf(row, w)
    /\ guard' = w
    /\ UNCHANGED <<row, pc, stolen, beating, lease, evicted>>

\* Second statement: DELETE ... WHERE worker_id = the expected one.
GuardedDelete ==
    /\ guard # NoGuard
    /\ row' = ReleaseLock(row, guard)
    /\ evicted' = IF IsRowOf(row, guard) THEN evicted \cup {guard} ELSE evicted
    /\ guard' = NoGuard
    /\ UNCHANGED <<pc, stolen, beating, lease>>

Tick ==
    /\ row' = Age(row)
    /\ lease' = [w \in Workers |-> Dec(lease[w])]
    /\ UNCHANGED <<pc, stolen, beating, evicted, guard>>

-----------------------------------------------------------------------------
WorkerStep(w) ==
    \/ AcquireGc(w) \/ AcquireInsert(w) \/ AcquireRefused(w)
    \/ HeartbeatOk(w) \/ HeartbeatLost(w) \/ HeartbeatError(w)
    \/ BodyExit(w) \/ Release(w) \/ ReleaseError(w)

Next ==
    \/ \E w \in Workers : WorkerStep(w) \/ Crash(w) \/ Restart(w) \/ GuardedRead(w)
    \/ ForceRelease \/ GuardedDelete \/ Tick

Spec == Init /\ [][Next]_vars
-----------------------------------------------------------------------------
Running(w) == pc[w] \in {"body", "closing"}

\* w runs, and less than TTL has passed since its last successful acquire or
\* heartbeat: from its own point of view the lock is certainly its own.
InLease(w) == Running(w) /\ lease[w] > 0 /\ w \notin evicted

\* Safety, for acquire_lock, heartbeat_lock and release_lock together.  Two
\* processes never run the same job kind while both are within the lease they
\* last obtained, however the statements of their acquisitions interleave,
\* unless an operator forced one of them out.
LeaseExclusive ==
    \A v, w \in Workers : InLease(v) /\ InLease(w) => v = w

\* Safety, the inductive core of LeaseExclusive.  A worker within its lease
\* owns the row, and the row runs out exactly when the lease does: nobody
\* could replace the row, and no heartbeat of another worker extends it.
LeaseMatchesRow ==
    \A w \in Workers : InLease(w) => IsRowOf(row, w) /\ row.left = lease[w]

\* Action property, for acquire_lock's GC and release_lock's worker-id guard.
\* A row that has not expired leaves its owner only when the owner itself is
\* finishing or an operator forces it out; a late release by a worker whose
\* lock was taken over never deletes the new holder's row.
LiveRowKeptFromOthers ==
    [][ row.held /\ row.left > 0 /\ ~IsRowOf(row', row.worker)
        => pc[row.worker] = "closing" \/ row.worker \in evicted' ]_vars

\* The asyncio loop of a live process runs the heartbeat task whenever its
\* sleep is over, a finished body reaches its finally clause, workers that are
\* idle try again (the autostart loops), time passes, and a process that keeps
\* crashing is not what the recovery of a lock is about.
Fairness ==
    /\ WF_vars(Tick)
    /\ \A w \in Workers :
        /\ WF_vars(AcquireGc(w))
        /\ WF_vars(AcquireInsert(w) \/ AcquireRefused(w))
        /\ WF_vars(HeartbeatOk(w) \/ HeartbeatLost(w))
        /\ WF_vars(Restart(w))
        /\ <>[][~Crash(w)]_vars

LiveSpec == Spec /\ Fairness

\* Liveness, for TTL expiry plus GC ("its lock auto-expires").  The lock is
\* never stuck with a worker that no longer runs: again and again it is free or
\* owned by a running worker, whatever crashes and failed releases came before.
LockNeverStuck ==
    []<>(~row.held \/ \E w \in Workers : IsRowOf(row, w) /\ Running(w))

\* Liveness, for _heartbeat_loop.  A body that lost its row, by expiry and
\* takeover or by an operator, is eventually told so or ends by itself.
TheftNoticed ==
    \A w \in Workers :
        (pc[w] = "body" /\ ~IsRowOf(row, w)) ~> (stolen[w] \/ pc[w] # "body")

=============================================================================
