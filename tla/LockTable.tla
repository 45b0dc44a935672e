------------------------------ MODULE LockTable ------------------------------
(***************************************************************************)
(* The lcm_worker_lock row of one job kind, as the SQL statements of       *)
(* concurrency/worker_lock.py see it.  Every statement is restricted to    *)
(* one job_kind, so the kinds never interact and one row is modelled.      *)
(*                                                                         *)
(* Time is relative.  expires_at is kept as "left", the number of clock    *)
(* ticks until the row expires, so that expires_at <= now is left = 0 and  *)
(* expires_at = now + ttl is left = TTL.  All the timestamps come from the *)
(* one clock of the database (datetime('now')), which is what makes one    *)
(* Tick for the row and for the workers' own leases sound.                 *)
(***************************************************************************)
EXTENDS Naturals

CONSTANTS
    Workers,   \* worker_id values; one process run has one id
    TTL        \* WORKER_LOCK_TTL_S, in ticks

ASSUME TTLAssumption == TTL \in Nat \ {0}

\* No row for the kind: fetchone() is None.
NoRow == [held |-> FALSE]

RowOf(w, n) == [held |-> TRUE, worker |-> w, left |-> n]

Rows == {NoRow} \cup {RowOf(w, n) : w \in Workers, n \in 0 .. TTL}

Dec(n) == IF n > 0 THEN n - 1 ELSE 0

\* One tick of the database clock, seen from the row.
Age(row) == IF row.held THEN RowOf(row.worker, Dec(row.left)) ELSE row

IsRowOf(row, w) == row.held /\ row.worker = w

\* Mutant of GcExpired: the expiry condition is missing.
GcAny(row) == NoRow

\* DELETE ... WHERE expires_at <= datetime('now')
GcExpired(row) == IF row.held /\ row.left = 0 THEN NoRow ELSE row

\* INSERT OR IGNORE: the primary key lets it in only when there is no row.
InsertOrIgnore(row, w) == IF row.held THEN row ELSE RowOf(w, TTL)

\* UPDATE ... WHERE worker_id = ? AND expires_at > datetime('now'); its
\* rowcount is 1 exactly when this holds.
Renewable(row, w) == IsRowOf(row, w) /\ row.left > 0

\* The row after heartbeat_lock.
HeartbeatLock(row, w) == IF Renewable(row, w) THEN RowOf(w, TTL) ELSE row

\* Mutant of ReleaseLock: DELETE by kind only.
ReleaseAny(row, w) == NoRow

\* The row after release_lock: DELETE ... WHERE worker_id = ?
ReleaseLock(row, w) == IF IsRowOf(row, w) THEN NoRow ELSE row
=============================================================================
