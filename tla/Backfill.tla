------------------------------- MODULE Backfill -------------------------------
(***************************************************************************)
(* The embedding backfill: tick_embedding_backfill                         *)
(* (embeddings/backfill.py) run by several processes under the lock of its *)
(* job kind, by the autostart loop of operator/backfill_autostart.py or by *)
(* an operator's manual tick, against leaves that are inserted, purged and *)
(* deleted while a tick waits for Voyage.                                  *)
(*                                                                         *)
(* Each SQL statement or transaction is one step, because other processes  *)
(* commit between them.  The one timing assumption is that less than a     *)
(* clock tick passes between the re-check of the lock after the Voyage     *)
(* call and the BEGIN IMMEDIATE that follows it with no await: WriteTime.  *)
(***************************************************************************)
EXTENDS LockTable, Voyage

CONSTANTS
    Docs,             \* leaf summaries; the order of the ids is that of Nat
    Tokens,           \* Tokens[d]: token_count
    MaxDocTokens,     \* MAX_TOKENS_PER_EMBED_DOC
    MaxBatchTokens,   \* MAX_TOKENS_PER_EMBED_BATCH
    PerTickLimit,     \* per_tick_limit
    SelectCap,        \* _SELECT_BATCH_CAP
    StrikeLimit,      \* _IDLE_STRIKE_THRESHOLD, _VOYAGE_FAILURE_STRIKE_THRESHOLD
    Poison,           \* leaves that Voyage always rejects (status 400)
    Looping,          \* the workers that run the autostart loop
    MaxManual,        \* bound: manual ticks
    MaxFaults,        \* bound: transient Voyage, SQLite and auth failures
    MaxStalls         \* bound: leases that run out under a tick in progress

ASSUME BackfillAssumption ==
    /\ Docs \subseteq Nat /\ IsFiniteSet(Docs)
    /\ Tokens \in [Docs -> Nat]
    /\ Poison \subseteq Docs
    /\ Looping \subseteq Workers
    /\ {PerTickLimit, SelectCap, StrikeLimit} \subseteq Nat \ {0}

VARIABLES
    row,       \* the lock row of "embedding-backfill"
    leaf,      \* leaf[d]: the summaries row of d
    vec,       \* vec[d]: its vec0 row and that row's suppressed column
    meta,      \* the leaves with a lcm_embedding_meta row
    tick,      \* tick[w]: the local variables of the tick of w
    loop,      \* loop[w]: the AutostartHandle of w
    spent,     \* manual ticks, faults and stalls so far
    writes,    \* history: how often an embedding of d was recorded
    raced,     \* history: leaves purged or deleted while a tick had them
    late       \* history: leaves inserted when every autostart had stopped

vars == <<row, leaf, vec, meta, tick, loop, spent, writes, raced, late>>

data == <<leaf, vec, meta, writes, raced, late>>

\* A tick that has not started: BackfillResult() and an empty blocklist.
NoTick == [pc |-> "rest", failed |-> {}, processed |-> 0,
           todo |-> {}, embedded |-> FALSE, skipped |-> FALSE,
           lost |-> FALSE, raised |-> "no"]

NoLoop == [idle |-> 0, strikes |-> 0, stopped |-> "no"]

Init ==
    /\ row = NoRow
    /\ leaf = [d \in Docs |-> "absent"]
    /\ vec = [d \in Docs |-> "none"]
    /\ meta = {}
    /\ tick = [w \in Workers |-> NoTick]
    /\ loop = [w \in Workers |-> NoLoop]
    /\ spent = [manual |-> 0, faults |-> 0, stalls |-> 0]
    /\ writes = [d \in Docs |-> 0]
    /\ raced = {}
    /\ late = {}

-----------------------------------------------------------------------------
(* Selection and packing.                                                  *)

Eligible(d) == leaf[d] = "live" /\ Tokens[d] \in 1 .. MaxDocTokens

\* count_pending_docs and the WHERE clause of _select_pending_docs.
Pending == {d \in Docs \ meta : Eligible(d)}

\* _select_pending_docs without its LIMIT.
Selectable(failed) == Pending \ failed

\* ORDER BY summary_id DESC LIMIT n
Newest(S, n) == {d \in S : Cardinality({e \in S : e > d}) < n}

TokensOf(S) == MapThenSumSet(LAMBDA d : Tokens[d], S)

\* The first batch that _pack_batches makes of S: the greatest ids, as many as
\* fit, and the first one whatever its size.  The batches after it are made of
\* the rest in the same way.
PackBatches(S) ==
    {d \in S : d = Max(S) \/ TokensOf({e \in S : e >= d}) <= MaxBatchTokens}

-----------------------------------------------------------------------------
(* One tick.                                                               *)

Batch(w) == PackBatches(tick[w].todo)

\* Some ticks still hold d in the batches they selected.
InFlight(d) == \E w \in Workers : d \in tick[w].todo

\* The next batch of the selection, or the next selection.
Advance(t) ==
    LET rest == t.todo \ PackBatches(t.todo)
    IN  [t EXCEPT !.todo = rest, !.pc = IF rest # {} THEN "beat" ELSE "select"]

\* Leave the try block with what the result says; the finally clause is next.
Leave(t) == [t EXCEPT !.todo = {}, !.pc = "release", !.processed = 0,
                      !.failed = {}]

\* result.embedded, result.skipped and processed after _write_batch.
Recorded(t, done, failing) ==
    [t EXCEPT !.processed = @ + Cardinality(PackBatches(t.todo)),
              !.embedded = @ \/ done # {},
              !.skipped = @ \/ failing # {}]

Fault == /\ spent.faults < MaxFaults
         /\ spent' = [spent EXCEPT !.faults = @ + 1]

\* WorkerLoop._run_job after its sleep: the loop runs and no tick of its kind
\* is in flight.
Due(w) == w \in Looping /\ loop[w].stopped = "no" /\ tick[w].pc = "rest"

\* AutostartHandle.stop and WorkerLoop.stop, a request of the operator: no tick
\* starts any more, the one in flight goes on to its end.
StopLoop(w) ==
    /\ w \in Looping /\ loop[w].stopped = "no"
    /\ spent.manual < MaxManual
    /\ spent' = [spent EXCEPT !.manual = @ + 1]
    /\ loop' = [loop EXCEPT ![w].stopped = "asked"]
    /\ UNCHANGED <<row, data, tick>>

\* The loop's interval is over, or /lcm worker tick: acquire_lock's first
\* statement.  _run_one_tick returns at once when the handle is stopped.
StartTick(w) ==
    /\ tick[w].pc = "rest"
    /\ \/ Due(w) /\ UNCHANGED spent
       \/ /\ w \notin Looping /\ spent.manual < MaxManual
          /\ spent' = [spent EXCEPT !.manual = @ + 1]
    /\ row' = GcExpired(row)
    /\ tick' = [tick EXCEPT ![w] = [NoTick EXCEPT !.pc = "insert"]]
    /\ UNCHANGED <<data, loop>>

AcquireOk(w) ==
    /\ tick[w].pc = "insert"
    /\ ~row.held
    /\ row' = InsertOrIgnore(row, w)
    /\ tick' = [tick EXCEPT ![w].pc = "select"]
    /\ UNCHANGED <<data, loop, spent>>

\* lock_not_acquired: returned before the try block, so nothing is released.
AcquireRefused(w) ==
    /\ tick[w].pc = "insert"
    /\ row.held
    /\ tick' = [tick EXCEPT ![w].pc = "account", ![w].lost = TRUE]
    /\ UNCHANGED <<row, data, loop, spent>>

\* The head of the while loop, _select_pending_docs and _pack_batches.  The
\* defensive over-cap filter drops nothing that the BETWEEN clause lets by.
Select(w) ==
    /\ tick[w].pc = "select"
    /\ LET t == tick[w]
           remaining == PerTickLimit - t.processed
           found == Newest(Selectable(t.failed), Min({remaining, SelectCap}))
       IN  tick' = [tick EXCEPT ![w] =
               IF remaining = 0 \/ found = {} THEN Leave(t)
               ELSE [t EXCEPT !.todo = found, !.pc = "beat"]]
    /\ UNCHANGED <<row, data, loop, spent>>

\* The heartbeat before a Voyage call.
BeatOk(w) ==
    /\ tick[w].pc = "beat"
    /\ Renewable(row, w)
    /\ row' = HeartbeatLock(row, w)
    /\ tick' = [tick EXCEPT ![w].pc = "embed"]
    /\ UNCHANGED <<data, loop, spent>>

BeatLost(w) ==
    /\ tick[w].pc = "beat"
    /\ ~Renewable(row, w)
    /\ tick' = [tick EXCEPT ![w] = Leave([@ EXCEPT !.lost = TRUE])]
    /\ UNCHANGED <<row, data, loop, spent>>

\* voyage.embed returns vectors for the whole batch.
EmbedOk(w) ==
    /\ tick[w].pc = "embed"
    /\ "ok" \in Outcomes
    /\ Batch(w) \cap Poison = {}
    /\ tick' = [tick EXCEPT ![w].pc = "recheck"]
    /\ UNCHANGED <<row, data, loop, spent>>

\* The batch goes to failed_this_tick and to result.skipped.
Blocklisted(t) ==
    [t EXCEPT !.failed = @ \cup PackBatches(t.todo), !.skipped = TRUE]

\* A rejected batch counts as processed all the same.
Rejected(t) ==
    [Blocklisted(t) EXCEPT !.processed = @ + Cardinality(PackBatches(t.todo))]

\* A VoyageError other than auth: the whole batch is skipped.
EmbedRejected(w) ==
    /\ tick[w].pc = "embed"
    /\ Outcomes \ {"ok", "auth"} # {}
    /\ IF Batch(w) \cap Poison # {} THEN UNCHANGED spent ELSE Fault
    /\ tick' = [tick EXCEPT ![w] = Advance(Rejected(@))]
    /\ UNCHANGED <<row, data, loop>>

\* VoyageError("auth") is raised again through the finally clause.
EmbedAuth(w) ==
    /\ tick[w].pc = "embed"
    /\ "auth" \in Outcomes
    /\ Fault
    /\ tick' = [tick EXCEPT ![w] = Leave([@ EXCEPT !.raised = "auth"])]
    /\ UNCHANGED <<row, data, loop>>

\* Mutant of RecheckOk: the vectors are written whoever holds the lock.
RecheckSkipped(w) ==
    /\ tick[w].pc = "recheck"
    /\ row' = HeartbeatLock(row, w)
    /\ tick' = [tick EXCEPT ![w].pc = "write"]
    /\ UNCHANGED <<data, loop, spent>>

\* The heartbeat between the Voyage call and the write.
RecheckOk(w) ==
    /\ tick[w].pc = "recheck"
    /\ Renewable(row, w)
    /\ row' = HeartbeatLock(row, w)
    /\ tick' = [tick EXCEPT ![w].pc = "write"]
    /\ UNCHANGED <<data, loop, spent>>

\* lock_stolen_mid_embed: the vectors are dropped and the tick returns.
RecheckLost(w) ==
    /\ tick[w].pc = "recheck"
    /\ ~Renewable(row, w)
    /\ tick' = [tick EXCEPT ![w] = Leave([Blocklisted(@) EXCEPT !.lost = TRUE])]
    /\ UNCHANGED <<row, data, loop, spent>>

\* Mutant of FailedRecord: the failure after the vec0 INSERT is not rolled back.
FailedRecordKept(v) == "visible"

\* What ROLLBACK TO leaves of the vec0 row v when record_embedding fails.
FailedRecord(v) == v

\* _write_batch, one transaction: record_embedding for every document, with
\* suppressed = 0, each under a savepoint.  A document that fails is reported
\* but not put on the blocklist; a failure of the transaction fails them all.
Write(w) ==
    /\ tick[w].pc = "write"
    /\ \E failing \in SUBSET Batch(w) :
         LET done == Batch(w) \ failing
         IN  /\ IF failing = {} THEN UNCHANGED spent ELSE Fault
             /\ vec' = [d \in Docs |-> IF d \in done THEN "visible"
                                       ELSE IF d \in failing THEN FailedRecord(vec[d])
                                       ELSE vec[d]]
             /\ meta' = meta \cup done
             /\ writes' = [d \in Docs |-> IF d \in done
                                          THEN Min({writes[d] + 1, 2}) ELSE writes[d]]
             /\ tick' = [tick EXCEPT ![w] = Advance(Recorded(@, done, failing))]
    /\ UNCHANGED <<row, leaf, loop, raced, late>>

\* A statement of the try block raises sqlite3.Error.
TickError(w) ==
    /\ tick[w].pc \in {"select", "beat", "recheck"}
    /\ Fault
    /\ tick' = [tick EXCEPT ![w] = Leave([@ EXCEPT !.raised = "error"])]
    /\ UNCHANGED <<row, data, loop>>

\* The finally clause.
Release(w) ==
    /\ tick[w].pc = "release"
    /\ \/ row' = ReleaseLock(row, w) /\ UNCHANGED spent
       \/ Fault /\ UNCHANGED row
    /\ tick' = [tick EXCEPT ![w].pc = "account"]
    /\ UNCHANGED <<data, loop>>
-----------------------------------------------------------------------------
(* _run_one_tick after the tick: the strike counters of the autostart loop. *)

StopAt(n, why) == IF n >= StrikeLimit THEN why ELSE "no"

FailureStrike(l) ==
    [l EXCEPT !.strikes = @ + 1, !.stopped = StopAt(l.strikes + 1, "failing")]

\* Mutant of Idle: the pending documents are not counted.
IdleByResult(t) == ~t.embedded /\ ~t.skipped

Idle(t) == ~t.embedded /\ ~t.skipped /\ Pending = {}

Accounted(l, t) ==
    CASE t.raised = "auth"  -> [l EXCEPT !.stopped = "auth"]
      [] t.raised = "error" -> FailureStrike(l)
      [] t.raised = "no" /\ t.lost -> l
      [] t.raised = "no" /\ ~t.lost /\ ~t.embedded /\ t.skipped ->
             [FailureStrike(l) EXCEPT !.idle = 0]
      [] OTHER ->
             IF Idle(t)
             THEN [l EXCEPT !.strikes = 0, !.idle = @ + 1,
                            !.stopped = StopAt(l.idle + 1, "idle")]
             ELSE [l EXCEPT !.strikes = 0, !.idle = 0]

\* A loop that was asked to stop stays so, whatever the last tick counts.
Settled(old, new) ==
    IF old.stopped = "asked" THEN [new EXCEPT !.stopped = "asked"] ELSE new

Account(w) ==
    /\ tick[w].pc = "account"
    /\ loop' = IF w \in Looping
               THEN [loop EXCEPT ![w] = Settled(loop[w], Accounted(@, tick[w]))] ELSE loop
    /\ tick' = [tick EXCEPT ![w] = NoTick]
    /\ UNCHANGED <<row, data, spent>>

-----------------------------------------------------------------------------
(* The rest of the system.                                                 *)

\* insert_summary of a leaf pass.
LeafInserted(d) ==
    /\ leaf[d] = "absent"
    /\ leaf' = [leaf EXCEPT ![d] = "live"]
    /\ late' = IF \A w \in Looping : loop[w].stopped # "no" THEN late \cup {d} ELSE late
    /\ UNCHANGED <<row, vec, meta, tick, loop, spent, writes, raced>>

Touched(d) == IF InFlight(d) THEN raced \cup {d} ELSE raced

\* Mutant of Suppressed: the trigger is missing.
SuppressedUntriggered(v) == v

\* The trigger lcm_embed_suppress_<slug>.
Suppressed(v) == IF v = "none" THEN v ELSE "hidden"

\* run_purge sets suppressed_at; the trigger runs in its transaction.
Purge(d) ==
    /\ leaf[d] = "live"
    /\ leaf' = [leaf EXCEPT ![d] = "suppressed"]
    /\ vec' = [vec EXCEPT ![d] = Suppressed(@)]
    /\ raced' = Touched(d)
    /\ UNCHANGED <<row, meta, tick, loop, spent, writes, late>>

\* /lcm doctor clean deletes the conversation: the triggers lcm_embed_delete_<slug> and
\* lcm_embedding_meta_cleanup_summary delete both rows.
Delete(d) ==
    /\ leaf[d] \in {"live", "suppressed"}
    /\ leaf' = [leaf EXCEPT ![d] = "deleted"]
    /\ vec' = [vec EXCEPT ![d] = "none"]
    /\ meta' = meta \ {d}
    /\ raced' = Touched(d)
    /\ UNCHANGED <<row, tick, loop, spent, writes, late>>

\* The next clock tick ends the lease of a worker that is in its tick.
Stalled == row.left = 1 /\ tick[row.worker].pc \notin {"rest", "insert", "account"}

\* WriteTime: no clock tick between the re-check and the write.
ClockTick ==
    /\ row.held
    /\ row.left > 0
    /\ \A w \in Workers : tick[w].pc # "write"
    /\ IF Stalled
       THEN /\ spent.stalls < MaxStalls
            /\ spent' = [spent EXCEPT !.stalls = @ + 1]
       ELSE UNCHANGED spent
    /\ row' = Age(row)
    /\ UNCHANGED <<data, tick, loop>>

WorkerStep(w) ==
    \/ StartTick(w) \/ AcquireOk(w) \/ AcquireRefused(w)
    \/ Select(w) \/ BeatOk(w) \/ BeatLost(w)
    \/ EmbedOk(w) \/ EmbedRejected(w) \/ EmbedAuth(w)
    \/ RecheckOk(w) \/ RecheckLost(w) \/ Write(w) \/ TickError(w)
    \/ Release(w) \/ Account(w)

Next ==
    \/ \E w \in Workers : WorkerStep(w) \/ StopLoop(w)
    \/ \E d \in Docs : LeafInserted(d) \/ Purge(d) \/ Delete(d)
    \/ ClockTick

\* A worker goes on with its tick, a Voyage call ends, time passes, and the
\* autostart loop ticks again.
Fairness == WF_vars(ClockTick) /\ \A w \in Workers : WF_vars(WorkerStep(w))

Spec == Init /\ [][Next]_vars /\ Fairness

-----------------------------------------------------------------------------
(* Properties.                                                             *)

\* The vec0 row and the meta row of a document come and go together, whatever
\* fails in _write_batch and whatever is deleted meanwhile: neither a vector
\* that the NOT EXISTS filter cannot see (and that the next tick would pay for
\* again) nor a document that counts as embedded and cannot be found.
VecMatchesMeta == \A d \in Docs : (vec[d] # "none") <=> (d \in meta)

\* The suppressed column mirrors suppressed_at: a row is hidden only for a
\* purged leaf, and a purged or deleted leaf is visible to KNN only when the
\* purge or the deletion found the leaf in a batch between _select_pending_docs
\* and _write_batch.
MirrorExact ==
    \A d \in Docs :
        /\ vec[d] = "hidden" => leaf[d] = "suppressed"
        /\ vec[d] = "visible" => leaf[d] = "live" \/ d \in raced

\* A document is embedded once.  However ticks of several processes overlap,
\* through leases that run out during Voyage calls, the heartbeat after the
\* call keeps a worker from writing what its successor has written.
WrittenOnce == \A d \in Docs : writes[d] <= 1

\* Every document that Voyage accepts is embedded, unless it disappears, the
\* loop gave up on failures or was stopped, or the loop had drained the corpus and stopped
\* before the document came.
Drained ==
    \A d \in Docs \ Poison :
        d \in Pending ~>
            \/ d \notin Pending
            \/ d \in late
            \/ \E w \in Looping : loop[w].stopped \in {"failing", "auth", "asked"}
=============================================================================
