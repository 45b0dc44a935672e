----------------------------- MODULE Compaction -----------------------------
(***************************************************************************)
(* CompactionEngine (compaction.py) on one conversation: the sweep of      *)
(* compact_full_sweep and the rounds of compact_until_under, run against   *)
(* the actors that change the same rows meanwhile: ingestion of messages   *)
(* and the operator's purge and soft prune.                                *)
(*                                                                         *)
(* A pass reads its chunk and remembers the ordinals, calls the LLM with   *)
(* no transaction open, and then inserts the summary and replaces the      *)
(* remembered range in one transaction.  The other actors may run between  *)
(* any two of these steps.  There is one compactor: calls for the same     *)
(* conversation are serialised (ADR 018).                                  *)
(***************************************************************************)
EXTENDS Integrity

CONSTANTS
    Threshold,    \* int(context_threshold * token_budget)
    Targets,      \* target_tokens compact_until_under may be called with
    LiveCounts,   \* current_tokens it may be called with; 0 for None
    MaxRounds,    \* max_rounds
    MsgTokens,    \* token counts a message may have
    SumTokens,    \* token counts the summariser may come back with
    MaxMsgs,      \* bound: messages ingested
    MaxSums       \* bound: summaries created

ASSUME CompactionAssumption ==
    /\ FreshTailCount \in Nat \ {0} /\ LeafChunkTokens \in Nat /\ MaxRounds \in Nat \ {0}
    /\ LeafMinFanout \in Nat \ {0} /\ CondensedMinFanout \in Nat \ {0}
    /\ HardFanout \in Nat \ {0} /\ Threshold \in Int
    /\ MsgTokens \subseteq Nat /\ SumTokens \subseteq Nat /\ Targets \subseteq Nat \ {0}
    /\ LiveCounts \subseteq Nat

VARIABLES
    mtok,       \* messages: their token counts, by message_id
    hidden,     \* message ids with suppressed_at set
    sums,       \* summaries, by summary_id
    ctx,        \* context_items
    pc,         \* where the sweep is
    chunk,      \* ordinals of the pass in flight
    src,        \* ids whose content the pass in flight has read
    depth,      \* target_depth of the condensed pass in flight
    running,    \* running_tokens
    previous,   \* previous_tokens
    flags,      \* force, hard_trigger, tokens_before, passes_completed,
                \* had_auth_failure (action_taken is passes_completed > 0)
    until,      \* compact_until_under: target, round, last_tokens, verdict
    disturbed   \* history: another actor wrote since the sweep started

rows == <<mtok, hidden, sums, ctx>>
pass == <<chunk, src, depth>>
vars == <<rows, pc, pass, running, previous, flags, until, disturbed>>

NoFlags == [force |-> FALSE, hard |-> FALSE, before |-> 0, passes |-> 0, auth |-> FALSE]
NoUntil == [round |-> 0, verdict |-> "none"]

Messages == DOMAIN mtok
Summaries == DOMAIN sums
Leaves == {s \in Summaries : sums[s].depth = 0}

Init ==
    /\ mtok = <<>> /\ hidden = {} /\ sums = <<>> /\ ctx = <<>>
    /\ pc = "idle" /\ chunk = {} /\ src = {} /\ depth = 0
    /\ running = 0 /\ previous = 0 /\ flags = NoFlags
    /\ until = NoUntil
    /\ disturbed = FALSE

CurrentTokens == ContextTokens(mtok, sums, ctx)

-----------------------------------------------------------------------------
(***************************************************************************)
(* The other actors.                                                       *)
(***************************************************************************)

\* _ingest_single's transaction: the message row and its context item.
Ingest(t) ==
    /\ Len(mtok) < MaxMsgs
    /\ mtok' = Append(mtok, t)
    /\ ctx' = AppendItem(ctx, MessageItem(Len(mtok) + 1))
    /\ disturbed' = TRUE
    /\ UNCHANGED <<hidden, sums, pc, pass, running, previous, flags, until>>

\* The statements of run_purge and of soft_prune on the leaves L: they suppress
\* the leaves, flag what was condensed from them, take their items and those of
\* their messages out of the context and suppress the messages.
Cascade(L) ==
    /\ L # {}
    /\ sums' = SuppressedSummaries(sums, L)
    /\ ctx' = WithoutPurged(sums, ctx, L)
    /\ hidden' = hidden \cup NewlyHidden(sums, L)
    /\ disturbed' = TRUE
    /\ UNCHANGED <<mtok, pc, pass, running, previous, flags, until>>

VisibleLeaves == {s \in Leaves : ~sums[s].suppressed}

\* run_purge: one transaction over the leaves the criteria resolve to.
Purge(L) ==
    /\ L \subseteq VisibleLeaves
    /\ Cascade(L)

\* What soft_prune_summary_ids and soft_prune_session ask for, past the refusals
\* of their arguments: some ids, or the session's leaves created between two
\* moments (a summary's id tells its age) with at least so many tokens.
PruneCriteria ==
    [ids : (SUBSET Summaries) \ {{}}]
        \cup [since : Summaries, before : {s + 1 : s \in Summaries}, minTokens : SumTokens]

\* _resolve_target_leaf_ids: visible leaves only, by either kind of criterion.
PruneTargets(criteria) ==
    {s \in VisibleLeaves :
        IF "ids" \in DOMAIN criteria THEN s \in criteria.ids
        ELSE /\ criteria.since <= s /\ s < criteria.before
             /\ sums[s].tokens >= criteria.minTokens}

\* _run_soft_prune_atomic: targets and cascade in one transaction; without a
\* target nothing happens.
SoftPrune(criteria) == Cascade(PruneTargets(criteria))

-----------------------------------------------------------------------------
(***************************************************************************)
(* Entering and leaving a sweep.                                           *)
(***************************************************************************)

\* The state of compact_full_sweep past its early returns.
EnterSweep(force, hard) ==
    /\ pc' = "leaf"
    /\ running' = CurrentTokens
    /\ previous' = CurrentTokens
    /\ flags' = [NoFlags EXCEPT !.force = force, !.hard = hard,
                              !.before = CurrentTokens]

\* compact_full_sweep; "under threshold" and an empty context return at once.
StartSweep(force, hard) ==
    /\ pc = "idle"
    /\ force \/ CurrentTokens > Threshold \/ LeafTrigger(mtok, sums, ctx)
    /\ DOMAIN ctx # {}
    /\ EnterSweep(force, hard)
    /\ until' = NoUntil
    /\ disturbed' = FALSE
    /\ UNCHANGED <<rows, pass>>

\* compact_until_under; tokens already under the target return at once.  The
\* host's own count of the live list may exceed what the rows add up to.
StartUntil(target, live) ==
    LET last == Max({CurrentTokens, live})
    IN  /\ pc = "idle"
        /\ last >= target
        /\ EnterSweep(TRUE, FALSE)
        /\ until' = [target |-> target, round |-> 1, last |-> last, verdict |-> "none"]
        /\ disturbed' = FALSE
        /\ UNCHANGED <<rows, pass>>

\* What compact_until_under makes of a finished sweep: stop with a verdict, or
\* another round.  after and flags are the sweep's tokens_after and flags.
RoundVerdict(after, passes, auth) ==
    CASE auth -> "fail"
      [] ~auth /\ after <= until.target -> "success"
      [] OTHER -> IF passes = 0 \/ after >= until.last \/ until.round = MaxRounds
                  THEN "fail" ELSE "again"

\* The sweep returns its result and its local variables go.
Finish(after, passes, auth) ==
    LET verdict == IF until.round = 0 THEN "none" ELSE RoundVerdict(after, passes, auth)
    IN  /\ pc' = IF verdict = "again" THEN "again" ELSE "idle"
        /\ until' = CASE verdict = "again" -> [until EXCEPT !.round = @ + 1, !.last = after]
                      [] verdict = "none" -> until
                      [] OTHER -> [until EXCEPT !.verdict = verdict]
        /\ running' = 0 /\ previous' = 0 /\ flags' = NoFlags

\* The local variables of a pass go.
EndPass == chunk' = {} /\ src' = {} /\ depth' = 0

\* The next round's compact_full_sweep, always forced.  (On an empty context it
\* returns early, with the result the passes below would give: nothing to do.)
NextRound ==
    /\ pc = "again"
    /\ EnterSweep(TRUE, FALSE)
    /\ UNCHANGED <<rows, pass, until, disturbed>>

\* Phase 2 is entered while force or previous_tokens > threshold.
EnterPhase2(prev, after, passes, auth) ==
    IF flags.force \/ prev > Threshold
    THEN /\ pc' = "cond"
         /\ running' = after
         /\ previous' = prev
         /\ flags' = [flags EXCEPT !.passes = passes, !.auth = auth]
         /\ UNCHANGED until
    ELSE Finish(after, passes, auth)

\* running_tokens after a pass that replaced sources of so many tokens by a
\* summary of t.
RunningAfter(removed, t) == running - removed + t

\* Mutant of NoProgress: the guard is missing.
NeverStalled(after) == FALSE

\* The two guards after a successful pass: under the threshold (unless forced),
\* and no progress.  Otherwise the phase goes round again.
UnderThreshold(after) == ~flags.force /\ after <= Threshold
NoProgress(after) == after >= running \/ after >= previous

-----------------------------------------------------------------------------
(***************************************************************************)
(* Phase 1: leaf passes.                                                   *)
(***************************************************************************)

\* _leaf_pass up to the LLM call: pick the chunk, read its messages.
LeafSelect ==
    /\ pc = "leaf"
    /\ LeafChunk(mtok, sums, ctx) # {}
    /\ chunk' = LeafChunk(mtok, sums, ctx)
    /\ src' = IdsAt(ctx, chunk')
    /\ pc' = "leafLlm"
    /\ UNCHANGED <<rows, depth, running, previous, flags, until, disturbed>>

\* No chunk outside the fresh tail: phase 1 is over.
LeafNone ==
    /\ pc = "leaf"
    /\ LeafChunk(mtok, sums, ctx) = {}
    /\ EnterPhase2(previous, running, flags.passes, flags.auth)
    /\ UNCHANGED <<rows, pass, disturbed>>

\* The summariser gave nothing, or raised LcmProviderAuthError: no summary is
\* written; phase 2 is still entered.
LeafUnwritten(auth) ==
    /\ pc = "leafLlm"
    /\ EnterPhase2(previous, running, flags.passes, flags.auth \/ auth)
    /\ EndPass
    /\ UNCHANGED <<rows, disturbed>>

\* Mutant of NewLeaf: only the oldest message of the chunk is linked.
NewLeafOfOldest(t) ==
    [depth |-> 0, tokens |-> t, msgs |-> {Min(src)}, parents |-> {},
     suppressed |-> FALSE, flagged |-> FALSE]

NewLeaf(t) ==
    [depth |-> 0, tokens |-> t, msgs |-> src, parents |-> {},
     suppressed |-> FALSE, flagged |-> FALSE]

\* The transaction of _leaf_pass, and the loop's guards after it.
LeafCommit(t) ==
    LET removed == MapThenSumSet(LAMBDA m : mtok[m], src)
        after == RunningAfter(removed, t)
    IN  /\ pc = "leafLlm"
        /\ Len(sums) < MaxSums
        /\ sums' = Append(sums, NewLeaf(t))
        /\ ctx' = ReplaceRange(ctx, Min(chunk), Max(chunk), Len(sums) + 1)
        /\ CASE UnderThreshold(after) ->
                    EnterPhase2(after, after, flags.passes + 1, flags.auth)
             [] ~UnderThreshold(after) /\ NoProgress(after) ->
                    EnterPhase2(previous, after, flags.passes + 1, flags.auth)
             [] OTHER ->
                    /\ pc' = "leaf" /\ running' = after /\ previous' = after
                    /\ flags' = [flags EXCEPT !.passes = @ + 1]
                    /\ UNCHANGED until
        /\ EndPass
        /\ UNCHANGED <<mtok, hidden, disturbed>>

-----------------------------------------------------------------------------
(***************************************************************************)
(* Phase 2: condensed passes.                                              *)
(***************************************************************************)

\* _select_shallowest_condensation_candidate
CondSelect ==
    LET depths == CandidateDepths(mtok, sums, ctx, flags.hard)
    IN  /\ pc = "cond"
        /\ depths # {}
        /\ depth' = Min(depths)
        /\ chunk' = ChunkAtDepth(mtok, sums, ctx, depth')
        /\ src' = IdsAt(ctx, chunk')
        /\ pc' = "condRead"
        /\ UNCHANGED <<rows, running, previous, flags, until, disturbed>>

CondNone ==
    /\ pc = "cond"
    /\ CandidateDepths(mtok, sums, ctx, flags.hard) = {}
    /\ Finish(running, flags.passes, flags.auth)
    /\ UNCHANGED <<rows, pass, disturbed>>

\* get_summary finds the row: it has none for what a purge has suppressed.
Readable(s) == ~sums[s].suppressed

\* _condensed_pass up to the LLM call: what a purge suppressed since the selection
\* is skipped.
CondRead ==
    /\ pc = "condRead"
    /\ src' = {s \in src : Readable(s)}
    /\ pc' = "condLlm"
    /\ UNCHANGED <<rows, chunk, depth, running, previous, flags, until, disturbed>>

\* Nothing to summarise, an empty answer, or LcmProviderAuthError.
CondUnwritten(auth) ==
    /\ pc = "condLlm"
    /\ auth => src # {}
    /\ Finish(running, flags.passes, flags.auth \/ auth)
    /\ EndPass
    /\ UNCHANGED <<rows, disturbed>>

NewCondensed(t) ==
    [depth |-> depth + 1, tokens |-> t, msgs |-> {}, parents |-> src,
     suppressed |-> FALSE, flagged |-> FALSE]

\* The transaction of _condensed_pass, and the loop's guards after it; the loop
\* condition force or previous_tokens > threshold is tested again.
CondCommit(t) ==
    LET removed == MapThenSumSet(LAMBDA s : sums[s].tokens, src)
        after == RunningAfter(removed, t)
    IN  /\ pc = "condLlm"
        /\ src # {}
        /\ Len(sums) < MaxSums
        /\ sums' = Append(sums, NewCondensed(t))
        /\ ctx' = ReplaceRange(ctx, Min(chunk), Max(chunk), Len(sums) + 1)
        /\ IF UnderThreshold(after) \/ NoProgress(after)
           THEN Finish(after, flags.passes + 1, flags.auth)
           ELSE EnterPhase2(after, after, flags.passes + 1, flags.auth)
        /\ EndPass
        /\ UNCHANGED <<mtok, hidden, disturbed>>

\* The summariser or the transaction raises anything else, which leaves
\* compact_full_sweep, or the process dies: the rows of the pass are rolled
\* back, the earlier passes stay.
Abort ==
    /\ pc # "idle"
    /\ pc' = "idle"
    /\ until' = NoUntil
    /\ running' = 0 /\ previous' = 0 /\ flags' = NoFlags
    /\ EndPass
    /\ UNCHANGED <<rows, disturbed>>

-----------------------------------------------------------------------------
SweepStep ==
    \/ LeafSelect \/ LeafNone \/ CondSelect \/ CondNone \/ CondRead \/ NextRound
    \/ \E auth \in BOOLEAN : LeafUnwritten(auth) \/ CondUnwritten(auth)
    \/ \E t \in SumTokens : LeafCommit(t) \/ CondCommit(t)

Next ==
    \/ \E t \in MsgTokens : Ingest(t)
    \/ \E L \in SUBSET Leaves : Purge(L)
    \/ \E criteria \in PruneCriteria : SoftPrune(criteria)
    \/ \E force, hard \in BOOLEAN : StartSweep(force, hard)
    \/ \E target \in Targets, live \in LiveCounts : StartUntil(target, live)
    \/ SweepStep
    \/ Abort

Spec == Init /\ [][Next]_vars

-----------------------------------------------------------------------------
(***************************************************************************)
(* Properties.                                                             *)
(***************************************************************************)

\* The messages a summary stands for, down the links of the DAG.
Cover[s \in Summaries] ==
    sums[s].msgs \cup UNION {Cover[p] : p \in sums[s].parents}

CoverAt(o) == IF ctx[o].type = "message" THEN {ctx[o].id} ELSE Cover[ctx[o].id]

\* Safety, for the range replacement with ordinals remembered across the LLM
\* call.  Every message that no purge suppressed can be reached from the
\* context, raw or by expanding the summaries in it: compaction, in whatever
\* order it meets ingestion and purges, only adds a summary layer.
NothingUnreachable ==
    \A m \in Messages \ hidden : \E o \in DOMAIN ctx : m \in CoverAt(o)

\* Safety, for steps 3 to 5 of the purge against passes in flight.  Nothing
\* suppressed is an item of the context the prompt is assembled from.
SuppressedNotInContext ==
    \A o \in DOMAIN ctx :
        IF ctx[o].type = "message" THEN ctx[o].id \notin hidden
        ELSE ~sums[ctx[o].id].suppressed

\* Safety, for IntegrityChecker on whatever compaction, ingestion and purges
\* leave behind in any order.  The scan fails on nothing but the ordinals a
\* purge leaves open, and its repair plan never asks to take away a summary
\* that is still visible: what it calls an orphan has been purged.
ScanClean ==
    /\ Failing(mtok, sums, ctx) \subseteq
           IF hidden = {} /\ ~\E s \in Summaries : sums[s].suppressed
           THEN {} ELSE {"context_items_contiguous"}
    /\ \A item \in PlannedRemovals(mtok, sums, ctx) :
           item.type = "summary" /\ sums[item.id].suppressed

Log == INSTANCE ContextLog
       WITH count <- Len(mtok),
            forgotten <- hidden,
            segs <- {CoverAt(o) \ hidden : o \in DOMAIN ctx} \ {{}}

\* Refinement, for the whole of _leaf_pass and _condensed_pass.  Seen through
\* what its items cover, the context only ever gains a message at its end, has
\* neighbouring items merged, or loses purged messages: a commit with stale
\* ordinals never swallows a neighbour and never brings back anything else.
ImplementsContextLog == Log!Spec

\* Safety, for the delta accounting that replaced a re-read after every pass, for
\* the no-progress guards of both phases and for compact_until_under.  Every pass
\* after which the sweep goes on has paid for itself with at least one token, but
\* for one that ends phase 1: so the sweep ends, also a forced one whose summaries
\* come back as large as their sources, one whose fan-out of 1 lets a single
\* summary be condensed over and over, and one whose counts other actors made
\* stale.  As long as nobody else wrote since it began, running_tokens is what
\* get_context_token_count would return, and success is reported only for a
\* context that really is within the target.
SweepAccounts ==
    /\ flags.passes + previous <=
           flags.before + (IF pc \in {"cond", "condRead", "condLlm"} THEN 1 ELSE 0)
    /\ ~disturbed /\ pc \notin {"idle", "again"} => running = CurrentTokens
    /\ ~disturbed /\ until.verdict = "success" => CurrentTokens <= until.target
=============================================================================
