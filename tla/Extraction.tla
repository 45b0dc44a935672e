------------------------------ MODULE Extraction ------------------------------
(***************************************************************************)
(* Entity extraction: tick_extraction (operator/worker_orchestrator.py)    *)
(* around run_coreference_tick (extraction/coreference.py), run by the     *)
(* autostart loop of operator/extraction_autostart.py and by manual ticks, *)
(* against leaves that are inserted, purged and deleted meanwhile.         *)
(*                                                                         *)
(* The heartbeat comes before the extractor's LLM call and there is none   *)
(* after it, so that two processes may commit the same leaf.  What the     *)
(* extractor (extraction/extractor.py) returns for a leaf is not a         *)
(* function of the leaf: Outputs[d] are the lists the LLM may answer, or   *)
(* it answers something that is no list, or no text at all.  An entity is  *)
(* its canonical text (the UNIQUE index makes them the same), a mention    *)
(* the triple of entity, leaf and surface that its deterministic id is     *)
(* made of.                                                                *)
(***************************************************************************)
EXTENDS LockTable, FiniteSets, FiniteSetsExt

CONSTANTS
    Leaves,         \* queued leaves; the order of queued_at is that of Nat
    Surfaces,       \* surface forms
    Canonical,      \* Canonical[s]: canonical text, up to case
    Malformed,      \* surfaces whose entries lack a usable surface or type
    Outputs,        \* Outputs[d]: the entries the LLM may list for d
    Stubborn,       \* leaves for which the LLM call always fails
    PerTickLimit,   \* per_tick_limit
    MaxAttempts,    \* MAX_ATTEMPTS
    StrikeLimit,    \* _FAILURE_STRIKE_THRESHOLD
    Looping,        \* the workers that run the autostart loop
    MaxManual,      \* bound: manual ticks
    MaxFaults,      \* bound: transient extractor and SQLite failures
    MaxStalls       \* bound: leases that run out under a tick in progress

ASSUME ExtractionAssumption ==
    /\ Leaves \subseteq Nat
    /\ Outputs \in [Leaves -> SUBSET SUBSET Surfaces]
    /\ \A d \in Leaves : \A S \in Outputs[d] : IsFiniteSet(S)
    /\ Malformed \subseteq Surfaces
    /\ Stubborn \subseteq Leaves
    /\ Looping \subseteq Workers
    /\ {PerTickLimit, MaxAttempts, StrikeLimit} \subseteq Nat \ {0}

VARIABLES
    row,        \* the lock row of "extraction"
    leaf,       \* leaf[d]: the summaries row of d
    attempts,   \* attempts[d] of its queue row
    completed,  \* leaves whose queue row has completed_at
    count,      \* count[e]: occurrence_count of the lcm_entities rows
    registry,   \* occurrence_count of the (one) entity type
    mentions,   \* lcm_entity_mentions
    tick,       \* tick[w]: the local variables of the tick of w; items are the
                \* leaves it selected and has not finished, taken oldest first
    loop,       \* loop[w]: the ExtractionAutostartHandle of w
    spent,      \* manual ticks, faults and stalls so far
    dropped     \* history: mentions deleted with their leaf

vars == <<row, leaf, attempts, completed, count, registry, mentions, tick, loop,
          spent, dropped>>

queue == <<attempts, completed>>
graph == <<count, registry, mentions, dropped>>

Entities == {Canonical[s] : s \in Surfaces}

MentionsOf(S, e) == {m \in S : m[1] = e}

NoTick == [pc |-> "rest", items |-> {}, found |-> {}, lost |-> FALSE,
           raised |-> FALSE]

Init ==
    /\ row = NoRow
    /\ leaf = [d \in Leaves |-> "absent"]
    /\ attempts = [d \in Leaves |-> 0]
    /\ completed = {}
    /\ count = <<>>
    /\ registry = 0
    /\ mentions = {}
    /\ tick = [w \in Workers |-> NoTick]
    /\ loop = [w \in Workers |-> [strikes |-> 0, stopped |-> FALSE]]
    /\ spent = [manual |-> 0, faults |-> 0, stalls |-> 0]
    /\ dropped = {}

-----------------------------------------------------------------------------
(* One tick.                                                               *)

Item(w) == Min(tick[w].items)

\* _PENDING_PREDICATE
Pending ==
    {d \in Leaves \ completed : leaf[d] = "live" /\ attempts[d] < MaxAttempts}

\* ORDER BY queued_at ASC LIMIT per_tick_limit
Oldest(S) == {d \in S : Cardinality({e \in S : e < d}) < PerTickLimit}

Fault == /\ spent.faults < MaxFaults
         /\ spent' = [spent EXCEPT !.faults = @ + 1]

NextItem(t) ==
    LET rest == t.items \ {Min(t.items)}
    IN  [t EXCEPT !.items = rest, !.found = {},
                  !.pc = IF rest # {} THEN "beat" ELSE "release"]

Leave(t) == [t EXCEPT !.items = {}, !.found = {}, !.pc = "release"]

\* tick_extraction: acquire_lock's first statement.  The autostart does
\* nothing once its handle is stopped.
StartTick(w) ==
    /\ tick[w].pc = "rest"
    /\ \/ w \in Looping /\ ~loop[w].stopped /\ UNCHANGED spent
       \/ /\ w \notin Looping /\ spent.manual < MaxManual
          /\ spent' = [spent EXCEPT !.manual = @ + 1]
    /\ row' = GcExpired(row)
    /\ tick' = [tick EXCEPT ![w] = [NoTick EXCEPT !.pc = "insert"]]
    /\ UNCHANGED <<leaf, queue, graph, loop>>

AcquireOk(w) ==
    /\ tick[w].pc = "insert"
    /\ ~row.held
    /\ row' = InsertOrIgnore(row, w)
    /\ tick' = [tick EXCEPT ![w].pc = "select"]
    /\ UNCHANGED <<leaf, queue, graph, loop, spent>>

AcquireRefused(w) ==
    /\ tick[w].pc = "insert"
    /\ row.held
    /\ tick' = [tick EXCEPT ![w].pc = "account", ![w].lost = TRUE]
    /\ UNCHANGED <<row, leaf, queue, graph, loop, spent>>

\* The one SELECT of the tick: contents are read here, long before some of
\* them are extracted.
Select(w) ==
    /\ tick[w].pc = "select"
    /\ tick' = [tick EXCEPT ![w] =
           IF Pending = {} THEN Leave(@)
           ELSE [@ EXCEPT !.items = Oldest(Pending), !.pc = "beat"]]
    /\ UNCHANGED <<row, leaf, queue, graph, loop, spent>>

\* on_item_heartbeat
BeatOk(w) ==
    /\ tick[w].pc = "beat"
    /\ Renewable(row, w)
    /\ row' = HeartbeatLock(row, w)
    /\ tick' = [tick EXCEPT ![w].pc = "extract"]
    /\ UNCHANGED <<leaf, queue, graph, loop, spent>>

\* lock_lost_mid_tick
BeatLost(w) ==
    /\ tick[w].pc = "beat"
    /\ ~Renewable(row, w)
    /\ tick' = [tick EXCEPT ![w] = Leave([@ EXCEPT !.lost = TRUE])]
    /\ UNCHANGED <<row, leaf, queue, graph, loop, spent>>

\* What may come of a leaf: a list of entries, with or without a fence and talk
\* around it; other text; an object without text; or a refusal, without a call, of
\* a leaf that looks like the prompt's own envelope.
Answer(kind, entries) == [kind |-> kind, entries |-> entries]

Answers(d) ==
    {Answer("list", S) : S \in Outputs[d]}
        \cup {Answer(k, {}) : k \in {"prose", "silent", "refused"}}

\* _extract_text finds a string.
HasText(a) == a.kind # "silent"

\* create_worker_llm_call: the call returns an answer with text before its timeout;
\* otherwise it raises.
CallReturns(d, a) == d \notin Stubborn /\ HasText(a)

\* parse_entity_extraction_response: text that is no JSON list yields nothing, and
\* an entry without surface or type is skipped.
ParseResponse(a) == IF a.kind = "list" THEN a.entries \ Malformed ELSE {}

\* _extract: what the extractor may return.
Extracted(d) == {ParseResponse(a) : a \in {b \in Answers(d) : CallReturns(d, b)}}

ExtractOk(w) ==
    /\ tick[w].pc = "extract"
    /\ \E S \in Extracted(Item(w)) :
         tick' = [tick EXCEPT ![w].found = S, ![w].pc = "commit"]
    /\ UNCHANGED <<row, leaf, queue, graph, loop, spent>>

\* Mutant of Bumped: a failed extraction is not counted.
NotBumped(d) == attempts

\* attempts = attempts + 1; the UPDATE matches no row once the leaf is gone.
Bumped(d) ==
    IF leaf[d] = "deleted" THEN attempts ELSE [attempts EXCEPT ![d] = @ + 1]

\* The extractor raises.  The item stays queued with one more attempt.
ExtractFails(w) ==
    /\ tick[w].pc = "extract"
    /\ IF Item(w) \in Stubborn THEN UNCHANGED spent ELSE Fault
    /\ attempts' = Bumped(Item(w))
    /\ tick' = [tick EXCEPT ![w] = NextItem(@)]
    /\ UNCHANGED <<row, leaf, completed, graph, loop>>

\* The extractor raises and so do both UPDATEs of the attempts.
ExtractFailsUncounted(w) ==
    /\ tick[w].pc = "extract"
    /\ Fault
    /\ tick' = [tick EXCEPT ![w] = NextItem(@)]
    /\ UNCHANGED <<row, leaf, queue, graph, loop>>

\* Mutant of Fresh: every mention the extractor returned counts.
FreshAny(S) == S

\* INSERT OR IGNORE on the deterministic mention_id, rowcount > 0.
Fresh(S) == S \ mentions

\* The entities found or inserted: a row that fails takes its entity back
\* with it (ROLLBACK TO the savepoint).
Resolved(ok) == {Canonical[s] : s \in ok}

\* The surfaces ok of leaf d are recorded: entities and types found or inserted,
\* mentions inserted or ignored, and the counts of those inserted raised.
Record(d, ok) ==
    LET new == Fresh({<<Canonical[s], d, s>> : s \in ok})
        known == DOMAIN count
        found == Resolved(ok)
    IN  /\ count' = [e \in known \cup found |->
                        (IF e \in known THEN count[e] ELSE 0)
                            + Cardinality(MentionsOf(new, e))]
        /\ registry' = registry + Cardinality(found \ known)
        /\ mentions' = mentions \cup new

\* The transaction of one leaf, each surface under its savepoint.  Once the
\* leaf is deleted every INSERT violates a foreign key, and the UPDATE of the
\* queue row matches nothing.
Commit(w) ==
    LET d == Item(w)
        found == tick[w].found
    IN  /\ tick[w].pc = "commit"
        /\ \E failing \in SUBSET found :
             /\ leaf[d] = "deleted" => failing = found
             /\ IF leaf[d] = "deleted" \/ failing = {} THEN UNCHANGED spent ELSE Fault
             /\ Record(d, found \ failing)
        /\ completed' = IF leaf[d] = "deleted" THEN completed ELSE completed \cup {d}
        /\ tick' = [tick EXCEPT ![w] = NextItem(@)]
        /\ UNCHANGED <<row, leaf, attempts, loop, dropped>>

\* tx-rollback: reported, but the queue row does not remember it.
CommitFails(w) ==
    /\ tick[w].pc = "commit"
    /\ Fault
    /\ tick' = [tick EXCEPT ![w] = NextItem(@)]
    /\ UNCHANGED <<row, leaf, queue, graph, loop>>

\* The SELECT, a heartbeat or BEGIN IMMEDIATE raises out of the tick.
TickError(w) ==
    /\ tick[w].pc \in {"select", "beat", "commit"}
    /\ Fault
    /\ tick' = [tick EXCEPT ![w] = Leave([@ EXCEPT !.raised = TRUE])]
    /\ UNCHANGED <<row, leaf, queue, graph, loop>>

\* The finally clause of tick_extraction.
Release(w) ==
    /\ tick[w].pc = "release"
    /\ \/ row' = ReleaseLock(row, w) /\ UNCHANGED spent
       \/ Fault /\ UNCHANGED row
    /\ tick' = [tick EXCEPT ![w].pc = "account"]
    /\ UNCHANGED <<leaf, queue, graph, loop>>

\* consecutive_failures: a tick refused or robbed of the lock changes nothing,
\* any other tick that returned resets it.
Strikes(l, t) ==
    IF t.raised THEN l.strikes + 1 ELSE IF t.lost THEN l.strikes ELSE 0

\* _run_one_tick after the tick.  Idle ticks never stop this loop.
Account(w) ==
    /\ tick[w].pc = "account"
    /\ LET n == Strikes(loop[w], tick[w])
       IN  loop' = IF w \notin Looping THEN loop
                   ELSE [loop EXCEPT ![w] = [strikes |-> n,
                                             stopped |-> n >= StrikeLimit]]
    /\ tick' = [tick EXCEPT ![w] = NoTick]
    /\ UNCHANGED <<row, leaf, queue, graph, spent>>

-----------------------------------------------------------------------------
(* The rest of the system.                                                 *)

\* insert_summary of a leaf also inserts its queue row.
LeafInserted(d) ==
    /\ leaf[d] = "absent"
    /\ leaf' = [leaf EXCEPT ![d] = "live"]
    /\ UNCHANGED <<row, queue, graph, tick, loop, spent>>

Purge(d) ==
    /\ leaf[d] = "live"
    /\ leaf' = [leaf EXCEPT ![d] = "suppressed"]
    /\ UNCHANGED <<row, queue, graph, tick, loop, spent>>

\* /lcm doctor clean deletes the conversation: queue row and mentions go with
\* the summary, the entities and their counts stay.
Delete(d) ==
    /\ leaf[d] \in {"live", "suppressed"}
    /\ leaf' = [leaf EXCEPT ![d] = "deleted"]
    /\ mentions' = {m \in mentions : m[2] # d}
    /\ dropped' = dropped \cup {m \in mentions : m[2] = d}
    /\ attempts' = [attempts EXCEPT ![d] = 0]
    /\ completed' = completed \ {d}
    /\ UNCHANGED <<row, count, registry, tick, loop, spent>>

\* The next clock tick ends the lease of a worker that is in its tick.
Stalled == row.left = 1 /\ tick[row.worker].pc \notin {"rest", "insert", "account"}

ClockTick ==
    /\ row.held
    /\ row.left > 0
    /\ IF Stalled
       THEN /\ spent.stalls < MaxStalls
            /\ spent' = [spent EXCEPT !.stalls = @ + 1]
       ELSE UNCHANGED spent
    /\ row' = Age(row)
    /\ UNCHANGED <<leaf, queue, graph, tick, loop>>

WorkerStep(w) ==
    \/ StartTick(w) \/ AcquireOk(w) \/ AcquireRefused(w)
    \/ Select(w) \/ BeatOk(w) \/ BeatLost(w)
    \/ ExtractOk(w) \/ ExtractFails(w) \/ ExtractFailsUncounted(w)
    \/ Commit(w) \/ CommitFails(w) \/ TickError(w)
    \/ Release(w) \/ Account(w)

Next ==
    \/ \E w \in Workers : WorkerStep(w)
    \/ \E d \in Leaves : LeafInserted(d) \/ Purge(d) \/ Delete(d)
    \/ ClockTick

\* A worker goes on with its tick, the extractor answers, time passes, and the
\* autostart loop ticks again.
Fairness == WF_vars(ClockTick) /\ \A w \in Workers : WF_vars(WorkerStep(w))

Spec == Init /\ [][Next]_vars /\ Fairness

-----------------------------------------------------------------------------
(* Properties.                                                             *)

\* occurrence_count is the number of mentions ever recorded, and the type
\* registry the number of entities, although a leaf may be extracted several
\* times, by two processes at once and with different answers.  No entity is
\* without a mention, so a surface that fails half-way leaves nothing behind, and
\* no mention refers to a leaf that is gone.
CountsMatch ==
    /\ \A e \in DOMAIN count :
         count[e] = Cardinality(MentionsOf(mentions \cup dropped, e))
    /\ registry = Cardinality(DOMAIN count)
    /\ \A e \in DOMAIN count : count[e] > 0
    /\ \A m \in mentions : m[1] \in DOMAIN count /\ leaf[m[2]] # "deleted"

\* Every queued leaf is settled: extracted, given up after MAX_ATTEMPTS, or
\* gone, unless the loop stopped.  A leaf on which the extractor always raises
\* stands at the head of the queue only until its attempts are used up.
EventuallySettled ==
    \A d \in Leaves :
        d \in Pending ~> (d \notin Pending \/ \E w \in Looping : loop[w].stopped)
=============================================================================
