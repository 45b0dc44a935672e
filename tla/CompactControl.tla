--------------------------- MODULE CompactControl ---------------------------
(***************************************************************************)
(* What decides whether a tool of the agent runs and whether a compaction  *)
(* starts: the token cache (plugin/token_state.py) and the gate in front   *)
(* of the reading tools (plugin/needs_compact_gate.py), the lcm_compact    *)
(* tool with its per-window cap (tools/compact.py, tools/_adapters.py) and *)
(* the circuit breaker around the summariser (engine/circuit_breaker.py,   *)
(* LCMEngine.compact in engine/compact.py).                                *)
(*                                                                         *)
(* Each of the cache, the counter and the breaker has a lock of its own,   *)
(* taken for one operation at a time: a call is a sequence of such steps,  *)
(* and other calls come in between.  One session is modelled, since the    *)
(* engine serves one.  Tokens and seconds are scaled down; a count, a      *)
(* budget or a prompt size of 0 is what the code treats as unknown.        *)
(***************************************************************************)
EXTENDS Integers, FiniteSets, Sequences

CONSTANTS
    Calls,           \* threads that dispatch tool calls
    NoEntry,         \* the cache without an entry
    Prompts,         \* input tokens of a response
    Cached,          \* cache-read and cache-write tokens of a response
    Estimates,       \* estimate_result_tokens of the calls
    Results,         \* tokens of the text a tool returns
    RefusalTokens,   \* tokens of a refusal
    Lengths,         \* context_length of the models
    Reserves,        \* reserveFraction arguments, in percent, clamped
    Cap,             \* _DEFAULT_CAP_PER_WINDOW
    Window,          \* _COMPACTION_WINDOW_MS
    Threshold,       \* circuit_breaker_threshold
    Cooldown,        \* circuit_breaker_cooldown_ms
    MaxTokens,       \* bound: tokens in the cache
    MaxNow,          \* bound: the clock
    MaxAttempts      \* bound: compactions attempted

ASSUME CompactControlAssumption ==
    /\ Prompts \cup Results \subseteq Nat \ {0}
    /\ Cached \cup Lengths \subseteq Nat /\ 0 \in Lengths
    /\ Estimates \subseteq Nat /\ RefusalTokens \in Nat \ {0}
    /\ Reserves \subseteq 50..100
    /\ {Cap, Window, Threshold, Cooldown} \subseteq Nat \ {0}
    /\ {MaxTokens, MaxNow, MaxAttempts} \subseteq Nat

VARIABLES
    now,            \* time.monotonic() and time.time()
    contextLength,  \* engine.context_length
    lastPrompt,     \* engine.last_prompt_tokens
    cache,          \* _tokens_by_session of the session
    counter,        \* _compaction_calls_by_session of the session
    breaker,        \* the CircuitBreaker of the summariser's model
    call,           \* call[c]: the locals of the tool call of thread c
    seen,           \* history: tokens of the last response and of the texts
                    \* the gated tools returned since
    attempts,       \* history: times of the attempts the cap let through
    trips,          \* history: openings of the breaker and time of the last
    basis           \* history: what changed the context last

vars == <<now, contextLength, lastPrompt, cache, counter, breaker, call,
          seen, attempts, trips, basis>>

tokens == <<cache, seen, basis>>
model == <<contextLength, lastPrompt>>

Idle == [pc |-> "idle", count |-> 0, budget |-> 0, basis |-> "response", epoch |-> 0]

Bases == {"response", "compaction"}

PCs == {"idle", "gate", "inner", "compact", "attempt", "core", "note"}

Locals == [pc : PCs, count : Nat, budget : Nat, basis : Bases, epoch : Nat]

Breakers == [state : {"closed", "open", "half_open"}, failures : Nat,
             since : -1..MaxNow]

TypeOK ==
    /\ now \in 0..MaxNow
    /\ contextLength \in Lengths
    /\ lastPrompt \in Prompts \cup {0}
    /\ cache \in {NoEntry} \cup [count : Nat, budget : Nat]
    /\ seen \in Nat
    /\ counter \in [count : 0..Cap, first : 0..MaxNow]
    /\ breaker \in Breakers
    /\ breaker.since = -1 <=> breaker.state = "closed"
    /\ call \in [Calls -> Locals]
    /\ attempts \in Seq(0..MaxNow) /\ Len(attempts) <= MaxAttempts
    /\ trips \in [number : Nat, at : 0..MaxNow]
    /\ basis \in Bases

Init ==
    /\ now = 0
    /\ contextLength = 0
    /\ lastPrompt = 0
    /\ cache = NoEntry
    /\ counter = [count |-> 0, first |-> 0]
    /\ breaker = [state |-> "closed", failures |-> 0, since |-> -1]
    /\ call = [c \in Calls |-> Idle]
    /\ seen = 0 /\ attempts = <<>>
    /\ trips = [number |-> 0, at |-> 0]
    /\ basis = "response"

At(c, pc) == call[c].pc = pc

Goto(c, pc) == call' = [call EXCEPT ![c].pc = pc]

Reply(c) == call' = [call EXCEPT ![c] = Idle]

-----------------------------------------------------------------------------
(* The engine: model and responses.                                        *)

\* update_model; threshold_tokens follows, with threshold_percent = 0.75.
UpdateModel ==
    /\ contextLength' \in Lengths
    /\ UNCHANGED <<now, lastPrompt, tokens, counter, breaker, call, attempts, trips>>

ThresholdTokens == (contextLength * 75) \div 100

\* record_llm_output: an unknown budget keeps the one the entry has.
RecordLlmOutput(n) ==
    cache' = [count |-> n,
              budget |-> IF contextLength > 0 \/ cache = NoEntry
                         THEN contextLength ELSE cache.budget]

\* update_from_response: the engine keeps the prompt's uncached tokens, the
\* cache all of them.
LlmOutput ==
    /\ \E p \in Prompts, k \in Cached :
         /\ lastPrompt' = p
         /\ RecordLlmOutput(p + k)
         /\ seen' = p + k
    /\ basis' = "response"
    /\ UNCHANGED <<now, contextLength, counter, breaker, call, attempts, trips>>

-----------------------------------------------------------------------------
(* A gated tool.                                                           *)

\* accumulate_tool_result_tokens: nothing without an entry.
Accumulate(n) == IF cache = NoEntry THEN cache
                 ELSE [cache EXCEPT !.count = @ + n]

TapResult(n) ==
    /\ cache' = Accumulate(n)
    /\ seen' = IF cache = NoEntry THEN seen ELSE seen + n
    /\ UNCHANGED basis

Fits(n) == seen + n <= MaxTokens

\* get_runtime_context of the cache, read before the gate is evaluated.
GateRead(c) ==
    /\ At(c, "idle")
    /\ call' = [call EXCEPT ![c] =
                  [Idle EXCEPT !.pc = "gate", !.basis = basis,
                               !.count = IF cache = NoEntry THEN 0 ELSE cache.count,
                               !.budget = IF cache = NoEntry THEN 0 ELSE cache.budget]]
    /\ UNCHANGED <<now, model, tokens, counter, breaker, attempts, trips>>

\* evaluate_needs_compact_gate with REFUSAL_THRESHOLD = 0.92.
NeedsCompact(view, estimate) ==
    /\ view.budget > 0
    /\ (view.count + estimate) * 100 > 92 * view.budget

\* Mutant of GateRefuse: the refusal is returned without the tap.
GateRefuseUntapped(c) ==
    /\ At(c, "gate")
    /\ \E e \in Estimates : NeedsCompact(call[c], e)
    /\ cache # NoEntry /\ Fits(RefusalTokens)
    /\ seen' = seen + RefusalTokens
    /\ Reply(c)
    /\ UNCHANGED <<now, model, cache, basis, counter, breaker, attempts, trips>>

GateRefuse(c) ==
    /\ At(c, "gate")
    /\ \E e \in Estimates : NeedsCompact(call[c], e)
    /\ Fits(RefusalTokens)
    /\ TapResult(RefusalTokens)
    /\ Reply(c)
    /\ UNCHANGED <<now, model, counter, breaker, attempts, trips>>

GatePass(c) ==
    /\ At(c, "gate")
    /\ \E e \in Estimates : ~NeedsCompact(call[c], e)
    /\ Goto(c, "inner")
    /\ UNCHANGED <<now, model, tokens, counter, breaker, attempts, trips>>

\* A failing handler is turned into an error text, which is a result too.
ToolResult(c) ==
    /\ At(c, "inner")
    /\ \E n \in Results : Fits(n) /\ TapResult(n)
    /\ Reply(c)
    /\ UNCHANGED <<now, model, counter, breaker, attempts, trips>>

-----------------------------------------------------------------------------
(* lcm_compact.                                                            *)

\* The view of the compact tool is the engine's, not the cache's.
CompactCall(c) ==
    /\ At(c, "idle")
    /\ call' = [call EXCEPT ![c] = [Idle EXCEPT !.pc = "compact",
                                                !.count = lastPrompt,
                                                !.budget = ThresholdTokens]]
    /\ UNCHANGED <<now, model, tokens, counter, breaker, attempts, trips>>

\* Gate 2 of get_agent_compaction_gate_state; the tool is enabled and the engine
\* owns compaction (gate 1), which no step changes.
BelowFloor(view, reserve) ==
    /\ view.budget > 0 /\ view.count > 0
    /\ view.count * 100 < reserve * view.budget

\* Mutant of CompactRefuse: a refusal by the gate counts against the cap.
CompactRefuseCounted(c) ==
    /\ At(c, "compact")
    /\ \E r \in Reserves : BelowFloor(call[c], r)
    /\ counter.count < Cap
    /\ counter' = [counter EXCEPT !.count = @ + 1]
    /\ Reply(c)
    /\ UNCHANGED <<now, model, tokens, breaker, attempts, trips>>

CompactRefuse(c) ==
    /\ At(c, "compact")
    /\ \E r \in Reserves : BelowFloor(call[c], r)
    /\ Reply(c)
    /\ UNCHANGED <<now, model, tokens, counter, breaker, attempts, trips>>

WindowOver == counter.count = 0 \/ now - counter.first > Window

\* _check_and_increment_counter lets the call through.
CompactAttempt(c) ==
    /\ At(c, "compact")
    /\ \E r \in Reserves : ~BelowFloor(call[c], r)
    /\ Len(attempts) < MaxAttempts
    /\ WindowOver \/ counter.count < Cap
    /\ counter' = IF WindowOver THEN [count |-> 1, first |-> now]
                  ELSE [counter EXCEPT !.count = @ + 1]
    /\ attempts' = Append(attempts, now)
    /\ Goto(c, "attempt")
    /\ UNCHANGED <<now, model, tokens, breaker, trips>>

CompactCapped(c) ==
    /\ At(c, "compact")
    /\ \E r \in Reserves : ~BelowFloor(call[c], r)
    /\ ~WindowOver /\ counter.count >= Cap
    /\ Reply(c)
    /\ UNCHANGED <<now, model, tokens, counter, breaker, attempts, trips>>

\* No conversation for the session yet, or no budget.
CompactNothing(c) ==
    /\ At(c, "attempt")
    /\ Reply(c)
    /\ UNCHANGED <<now, model, tokens, counter, breaker, attempts, trips>>

CooledDown == now - breaker.since >= Cooldown

\* CircuitBreaker.is_open answers False; out of "open" only when cooled down.
Admits ==
    \/ breaker.state # "open" /\ UNCHANGED breaker
    \/ breaker.state = "open" /\ CooledDown
       /\ breaker' = [breaker EXCEPT !.state = "half_open"]

Admit(c) ==
    /\ At(c, "attempt") /\ call[c].budget > 0
    /\ Admits
    /\ call' = [call EXCEPT ![c].pc = "core", ![c].epoch = trips.number]
    /\ UNCHANGED <<now, model, tokens, counter, attempts, trips>>

ShortCircuit(c) ==
    /\ At(c, "attempt") /\ call[c].budget > 0
    /\ breaker.state = "open" /\ ~CooledDown
    /\ Reply(c)
    /\ UNCHANGED <<now, model, tokens, counter, breaker, attempts, trips>>

\* Mutant of RecordFailure: a failed probe keeps the old open_since.
RecordFailureUnstamped ==
    LET opens == \/ breaker.state = "half_open"
                 \/ breaker.state = "closed" /\ breaker.failures + 1 >= Threshold
    IN breaker' = [state |-> IF opens THEN "open" ELSE breaker.state,
                   failures |-> breaker.failures + 1,
                   since |-> IF breaker.since = -1 /\ opens THEN now ELSE breaker.since]

\* CircuitBreaker.record_failure and record_success.
RecordFailure ==
    LET opens == \/ breaker.state = "half_open"
                 \/ breaker.state = "closed" /\ breaker.failures + 1 >= Threshold
    IN breaker' = [state |-> IF opens THEN "open" ELSE breaker.state,
                   failures |-> breaker.failures + 1,
                   since |-> IF opens THEN now ELSE breaker.since]

RecordSuccess == breaker' = [state |-> "closed", failures |-> 0, since |-> -1]

NoteTrip ==
    trips' = IF breaker'.state = "open" /\ breaker.state # "open"
             THEN [number |-> trips.number + 1, at |-> now] ELSE trips

\* The exception, or a result flagged auth_failure that may still have acted.
CoreAuthFailure(c) ==
    /\ At(c, "core")
    /\ RecordFailure /\ NoteTrip
    /\ Reply(c) \/ Goto(c, "note")
    /\ UNCHANGED <<now, model, tokens, counter, attempts>>

CoreSuccess(c) ==
    /\ At(c, "core")
    /\ RecordSuccess /\ NoteTrip
    /\ Reply(c) \/ Goto(c, "note")
    /\ UNCHANGED <<now, model, tokens, counter, attempts>>

\* Any other exception passes the breaker by.
CoreRaise(c) ==
    /\ At(c, "core")
    /\ Reply(c)
    /\ UNCHANGED <<now, model, tokens, counter, breaker, attempts, trips>>

\* Mutant of ClearEntry: the entry survives the compaction.
KeepEntry == UNCHANGED <<cache, seen>>

ClearEntry == cache' = NoEntry /\ seen' = 0

\* note_successful_compact.
NoteSuccessfulCompact(c) ==
    /\ At(c, "note")
    /\ ClearEntry
    /\ basis' = "compaction"
    /\ Reply(c)
    /\ UNCHANGED <<now, model, counter, breaker, attempts, trips>>

Tick ==
    /\ now < MaxNow
    /\ now' = now + 1
    /\ UNCHANGED <<model, tokens, counter, breaker, call, attempts, trips>>

Next ==
    \/ UpdateModel \/ LlmOutput \/ Tick
    \/ \E c \in Calls :
         \/ GateRead(c) \/ GateRefuse(c) \/ GatePass(c) \/ ToolResult(c)
         \/ CompactCall(c) \/ CompactRefuse(c) \/ CompactAttempt(c)
         \/ CompactCapped(c) \/ CompactNothing(c)
         \/ Admit(c) \/ ShortCircuit(c)
         \/ CoreAuthFailure(c) \/ CoreSuccess(c) \/ CoreRaise(c)
         \/ NoteSuccessfulCompact(c)

Spec == Init /\ [][Next]_vars

-----------------------------------------------------------------------------
(* Properties.                                                             *)

\* An entry of the token cache is the size of the last response plus every
\* text the gated tools gave the agent since, refusals and errors included,
\* whatever the order in which concurrent calls read the gate and tap.
CacheExact == cache # NoEntry => cache.count = seen

AttemptsSince(t) == {i \in 1..Len(attempts) : attempts[i] >= t}

\* The counter of lcm_compact is the number of attempts since its window began,
\* those a gate refused not among them, and concurrent calls never get more
\* than Cap of them through.
AttemptsBounded ==
    /\ counter.count > 0 => Cardinality(AttemptsSince(counter.first)) = counter.count
    /\ counter.count <= Cap

\* While the breaker is open, a compaction still running was admitted before it
\* opened: the success that closes an open breaker (record_success resets in
\* every state) is always a late one.
AdmittedBeforeOpening ==
    breaker.state = "open" =>
        \A c \in Calls : At(c, "core") => call[c].epoch < trips.number

\* Once Threshold authentication failures came in with no success between them,
\* a compaction reaches the summariser only when Cooldown has passed since the
\* breaker last opened; a failed probe starts that time anew.
OutageBackoff ==
    [][\A c \in Calls :
         At(c, "attempt") /\ call'[c].pc = "core" =>
             breaker.failures < Threshold \/ now - trips.at >= Cooldown]_vars

\* After a compaction, and until the next response tells the real size of the
\* context, no call is refused on the size from before: the loop of compacting
\* and being refused that note_successful_compact is there to prevent.
NoStaleRefusal ==
    [][\A c \in Calls :
         At(c, "gate") /\ call'[c].pc = "idle" => call[c].basis = "response"]_vars
=============================================================================
