--------------------------- MODULE EngineProofs ----------------------------
(***************************************************************************)
(* Proofs about the engine's hooks.                                        *)
(*                                                                         *)
(* First CompactControl, for every number of concurrent calls and every    *)
(* threshold, cooldown, cap and window.                                    *)
(*                                                                         *)
(* Then Ingest, for any callers, messages and mishaps.  The inductive      *)
(* invariant is IngestInv.  That the rows are in order follows from what   *)
(* lies ahead of the cursor: every message there is newer than every row   *)
(* (Fresh).  A cursor that is not set says nothing, so that the invariant  *)
(* speaks of the position its reconciliation will find (Ahead): the walk   *)
(* passes every message that the rows replay (WalkFresh).  The walk        *)
(* compares contents, which messages share.  That what it passes is stored *)
(* needs a count of the rows while the list is the conversation from its   *)
(* beginning (Genuine, PlacedStored); afterwards no more is true than that *)
(* the row in its place has its role and content (Passed).                 *)
(***************************************************************************)
EXTENDS CompactControl, Ingest, FiniteSetTheorems, SequenceTheorems,
        WellFoundedInduction, TLAPS

\* One disjunct of Next, for thread c.
Step(c) ==
    \/ GateRead(c) \/ GateRefuse(c) \/ GatePass(c) \/ ToolResult(c)
    \/ CompactCall(c) \/ CompactRefuse(c) \/ CompactAttempt(c)
    \/ CompactCapped(c) \/ CompactNothing(c)
    \/ Admit(c) \/ ShortCircuit(c)
    \/ CoreAuthFailure(c) \/ CoreSuccess(c) \/ CoreRaise(c)
    \/ NoteSuccessfulCompact(c)

-----------------------------------------------------------------------------
(* Types.                                                                  *)

\* Moving a call to another step, or leaving it, keeps the locals typed.
LEMMA MoveTyped ==
    ASSUME call \in [Calls -> Locals], NEW c \in Calls, NEW place \in PCs
    PROVE  [call EXCEPT ![c].pc = place] \in [Calls -> Locals]
  <1>1. call[c] \in Locals
    OBVIOUS
  <1>2. [call[c] EXCEPT !.pc = place] \in Locals
    BY <1>1 DEF Locals
  <1> QED BY <1>2

\* A call that replies is as it was before.
LEMMA ReplyTyped ==
    ASSUME call \in [Calls -> Locals], NEW c \in Calls
    PROVE  [call EXCEPT ![c] = Idle] \in [Calls -> Locals]
  <1>1. Idle \in Locals
    BY DEF Idle, Locals, PCs, Bases
  <1> QED BY <1>1

\* The locals of a call after any of its steps.
LEMMA CallTyped ==
    ASSUME TypeOK, NEW c \in Calls, Step(c)
    PROVE  call' \in [Calls -> Locals]
  <1>0. call \in [Calls -> Locals] /\ call[c] \in Locals
    BY DEF TypeOK
  <1>1. CASE GateRead(c)
    <2> DEFINE n == IF cache = NoEntry THEN 0 ELSE cache.count
               b == IF cache = NoEntry THEN 0 ELSE cache.budget
               new == [Idle EXCEPT !.pc = "gate", !.basis = basis,
                                   !.count = n, !.budget = b]
    <2>1. n \in Nat /\ b \in Nat
      BY DEF TypeOK
    <2>2. basis \in Bases
      BY DEF TypeOK
    <2> HIDE DEF n, b
    <2>3. new \in Locals
      BY <2>1, <2>2 DEF Idle, Locals, PCs
    <2>4. call' = [call EXCEPT ![c] = new]
      BY <1>1 DEF GateRead, n, b
    <2> HIDE DEF new
    <2> QED BY <1>0, <2>3, <2>4
  <1>2. CASE CompactCall(c)
    <2> DEFINE new == [Idle EXCEPT !.pc = "compact", !.count = lastPrompt,
                                   !.budget = ThresholdTokens]
    <2>1. lastPrompt \in Nat /\ contextLength \in Nat
      BY CompactControlAssumption DEF TypeOK, CompactControlAssumption
    <2>2. ThresholdTokens \in Nat
      BY <2>1 DEF ThresholdTokens
    <2>3. new \in Locals
      BY <2>1, <2>2 DEF Idle, Locals, PCs, Bases
    <2>4. call' = [call EXCEPT ![c] = new]
      BY <1>2 DEF CompactCall
    <2> HIDE DEF new
    <2> QED BY <1>0, <2>3, <2>4
  <1>3. CASE Admit(c)
    <2> DEFINE new == [call[c] EXCEPT !.pc = "core", !.epoch = trips.number]
    <2>1. trips.number \in Nat
      BY DEF TypeOK
    <2>2. new \in Locals
      BY <1>0, <2>1 DEF Locals, PCs
    <2>3. call' = [call EXCEPT ![c] = new]
      BY <1>3, <1>0 DEF Admit
    <2> HIDE DEF new
    <2> QED BY <1>0, <2>2, <2>3
  <1>4. CASE GatePass(c) \/ CompactAttempt(c)
    <2>1. Goto(c, "inner") \/ Goto(c, "attempt")
      BY <1>4 DEF GatePass, CompactAttempt
    <2>2. {"inner", "attempt"} \subseteq PCs
      BY DEF PCs
    <2> QED BY <1>0, <2>1, <2>2, MoveTyped DEF Goto
  <1>5. CASE CoreAuthFailure(c) \/ CoreSuccess(c)
    <2>1. Reply(c) \/ Goto(c, "note")
      BY <1>5 DEF CoreAuthFailure, CoreSuccess
    <2>2. "note" \in PCs
      BY DEF PCs
    <2> QED BY <1>0, <2>1, <2>2, MoveTyped, ReplyTyped DEF Goto, Reply
  <1>6. CASE \/ GateRefuse(c) \/ ToolResult(c) \/ CompactRefuse(c)
             \/ CompactCapped(c) \/ CompactNothing(c) \/ ShortCircuit(c)
             \/ CoreRaise(c) \/ NoteSuccessfulCompact(c)
    <2>1. Reply(c)
      BY <1>6
      DEF GateRefuse, ToolResult, CompactRefuse, CompactCapped, CompactNothing,
          ShortCircuit, CoreRaise, NoteSuccessfulCompact
    <2> QED BY <1>0, <2>1, ReplyTyped DEF Reply
  <1> QED BY <1>1, <1>2, <1>3, <1>4, <1>5, <1>6 DEF Step

\* The cache and the history of it, after any step of a call.
LEMMA TokensTyped ==
    ASSUME TypeOK, NEW c \in Calls, Step(c)
    PROVE  /\ cache' \in {NoEntry} \cup [count : Nat, budget : Nat]
           /\ seen' \in Nat
           /\ basis' \in Bases
  <1>1. CASE GateRefuse(c) \/ ToolResult(c)
    <2>1. PICK n \in Nat : TapResult(n)
      BY <1>1, CompactControlAssumption
      DEF GateRefuse, ToolResult, CompactControlAssumption
    <2>2. CASE cache = NoEntry
      BY <2>1, <2>2 DEF TapResult, Accumulate, TypeOK
    <2>3. CASE cache # NoEntry
      <3>1. cache \in [count : Nat, budget : Nat]
        BY <2>3 DEF TypeOK
      <3>2. cache' = [cache EXCEPT !.count = @ + n]
        BY <2>1, <2>3 DEF TapResult, Accumulate
      <3>3. seen' = seen + n /\ basis' = basis
        BY <2>1, <2>3 DEF TapResult
      <3> QED BY <3>1, <3>2, <3>3, SMTT(30) DEF TypeOK
    <2> QED BY <2>2, <2>3
  <1>2. CASE NoteSuccessfulCompact(c)
    BY <1>2 DEF NoteSuccessfulCompact, ClearEntry, Bases
  <1>3. CASE UNCHANGED tokens
    BY <1>3 DEF tokens, TypeOK
  <1> QED
    BY <1>1, <1>2, <1>3
    DEF Step, GateRead, GatePass, CompactCall, CompactRefuse, CompactAttempt,
        CompactCapped, CompactNothing, Admit, ShortCircuit, CoreAuthFailure,
        CoreSuccess, CoreRaise

\* The breaker and its history, after any step of a call.
LEMMA BreakerTyped ==
    ASSUME TypeOK, NEW c \in Calls, Step(c)
    PROVE  /\ breaker' \in Breakers
           /\ breaker'.since = -1 <=> breaker'.state = "closed"
           /\ trips' \in [number : Nat, at : 0..MaxNow]
  <1>1. CASE Admit(c)
    BY <1>1 DEF Admit, Admits, TypeOK, Breakers
  <1>2. CASE CoreAuthFailure(c)
    <2>1. breaker' \in Breakers /\ (breaker'.since = -1 <=> breaker'.state = "closed")
      BY <1>2 DEF CoreAuthFailure, RecordFailure, TypeOK, Breakers
    <2> QED BY <1>2, <2>1 DEF CoreAuthFailure, NoteTrip, TypeOK
  <1>3. CASE CoreSuccess(c)
    <2>1. breaker' \in Breakers /\ (breaker'.since = -1 <=> breaker'.state = "closed")
      BY <1>3, CompactControlAssumption, SMTT(30)
      DEF CoreSuccess, RecordSuccess, TypeOK, Breakers, CompactControlAssumption
    <2> QED BY <1>3, <2>1 DEF CoreSuccess, NoteTrip, TypeOK
  <1>4. CASE UNCHANGED <<breaker, trips>>
    BY <1>4 DEF TypeOK
  <1> QED
    BY <1>1, <1>2, <1>3, <1>4
    DEF Step, GateRead, GateRefuse, GatePass, ToolResult, CompactCall,
        CompactRefuse, CompactAttempt, CompactCapped, CompactNothing,
        ShortCircuit, CoreRaise, NoteSuccessfulCompact

\* The counter of lcm_compact and its history, after any step of a call.
LEMMA CounterTyped ==
    ASSUME TypeOK, NEW c \in Calls, Step(c)
    PROVE  /\ counter' \in [count : 0..Cap, first : 0..MaxNow]
           /\ attempts' \in Seq(0..MaxNow) /\ Len(attempts') <= MaxAttempts
  <1>1. CASE CompactAttempt(c)
    <2>0. Cap \in Nat \ {0}
      BY CompactControlAssumption DEF CompactControlAssumption
    <2>1. counter' \in [count : 0..Cap, first : 0..MaxNow]
      <3>1. CASE WindowOver
        BY <1>1, <2>0, <3>1 DEF CompactAttempt, TypeOK
      <3>2. CASE ~WindowOver
        BY <1>1, <2>0, <3>2 DEF CompactAttempt, TypeOK
      <3> QED BY <3>1, <3>2
    <2>2. attempts' = Append(attempts, now) /\ Len(attempts) < MaxAttempts
      BY <1>1 DEF CompactAttempt
    <2>3. attempts' \in Seq(0..MaxNow) /\ Len(attempts') = Len(attempts) + 1
      BY <2>2, AppendProperties DEF TypeOK
    <2> QED
      BY <2>1, <2>2, <2>3, LenProperties, CompactControlAssumption, SMTT(30)
      DEF TypeOK, CompactControlAssumption
  <1>2. CASE UNCHANGED <<counter, attempts>>
    BY <1>2 DEF TypeOK
  <1> QED
    BY <1>1, <1>2
    DEF Step, GateRead, GateRefuse, GatePass, ToolResult, CompactCall,
        CompactRefuse, CompactCapped, CompactNothing, Admit, ShortCircuit,
        CoreAuthFailure, CoreSuccess, CoreRaise, NoteSuccessfulCompact

\* No step of a call changes the clock or what the engine knows of the model.
LEMMA ModelKept ==
    ASSUME NEW c \in Calls, Step(c)
    PROVE  UNCHANGED <<now, contextLength, lastPrompt>>
  BY DEF Step, GateRead, GateRefuse, GatePass, ToolResult, CompactCall,
         CompactRefuse, CompactAttempt, CompactCapped, CompactNothing, Admit,
         ShortCircuit, CoreAuthFailure, CoreSuccess, CoreRaise,
         NoteSuccessfulCompact, model

\* Each step keeps the types.
LEMMA TypeStep == TypeOK /\ [Next]_vars => TypeOK'
  <1> SUFFICES ASSUME TypeOK, [Next]_vars PROVE TypeOK'
    OBVIOUS
  <1>1. CASE UpdateModel
    BY <1>1 DEF UpdateModel, TypeOK, tokens
  <1>2. CASE LlmOutput
    <2>1. PICK p \in Prompts, k \in Cached :
            lastPrompt' = p /\ RecordLlmOutput(p + k) /\ seen' = p + k
      BY <1>2 DEF LlmOutput
    <2>2. p + k \in Nat /\ contextLength \in Nat
      <3>1. Prompts \subseteq Nat /\ Cached \subseteq Nat /\ Lengths \subseteq Nat
        BY CompactControlAssumption DEF CompactControlAssumption
      <3>2. p \in Nat /\ k \in Nat
        BY <3>1
      <3> QED BY <3>1, <3>2 DEF TypeOK
    <2>3. cache' \in [count : Nat, budget : Nat]
      <3> DEFINE b == IF contextLength > 0 \/ cache = NoEntry
                      THEN contextLength ELSE cache.budget
      <3>1. b \in Nat
        BY <2>2 DEF TypeOK
      <3>2. cache' = [count |-> p + k, budget |-> b]
        BY <2>1 DEF RecordLlmOutput
      <3> HIDE DEF b
      <3> QED BY <2>2, <3>1, <3>2
    <2> QED BY <1>2, <2>1, <2>2, <2>3 DEF LlmOutput, TypeOK, Bases
  <1>3. CASE Tick
    BY <1>3, CompactControlAssumption, SMTT(30)
    DEF Tick, TypeOK, model, tokens, CompactControlAssumption
  <1>4. ASSUME NEW c \in Calls, Step(c) PROVE TypeOK'
    BY <1>4, CallTyped, TokensTyped, BreakerTyped, CounterTyped, ModelKept DEF TypeOK
  <1>5. CASE UNCHANGED vars
    BY <1>5 DEF vars, TypeOK
  <1> QED BY <1>1, <1>2, <1>3, <1>4, <1>5 DEF Next, Step

\* Initially nothing is cached and no call runs.
LEMMA InitTyped == Init => TypeOK
  <1> SUFFICES ASSUME Init PROVE TypeOK
    OBVIOUS
  <1>1. Idle \in Locals
    BY DEF Idle, PCs, Bases, Locals
  <1>2. call \in [Calls -> Locals]
    BY <1>1 DEF Init
  <1>3. attempts \in Seq(0..MaxNow) /\ Len(attempts) <= MaxAttempts
    BY CompactControlAssumption, EmptySeq DEF Init, CompactControlAssumption
  <1> QED
    BY <1>2, <1>3, CompactControlAssumption
    DEF Init, TypeOK, Breakers, Bases, CompactControlAssumption

\* Every variable keeps its type; in particular the counter of lcm_compact never
\* passes the cap, and open_since is set exactly while the breaker is not closed.
THEOREM TypeCorrect == Spec => []TypeOK
  BY InitTyped, TypeStep, PTL DEF Spec

-----------------------------------------------------------------------------
(* The cache and the gate.                                                 *)

\* A compaction leaves no entry until the next response, and a view read in
\* between knows no budget, with which the gate lets everything pass.
Measured ==
    /\ CacheExact
    /\ basis = "compaction" => cache = NoEntry
    /\ \A c \in Calls :
         At(c, "gate") /\ call[c].basis = "compaction" => call[c].budget = 0

LEMMA MeasuredStep == TypeOK /\ Measured /\ [Next]_vars => Measured'
  <1> SUFFICES ASSUME TypeOK, Measured, [Next]_vars PROVE Measured'
    OBVIOUS
  <1> USE DEF Measured, CacheExact, At
  <1>1. CASE UpdateModel \/ Tick \/ UNCHANGED vars
    BY <1>1 DEF UpdateModel, Tick, tokens, vars
  <1>2. CASE LlmOutput
    BY <1>2 DEF LlmOutput, RecordLlmOutput
  <1>3. ASSUME NEW c \in Calls, Step(c) PROVE Measured'
    <2>0. call \in [Calls -> Locals]
      BY DEF TypeOK
    <2>1. CASE GateRead(c)
      <3>1. UNCHANGED tokens
        BY <2>1 DEF GateRead
      <3>2. /\ call'[c].budget = IF cache = NoEntry THEN 0 ELSE cache.budget
            /\ call'[c].basis = basis
            /\ \A d \in Calls \ {c} : call'[d] = call[d]
        BY <2>0, <2>1 DEF GateRead, Idle
      <3> QED BY <3>1, <3>2 DEF tokens
    <2>2. CASE GateRefuse(c) \/ ToolResult(c)
      <3>1. PICK n \in Nat : TapResult(n)
        BY <2>2, CompactControlAssumption
        DEF GateRefuse, ToolResult, CompactControlAssumption
      <3>2. /\ call'[c].pc = "idle"
            /\ \A d \in Calls \ {c} : call'[d] = call[d]
        BY <2>0, <2>2 DEF GateRefuse, ToolResult, Reply, Idle
      <3>3. cache' # NoEntry => cache'.count = seen'
        <4>1. CASE cache = NoEntry
          BY <3>1, <4>1 DEF TapResult, Accumulate
        <4>2. CASE cache # NoEntry
          <5>1. cache \in [count : Nat, budget : Nat]
            BY <4>2 DEF TypeOK
          <5>2. cache' = [cache EXCEPT !.count = @ + n] /\ seen' = seen + n
            BY <3>1, <4>2 DEF TapResult, Accumulate
          <5> QED BY <4>2, <5>1, <5>2
        <4> QED BY <4>1, <4>2
      <3>4. basis' = basis /\ (cache = NoEntry => cache' = NoEntry)
        BY <3>1 DEF TapResult, Accumulate
      <3> QED BY <3>2, <3>3, <3>4
    <2>3. CASE NoteSuccessfulCompact(c)
      <3>1. cache' = NoEntry
        BY <2>3 DEF NoteSuccessfulCompact, ClearEntry
      <3>2. /\ call'[c].pc = "idle"
            /\ \A d \in Calls \ {c} : call'[d] = call[d]
        BY <2>0, <2>3 DEF NoteSuccessfulCompact, Reply, Idle
      <3> QED BY <3>1, <3>2
    <2>4. CASE \/ GatePass(c) \/ CompactCall(c) \/ CompactRefuse(c)
               \/ CompactAttempt(c) \/ CompactCapped(c) \/ CompactNothing(c)
               \/ Admit(c) \/ ShortCircuit(c) \/ CoreAuthFailure(c)
               \/ CoreSuccess(c) \/ CoreRaise(c)
      <3>1. UNCHANGED tokens
        BY <2>4
        DEF GatePass, CompactCall, CompactRefuse, CompactAttempt, CompactCapped,
            CompactNothing, Admit, ShortCircuit, CoreAuthFailure, CoreSuccess,
            CoreRaise
      <3>2. /\ call'[c].pc # "gate"
            /\ \A d \in Calls \ {c} : call'[d] = call[d]
        <4>1. call[c] \in Locals
          BY <2>0
        <4>2. CASE \E place \in PCs \ {"gate"} : Goto(c, place)
          BY <2>0, <4>1, <4>2 DEF Goto, Locals
        <4>3. CASE Reply(c)
          BY <2>0, <4>3 DEF Reply, Idle
        <4>4. CASE CompactCall(c)
          BY <2>0, <4>4 DEF CompactCall, Idle
        <4>5. CASE Admit(c)
          BY <2>0, <4>1, <4>5 DEF Admit, Locals
        <4>6. {"inner", "attempt", "note"} \subseteq PCs \ {"gate"}
          BY DEF PCs
        <4> QED
          BY <2>4, <4>2, <4>3, <4>4, <4>5, <4>6
          DEF GatePass, CompactRefuse, CompactAttempt, CompactCapped,
              CompactNothing, ShortCircuit, CoreAuthFailure, CoreSuccess, CoreRaise
      <3> QED BY <3>1, <3>2 DEF tokens
    <2> QED BY <1>3, <2>1, <2>2, <2>3, <2>4 DEF Step
  <1> QED BY <1>1, <1>2, <1>3 DEF Next, Step

LEMMA InitMeasured == Init => Measured
  BY DEF Init, Measured, CacheExact, At, Idle

\* The cache is the size of the last response plus what the gated tools returned
\* since, however their steps interleave with each other and with compactions.
THEOREM CacheCorrect == Spec => []CacheExact
  <1>1. Measured => CacheExact
    BY DEF Measured
  <1> QED BY <1>1, InitMeasured, MeasuredStep, TypeCorrect, PTL DEF Spec

\* No refusal after a compaction rests on a size from before it, even when calls
\* of other threads read the cache, return results and compact in between.
THEOREM RefusalsFresh == Spec => NoStaleRefusal
  <1>1. TypeOK /\ Measured /\ [Next]_vars =>
          [\A c \in Calls :
             At(c, "gate") /\ call'[c].pc = "idle" => call[c].basis = "response"]_vars
    <2> SUFFICES ASSUME TypeOK, Measured, Next, NEW c \in Calls,
                        At(c, "gate"), call'[c].pc = "idle"
                 PROVE  call[c].basis = "response"
      OBVIOUS
    <2>1. call \in [Calls -> Locals] /\ call[c] \in Locals
      BY DEF TypeOK
    <2>2. call'[c] # call[c]
      BY DEF At
    <2>3. PICK d \in Calls : Step(d)
      BY <2>2 DEF Next, Step, UpdateModel, LlmOutput, Tick
    <2>4. d = c
      BY <2>1, <2>2, <2>3
      DEF Step, GateRead, GateRefuse, GatePass, ToolResult, CompactCall,
          CompactRefuse, CompactAttempt, CompactCapped, CompactNothing, Admit,
          ShortCircuit, CoreAuthFailure, CoreSuccess, CoreRaise,
          NoteSuccessfulCompact, Reply, Goto
    <2>5. GateRefuse(c) \/ GatePass(c)
      BY <2>3, <2>4
      DEF Step, At, GateRead, ToolResult, CompactCall, CompactRefuse,
          CompactAttempt, CompactCapped, CompactNothing, Admit, ShortCircuit,
          CoreAuthFailure, CoreSuccess, CoreRaise, NoteSuccessfulCompact
    <2>6. ~GatePass(c)
      BY <2>1 DEF GatePass, Goto, Locals
    <2>7. call[c].budget > 0
      BY <2>5, <2>6 DEF GateRefuse, NeedsCompact
    <2> QED BY <2>1, <2>7 DEF Measured, Locals, Bases
  <1> QED BY <1>1, InitMeasured, MeasuredStep, TypeCorrect, PTL DEF Spec, NoStaleRefusal

-----------------------------------------------------------------------------
(* The breaker.                                                            *)

\* open_since is the time of the last opening, a half-open breaker has cooled
\* down since, a closed one is below the threshold; who runs while the breaker is
\* open was admitted before.
Guarded ==
    /\ AdmittedBeforeOpening
    /\ \A c \in Calls : At(c, "core") => call[c].epoch <= trips.number
    /\ breaker.state = "closed" => breaker.failures < Threshold
    /\ breaker.state # "closed" => breaker.since = trips.at
    /\ breaker.state = "half_open" => now - trips.at >= Cooldown

LEMMA GuardedStep == TypeOK /\ Guarded /\ [Next]_vars => Guarded'
  <1> SUFFICES ASSUME TypeOK, Guarded, [Next]_vars PROVE Guarded'
    OBVIOUS
  <1> USE DEF Guarded, AdmittedBeforeOpening, At
  <1>0. /\ {Cooldown, Threshold} \subseteq Nat \ {0}
        /\ now \in Nat
        /\ trips \in [number : Nat, at : Nat]
        /\ call \in [Calls -> Locals]
        /\ breaker \in Breakers
    BY CompactControlAssumption DEF CompactControlAssumption, TypeOK
  <1>1. CASE UpdateModel \/ LlmOutput \/ UNCHANGED vars
    BY <1>1 DEF UpdateModel, LlmOutput, vars
  <1>2. CASE Tick
    <2>1. now' = now + 1 /\ UNCHANGED <<breaker, call, trips>>
      BY <1>2 DEF Tick
    <2>2. trips.at \in Nat
      BY <1>0
    <2> QED BY <1>0, <2>1, <2>2
  <1>3. ASSUME NEW c \in Calls, Step(c) PROVE Guarded'
    <2>0. now' = now
      BY <1>3, ModelKept
    <2>1. CASE Admit(c)
      <3>1. /\ call'[c].epoch = trips.number
            /\ \A d \in Calls \ {c} : call'[d] = call[d]
            /\ trips' = trips
        BY <1>0, <2>1 DEF Admit, Locals
      <3>2. trips.number \in Nat
        BY <1>0
      <3>3. CASE breaker.state # "open" /\ UNCHANGED breaker
        BY <2>0, <3>1, <3>2, <3>3
      <3>4. CASE breaker.state = "open" /\ CooledDown
                 /\ breaker' = [breaker EXCEPT !.state = "half_open"]
        BY <1>0, <2>0, <3>1, <3>2, <3>4 DEF CooledDown, Breakers
      <3> QED BY <2>1, <3>3, <3>4 DEF Admit, Admits
    <2>2. CASE CoreAuthFailure(c) \/ CoreSuccess(c)
      <3>1. /\ call'[c].pc # "core"
            /\ \A d \in Calls \ {c} : call'[d] = call[d]
        <4>1. call[c] \in Locals
          BY <1>0
        <4> QED BY <1>0, <2>2, <4>1
                DEF CoreAuthFailure, CoreSuccess, Reply, Goto, Idle, Locals
      <3>2. trips.number \in Nat /\ trips.at \in Nat /\ breaker.failures \in Nat
        BY <1>0 DEF Breakers
      <3>3. CASE CoreSuccess(c)
        <4>1. breaker'.state = "closed" /\ breaker'.failures = 0 /\ trips' = trips
          BY <3>3 DEF CoreSuccess, RecordSuccess, NoteTrip
        <4> QED BY <1>0, <2>0, <3>1, <4>1
      <3>4. CASE CoreAuthFailure(c) /\ breaker.state = "open"
        <4>1. breaker'.state = "open" /\ breaker'.since = breaker.since /\ trips' = trips
          BY <3>4 DEF CoreAuthFailure, RecordFailure, NoteTrip
        <4> QED BY <2>0, <3>1, <3>4, <4>1
      <3>5. CASE CoreAuthFailure(c) /\ breaker.state # "open"
        <4>1. CASE breaker.state = "half_open" \/ breaker.failures + 1 >= Threshold
          <5>1. /\ breaker'.state = "open" /\ breaker'.since = now
                /\ trips' = [number |-> trips.number + 1, at |-> now]
            BY <1>0, <3>5, <4>1 DEF CoreAuthFailure, RecordFailure, NoteTrip, Breakers
          <5>2. \A d \in Calls \ {c} : At(d, "core") => call[d].epoch <= trips.number
            OBVIOUS
          <5>3. \A d \in Calls : call[d].epoch \in Nat
            BY <1>0 DEF Locals
          <5> QED BY <2>0, <3>1, <3>2, <5>1, <5>2, <5>3
        <4>2. CASE ~(breaker.state = "half_open" \/ breaker.failures + 1 >= Threshold)
          <5>1. /\ breaker'.state = "closed" /\ breaker'.failures = breaker.failures + 1
                /\ trips' = trips
            BY <1>0, <3>5, <4>2 DEF CoreAuthFailure, RecordFailure, NoteTrip, Breakers
          <5> QED BY <1>0, <3>1, <3>2, <4>2, <5>1
        <4> QED BY <4>1, <4>2
      <3> QED BY <2>2, <3>3, <3>4, <3>5
    <2>3. CASE \/ GateRead(c) \/ GateRefuse(c) \/ GatePass(c) \/ ToolResult(c)
               \/ CompactCall(c) \/ CompactRefuse(c) \/ CompactAttempt(c)
               \/ CompactCapped(c) \/ CompactNothing(c) \/ ShortCircuit(c)
               \/ CoreRaise(c) \/ NoteSuccessfulCompact(c)
      <3>1. UNCHANGED <<breaker, trips>>
        BY <2>3
        DEF GateRead, GateRefuse, GatePass, ToolResult, CompactCall, CompactRefuse,
            CompactAttempt, CompactCapped, CompactNothing, ShortCircuit, CoreRaise,
            NoteSuccessfulCompact
      <3>2. /\ call'[c].pc # "core"
            /\ \A d \in Calls \ {c} : call'[d] = call[d]
        <4>1. call[c] \in Locals
          BY <1>0
        <4>2. CASE Goto(c, "inner") \/ Goto(c, "attempt")
          BY <1>0, <4>1, <4>2 DEF Goto, Locals
        <4>3. CASE Reply(c)
          BY <1>0, <4>3 DEF Reply, Idle
        <4>4. CASE GateRead(c)
          BY <1>0, <4>4 DEF GateRead, Idle
        <4>5. CASE CompactCall(c)
          BY <1>0, <4>5 DEF CompactCall, Idle
        <4> QED
          BY <2>3, <4>2, <4>3, <4>4, <4>5
          DEF GateRefuse, GatePass, ToolResult, CompactRefuse, CompactAttempt,
              CompactCapped, CompactNothing, ShortCircuit, CoreRaise,
              NoteSuccessfulCompact
      <3> QED BY <2>0, <3>1, <3>2
    <2> QED BY <1>3, <2>1, <2>2, <2>3 DEF Step
  <1> QED BY <1>1, <1>2, <1>3 DEF Next, Step

LEMMA InitGuarded == Init => Guarded
  BY CompactControlAssumption
  DEF Init, Guarded, AdmittedBeforeOpening, At, Idle, CompactControlAssumption

\* A compaction that runs while the breaker is open was admitted before it
\* opened, for any number of calls in flight.
THEOREM LateSuccessOnly == Spec => []AdmittedBeforeOpening
  <1>1. Guarded => AdmittedBeforeOpening
    BY DEF Guarded
  <1> QED BY <1>1, InitGuarded, GuardedStep, TypeCorrect, PTL DEF Spec

\* In an outage the summariser is left alone for Cooldown after each opening,
\* for every threshold and cooldown.
THEOREM BackoffHolds == Spec => OutageBackoff
  <1>1. TypeOK /\ Guarded /\ [Next]_vars =>
          [\A c \in Calls : At(c, "attempt") /\ call'[c].pc = "core" =>
             breaker.failures < Threshold \/ now - trips.at >= Cooldown]_vars
    <2> SUFFICES ASSUME TypeOK, Guarded, Next, NEW c \in Calls,
                        At(c, "attempt"), call'[c].pc = "core"
                 PROVE  breaker.failures < Threshold \/ now - trips.at >= Cooldown
      OBVIOUS
    <2>1. call \in [Calls -> Locals] /\ breaker \in Breakers
      BY DEF TypeOK
    <2>2. call'[c] # call[c]
      BY DEF At
    <2>3. PICK d \in Calls : Step(d)
      BY <2>2 DEF Next, Step, UpdateModel, LlmOutput, Tick
    <2>4. CASE Admit(d)
      BY <2>1, <2>4 DEF Admit, Admits, CooledDown, Guarded, Breakers
    <2>5. CASE ~Admit(d)
      <3>1. d = c
        BY <2>1, <2>2, <2>3
        DEF Step, GateRead, GateRefuse, GatePass, ToolResult, CompactCall,
            CompactRefuse, CompactAttempt, CompactCapped, CompactNothing, Admit,
            ShortCircuit, CoreAuthFailure, CoreSuccess, CoreRaise,
            NoteSuccessfulCompact, Reply, Goto
      <3>2. CompactNothing(c) \/ ShortCircuit(c)
        BY <2>3, <2>5, <3>1
        DEF Step, At, GateRead, GateRefuse, GatePass, ToolResult, CompactCall,
            CompactRefuse, CompactAttempt, CompactCapped, CoreAuthFailure,
            CoreSuccess, CoreRaise, NoteSuccessfulCompact
      <3>3. call'[c].pc = "idle"
        BY <2>1, <3>2 DEF CompactNothing, ShortCircuit, Reply, Idle
      <3> QED BY <3>3
    <2> QED BY <2>4, <2>5
  <1> QED BY <1>1, InitGuarded, GuardedStep, TypeCorrect, PTL DEF Spec, OutageBackoff

-----------------------------------------------------------------------------
(* The cap of lcm_compact.                                                 *)

\* The attempts of one window are all in it, so that the attempt which opens the
\* next one is the only attempt of its window, whatever the clock shows.
Windowed ==
    /\ AttemptsBounded
    /\ counter.count = 0 => attempts = <<>>
    /\ counter.first <= now
    /\ \A i \in 1..Len(attempts) : attempts[i] <= counter.first + Window

LEMMA WindowedStep == TypeOK /\ Windowed /\ [Next]_vars => Windowed'
  <1> SUFFICES ASSUME TypeOK, Windowed, [Next]_vars PROVE Windowed'
    OBVIOUS
  <1>0. TypeOK'
    BY TypeStep
  <1>1. CASE UNCHANGED <<counter, attempts>>
    <2>1. now' >= now /\ now \in Nat /\ now' \in Nat
      <3>1. now' = now \/ now' = now + 1
        BY ModelKept DEF Next, Step, UpdateModel, LlmOutput, Tick, vars
      <3> QED BY <1>0, <3>1, CompactControlAssumption DEF TypeOK, CompactControlAssumption
    <2> QED
      BY <1>1, <2>1 DEF Windowed, AttemptsBounded, AttemptsSince, TypeOK
  <1>2. ASSUME NEW c \in Calls, CompactAttempt(c) PROVE Windowed'
    <2> DEFINE n == Len(attempts)
    <2>0. /\ now' = now /\ now \in Nat /\ n \in Nat
          /\ counter.count \in 0..Cap /\ counter.first \in Nat
          /\ Cap \in Nat \ {0} /\ Window \in Nat \ {0}
          /\ attempts \in Seq(0..MaxNow) /\ MaxNow \in Nat
      BY <1>2, ModelKept, LenProperties, CompactControlAssumption
      DEF Step, TypeOK, CompactControlAssumption
    <2>1. attempts' = Append(attempts, now)
      BY <1>2 DEF CompactAttempt
    <2>2. /\ Len(attempts') = n + 1
          /\ \A i \in 1..n : attempts'[i] = attempts[i]
          /\ attempts'[n + 1] = now
          /\ \A i \in 1..n : attempts[i] \in Nat
      BY <2>0, <2>1, AppendProperties
    <2>3. counter.count <= Cap /\ counter'.count <= Cap
      BY <2>0, <1>0, CompactControlAssumption DEF TypeOK, CompactControlAssumption
    <2>4. CASE WindowOver
      <3>1. counter' = [count |-> 1, first |-> now]
        BY <1>2, <2>4 DEF CompactAttempt
      <3>2. \A i \in 1..n : attempts[i] < now
        BY <2>0, <2>2, <2>4 DEF WindowOver, Windowed
      <3>3. AttemptsSince(counter.first)' = {n + 1}
        <4>1. counter'.first = now
          BY <3>1
        <4>2. AttemptsSince(counter.first)' = {i \in 1..n + 1 : attempts'[i] >= now}
          BY <2>2, <4>1 DEF AttemptsSince
        <4>3. \A i \in 1..n + 1 : attempts'[i] >= now <=> i = n + 1
          BY <2>0, <2>2, <3>2, SMTT(30)
        <4> QED BY <2>0, <4>2, <4>3
      <3>4. Cardinality(AttemptsSince(counter.first)') = 1
        BY <3>3, FS_Singleton
      <3>5. AttemptsBounded'
        BY <3>1, <3>4, <2>3 DEF AttemptsBounded
      <3>6. \A i \in 1..Len(attempts') : attempts'[i] <= now + Window
        BY <2>0, <2>2, <3>2, SMTT(30)
      <3> QED BY <2>0, <3>1, <3>5, <3>6 DEF Windowed
    <2>5. CASE ~WindowOver
      <3>1. /\ counter'.count = counter.count + 1
            /\ counter'.first = counter.first
        BY <1>2, <2>5 DEF CompactAttempt, TypeOK
      <3>2. now <= counter.first + Window /\ counter.first <= now /\ counter.count > 0
        BY <2>0, <2>5 DEF WindowOver, Windowed
      <3> DEFINE S == AttemptsSince(counter.first)
      <3>3. AttemptsSince(counter.first)' = S \cup {n + 1}
        BY <2>0, <2>2, <3>1, <3>2, SMTT(30) DEF AttemptsSince
      <3>4. IsFiniteSet(S) /\ n + 1 \notin S
        <4>1. IsFiniteSet(1..n) /\ n + 1 \notin 1..n
          BY <2>0, FS_Interval
        <4>2. S \in SUBSET (1..n)
          BY DEF AttemptsSince
        <4> HIDE DEF S, n
        <4> QED BY <4>1, <4>2, FS_Subset
      <3>5. Cardinality(S) = counter.count
        BY <3>2 DEF Windowed, AttemptsBounded
      <3>6. Cardinality(S \cup {n + 1}) = counter.count + 1
        <4> HIDE DEF S
        <4> QED BY <3>4, <3>5, FS_AddElement
      <3>7. AttemptsBounded'
        BY <3>1, <3>3, <3>6, <2>3 DEF AttemptsBounded
      <3>8. \A i \in 1..Len(attempts') : attempts'[i] <= counter'.first + Window
        BY <2>0, <2>2, <3>1, <3>2, SMTT(30) DEF Windowed
      <3> QED BY <2>0, <3>1, <3>2, <3>7, <3>8 DEF Windowed
    <2> QED BY <2>4, <2>5
  <1> QED
    BY <1>1, <1>2
    DEF Next, UpdateModel, LlmOutput, Tick, vars, GateRead, GateRefuse, GatePass, ToolResult,
        CompactCall, CompactRefuse, CompactCapped, CompactNothing, Admit, ShortCircuit,
        CoreAuthFailure, CoreSuccess, CoreRaise, NoteSuccessfulCompact

LEMMA InitWindowed == Init => Windowed
  BY CompactControlAssumption
  DEF Init, Windowed, AttemptsBounded, CompactControlAssumption

\* The counter of lcm_compact counts the attempts of its window, and concurrent
\* calls never get more than the cap through, for every cap and window.
THEOREM CapHolds == Spec => []AttemptsBounded
  <1>1. Windowed => AttemptsBounded
    BY DEF Windowed
  <1> QED BY <1>1, InitWindowed, WindowedStep, TypeCorrect, PTL DEF Spec

-----------------------------------------------------------------------------
(***************************************************************************)
(* The inductive invariant.                                                *)
(***************************************************************************)
\* Messages as lists, rows and snapshots hold them.
Msgs == [id : Nat, text : Texts \cup {"gist"},
         kind : {"plain", "big", "skip", "stub", "gist"}, file : Nat]

\* What the run spends its bounds on.
Mishaps == {"restarts", "failures", "deltas", "subs", "resets", "ends"}

\* The steps of a call of ingest.
Steps == {"idle", "read", "write", "check", "wait", "batch", "filed", "guarded"}

\* The types, the folded rows within the rows, and finitely many files.
IngestTypeOK ==
    /\ hist \in Seq(Msgs) /\ db \in Seq(Msgs) /\ pre \in Seq(Msgs)
    /\ made \in Nat
    /\ folded \in Nat /\ (folded = 0 \/ folded < Len(db))
    /\ large \subseteq blobs /\ \E n \in Nat : blobs \subseteq 1 .. n
    /\ cursor \in Nat \cup {Unset}
    /\ reconciled \in BOOLEAN /\ adrift \in BOOLEAN
    /\ lock \in Callers \cup {Free}
    /\ pc \in [Callers -> Steps]
    /\ snap \in [Callers -> Seq(Msgs)]
    /\ found \in [Callers -> Nat \cup {Unset}]
    /\ idx \in [Callers -> Nat]
    /\ file \in [Callers -> Nat]
    /\ got \in [Callers -> BOOLEAN]
    /\ spent \in [Mishaps -> Nat]

\* Where a caller is tells what it holds: a batch runs under the lock and only
\* once the session is reconciled.
Located ==
    \A c \in Callers :
        /\ pc[c] \in {"check", "wait", "batch", "filed", "guarded"} => reconciled
        /\ pc[c] \in {"batch", "filed", "guarded"} <=> lock = c
        /\ lock = c => idx[c] \in 1 .. Len(snap[c]) + 1
        /\ pc[c] \in {"filed", "guarded"} => idx[c] <= Len(snap[c])
        /\ got[c] => lock = c
        /\ pc[c] = "idle" => snap[c] = << >>
        /\ pc[c] = "write" => found[c] <= Len(snap[c])

\* Every message there is: in the rows, in the list, in what will replace it and
\* in the snapshots.
Everywhere ==
    Range(db) \cup Range(hist) \cup Range(pre) \cup UNION {Range(snap[c]) : c \in Callers}

\* A reference has its row wherever it is, two of one file are one message, and
\* the file a guard has in hand is nobody's yet.
Referred ==
    /\ \A e \in Everywhere :
          /\ e.file # NoFile => e.kind = "stub"
          /\ e.kind = "stub" => e.file \in large
    /\ \A e1, e2 \in Everywhere : e1.file = e2.file /\ e1.file # NoFile => e1.id = e2.id
    /\ \A c \in Callers : pc[c] = "filed" => file[c] \in blobs \ large
    /\ \A c \in Callers : file[c] # NoFile =>
          /\ pc[c] \in {"filed", "guarded"}
          /\ pc[c] = "guarded" => file[c] \in large
          /\ \A e \in Everywhere : e.file # file[c]

\* No message twice, and each newer than those before.
Rising(s) == \A i \in 1 .. Len(s) : \A j \in 1 .. i - 1 : s[j].id < s[i].id

\* Lists and rows are in the order in which the host produced the messages, and a
\* snapshot is a prefix of the list.
Ordered ==
    /\ Rising(hist) /\ Rising(db) /\ Rising(pre)
    /\ \A e \in Everywhere : e.id <= made
    /\ \A i \in 1 .. Len(db) : db[i].id > 0
    /\ \A i \in 1 .. Len(hist) : hist[i].id = 0 => db # << >>
    /\ \A i \in 1 .. Len(pre) : pre[i].id = 0 => db # << >>
    /\ \A c \in Callers : /\ Len(snap[c]) <= Len(hist)
                          /\ \A i \in 1 .. Len(snap[c]) : snap[c][i] = hist[i]
    /\ Cursor <= Len(hist)

\* What comes after position p of a history is newer than every row.
Newer(h, p, stored) ==
    \A j \in p + 1 .. Len(h) : Persistable(h[j]) =>
        /\ h[j].id > 0
        /\ \A i \in 1 .. Len(stored) : stored[i].id < h[j].id

\* Every message after position p is newer than every row.
Fresh(p) == Newer(hist, p, db)

\* Nothing was stored since the last batch ended.
Settled == lock = Free \/ ~got[lock]

\* Where the cursor counts, or will once the walk has run, only what is not yet
\* stored lies ahead.
Ahead ==
    /\ (reconciled \/ cursor # Unset) /\ Settled => Fresh(Cursor)
    /\ \A c \in Callers : lock = c => Fresh(idx[c] - 1)
    /\ cursor = Unset /\ Settled =>
          /\ \E p \in 0 .. Len(hist) : Replays(hist, p, db) /\ Fresh(p)
          /\ \A c \in Callers :
                /\ pc[c] \in {"read", "write"} => Fresh(Len(snap[c]))
                /\ pc[c] = "write" => found[c] = ReplayCursor(snap[c], db)

\* How often the list was begun anew or replaced.
Relistings == spent.resets + spent.deltas + spent.subs

\* Message i of a history has a row or, once the list was begun anew (n > 0), the row
\* in its place has its role and content.
Passed(h, i, stored, n) ==
    \/ \E k \in 1 .. Len(stored) : stored[k].id = h[i].id
    \/ /\ n > 0
       /\ Kept(h, i) <= Len(stored)
       /\ Identity(stored[Kept(h, i)]) = Identity(h[i])

\* What lies up to position p of a history is passed, if it ever gets a row.
Covered(h, p, stored, n) ==
    \A i \in 1 .. Len(h) :
        i <= p /\ Persistable(h[i]) /\ h[i] # Gist => Passed(h, i, stored, n)

\* What the cursor, the cursors about to be written and the positions of running
\* batches count is passed.
Honest(n) ==
    /\ Covered(hist, Cursor, db, n)
    /\ \A c \in Callers :
          /\ lock = c => Covered(hist, idx[c] - 1, db, n)
          /\ pc[c] = "write" => Covered(hist, found[c], db, n)
    /\ \A i \in 1 .. Len(pre) : pre[i] # Gist => Stored(pre[i])

\* In a list that was neither begun anew nor replaced every row is a message, and a
\* message as old as some row has a row of its own: what the walk matches by its
\* content is the message itself.
Genuine ==
    Relistings = 0 =>
        /\ pre = NoList
        /\ \A i \in 1 .. Len(hist) : hist[i].id > 0
        /\ \A k \in 1 .. Len(db) : \E i \in 1 .. Len(hist) :
              Persistable(hist[i]) /\ hist[i].id = db[k].id
        /\ \A i \in 1 .. Len(hist), k \in 1 .. Len(db) :
              Persistable(hist[i]) /\ hist[i].id <= db[k].id
                  => \E l \in 1 .. Len(db) : db[l].id = hist[i].id

\* The inductive invariant.
IngestInv ==
    /\ IngestTypeOK
    /\ Located
    /\ Referred
    /\ ~adrift => Ordered /\ Ahead
    /\ ~adrift /\ spent.failures = 0 => Honest(Relistings) /\ Genuine
-----------------------------------------------------------------------------
(***************************************************************************)
(* Greatest elements, and the walk over a history.                         *)
(***************************************************************************)

\* A non-empty set of naturals has a least element.
LEMMA LeastNat ==
    ASSUME NEW S, S \subseteq Nat, S # {}
    PROVE  \E x \in S : \A y \in S : x <= y
<1>1. PICK x \in S : \A y \in S : ~(<<y, x>> \in OpToRel(<, Nat))
    BY NatLessThanWellFounded, WFMin
<1>2. ASSUME NEW y \in S, y < x PROVE FALSE
    <2>1. <<y, x>> \in Nat \X Nat /\ <<y, x>>[1] < <<y, x>>[2]
        BY <1>2
    <2>2. <<y, x>> \in OpToRel(<, Nat)
        BY <2>1, Zenon DEF OpToRel
    <2> QED
        BY <1>1, <2>2
<1>3. ASSUME NEW y \in S PROVE x <= y
    BY <1>2
<1> QED
    BY <1>3

\* What Max returns on a bounded set of naturals.
LEMMA MaxBounded ==
    ASSUME NEW n \in Nat, NEW S, S \subseteq 0 .. n, S # {}
    PROVE  Max(S) \in S /\ \A y \in S : y <= Max(S)
<1> DEFINE T == {n - y : y \in S}
<1>1. T \subseteq Nat /\ T # {}
    OBVIOUS
<1>2. PICK x \in T : \A y \in T : x <= y
    BY <1>1, LeastNat
<1>3. PICK m \in S : x = n - m
    BY <1>2
<1>4. ASSUME NEW y \in S PROVE m >= y
    <2>1. n - y \in T
        OBVIOUS
    <2> QED
        BY <1>2, <1>3, <2>1
<1>5. \E z \in S : \A y \in S : z >= y
    BY <1>4
<1>6. Max(S) \in S /\ \A y \in S : Max(S) >= y
    BY <1>5 DEF Max
<1> QED
    BY <1>6

\* Kept counts, and what it counts is empty when it is 0.
LEMMA KeptNat ==
    ASSUME NEW h, NEW i \in Nat
    PROVE  /\ Kept(h, i) \in Nat
           /\ IsFiniteSet({j \in 1 .. i : Persistable(h[j])})
           /\ Kept(h, i) = 0 => \A j \in 1 .. i : ~Persistable(h[j])
<1> DEFINE S == {j \in 1 .. i : Persistable(h[j])}
<1>1. IsFiniteSet(1 .. i) /\ S \in SUBSET (1 .. i)
    BY FS_Interval
<1>2. IsFiniteSet(S)
    BY <1>1, FS_Subset
<1>3. Cardinality(S) \in Nat /\ (Cardinality(S) = 0 <=> S = {})
    BY <1>2, FS_CardinalityType, FS_EmptySet
<1> QED
    BY <1>2, <1>3 DEF Kept

\* A message that is stored counts for one.
LEMMA KeptStep ==
    ASSUME NEW h, NEW i \in Nat \ {0}, Persistable(h[i])
    PROVE  Kept(h, i) = Kept(h, i - 1) + 1
<1> DEFINE S == {j \in 1 .. i - 1 : Persistable(h[j])}
           T == {j \in 1 .. i : Persistable(h[j])}
<1>1. T = S \cup {i} /\ i \notin S
    OBVIOUS
<1>2. IsFiniteSet(S)
    <2>1. i - 1 \in Nat
        OBVIOUS
    <2> QED
        BY <2>1, KeptNat
<1>3. Cardinality(S \cup {i}) = Cardinality(S) + 1
    BY <1>1, <1>2, FS_AddElement
<1> QED
    BY <1>1, <1>3 DEF Kept

\* The count does not go down.
LEMMA KeptMono ==
    ASSUME NEW h, NEW i \in Nat, NEW j \in Nat, i <= j
    PROVE  Kept(h, i) <= Kept(h, j)
<1> DEFINE S == {k \in 1 .. i : Persistable(h[k])}
           T == {k \in 1 .. j : Persistable(h[k])}
<1>1. S \in SUBSET T
    OBVIOUS
<1>2. IsFiniteSet(T)
    BY KeptNat
<1>3. Cardinality(S) <= Cardinality(T)
    BY <1>1, <1>2, FS_Subset
<1> QED
    BY <1>3 DEF Kept

\* Two histories that agree on their first i messages have the same count there,
\* and replay the same rows.
LEMMA PrefixAgree ==
    ASSUME NEW g, NEW h, NEW i \in Nat, NEW s,
           \A j \in 1 .. i : g[j] = h[j]
    PROVE  /\ \A j \in 0 .. i : Kept(g, j) = Kept(h, j)
           /\ Replays(g, i, s) <=> Replays(h, i, s)
<1>1. ASSUME NEW j \in 0 .. i PROVE Kept(g, j) = Kept(h, j)
    <2>1. {k \in 1 .. j : Persistable(g[k])} = {k \in 1 .. j : Persistable(h[k])}
        OBVIOUS
    <2> QED
        BY <2>1 DEF Kept
<1>2. \A j \in 1 .. i : Kept(g, j) = Kept(h, j)
    BY <1>1
<1> QED
    BY <1>1, <1>2 DEF Replays

\* The last message that counts.
LEMMA KeptLast ==
    ASSUME NEW h, NEW i \in Nat, Kept(h, i) # 0
    PROVE  \E j \in 1 .. i : /\ Persistable(h[j])
                             /\ Kept(h, j) = Kept(h, i)
<1> DEFINE S == {j \in 1 .. i : Persistable(h[j])}
<1>1. S # {}
    BY FS_EmptySet DEF Kept
<1>2. S \subseteq 0 .. i
    OBVIOUS
<1>3. Max(S) \in S /\ \A y \in S : y <= Max(S)
    BY <1>1, <1>2, MaxBounded
<1>4. {j \in 1 .. Max(S) : Persistable(h[j])} = S
    BY <1>3
<1>5. Kept(h, Max(S)) = Kept(h, i)
    BY <1>4 DEF Kept
<1> QED
    BY <1>3, <1>5

\* The walk ends at a position that it has matched.
LEMMA WalkFacts ==
    ASSUME NEW h \in Seq(Msgs), NEW s \in Seq(Msgs)
    PROVE  \/ ReplayCursor(h, s) = Unset
           \/ /\ ReplayCursor(h, s) \in 1 .. Len(h)
              /\ Replays(h, ReplayCursor(h, s), s)
<1> DEFINE W == Walked(h, s)
<1>1. W \subseteq 0 .. Len(h) /\ Len(h) \in Nat
    BY DEF Walked
<1>2. CASE W = {}
    BY <1>2 DEF ReplayCursor
<1>3. CASE W # {}
    <2>1. Max(W) \in W
        BY <1>1, <1>3, MaxBounded
    <2>2. Max(W) \in 1 .. Len(h) /\ Replays(h, Max(W), s)
        BY <2>1 DEF Walked
    <2> QED
        BY <2>2 DEF ReplayCursor
<1> QED
    BY <1>2, <1>3

\* The walk passes every message that the rows replay.
LEMMA WalkCatchesUp ==
    ASSUME NEW h \in Seq(Msgs), NEW s \in Seq(Msgs), NEW q \in 0 .. Len(h),
           Replays(h, q, s), NEW j \in 1 .. q, Persistable(h[j])
    PROVE  ReplayCursor(h, s) # Unset /\ j <= ReplayCursor(h, s)
<1> DEFINE W == Walked(h, s)
<1>1. W \subseteq 0 .. Len(h) /\ Len(h) \in Nat /\ j \in 1 .. Len(h) /\ j \in Nat \ {0}
    BY DEF Walked
<1>2. Replays(h, j, s) /\ Kept(h, j) <= Len(s)
    BY DEF Replays
<1>3. Kept(h, j) = Kept(h, j - 1) + 1
    BY <1>1, KeptStep
<1>9. j - 1 \in Nat
    BY <1>1
<1>10. Kept(h, j - 1) \in Nat
    BY <1>9, KeptNat
<1>4. Kept(h, j - 1) < Len(s)
    BY <1>2, <1>3, <1>10
<1>5. j \in W
    BY <1>1, <1>2, <1>4 DEF Walked
<1>6. Max(W) \in W /\ j <= Max(W)
    BY <1>1, <1>5, MaxBounded
<1>11. Max(W) \in Nat /\ j \in Nat
    BY <1>1, <1>6
<1> HIDE DEF W
<1>7. Kept(h, j) <= Kept(h, Max(W)) /\ Kept(h, Max(W)) \in Nat
    BY <1>6, <1>11, KeptMono, KeptNat
<1> USE DEF W
<1>8. ReplayCursor(h, s) = Max(W)
    BY <1>3, <1>5, <1>7, <1>10 DEF ReplayCursor
<1> QED
    BY <1>1, <1>6, <1>8 DEF Unset
-----------------------------------------------------------------------------
(***************************************************************************)
(* Types and places.                                                       *)
(***************************************************************************)

\* The messages that are about are records of an identity, a kind and a file.
LEMMA EverywhereMsgs ==
    ASSUME IngestTypeOK
    PROVE  /\ Everywhere \subseteq Msgs
           /\ \A i \in 1 .. Len(db) : db[i] \in Everywhere
           /\ \A i \in 1 .. Len(hist) : hist[i] \in Everywhere
           /\ \A i \in 1 .. Len(pre) : pre[i] \in Everywhere
           /\ \A c \in Callers : \A i \in 1 .. Len(snap[c]) : snap[c][i] \in Everywhere
<1>1. ASSUME NEW s \in Seq(Msgs)
      PROVE  Range(s) \subseteq Msgs /\ \A i \in 1 .. Len(s) : s[i] \in Range(s)
    BY DEF Range
<1>2. \A c \in Callers : snap[c] \in Seq(Msgs)
    BY DEF IngestTypeOK
<1>3. hist \in Seq(Msgs) /\ db \in Seq(Msgs) /\ pre \in Seq(Msgs)
    BY DEF IngestTypeOK
<1>4. \A c \in Callers : Range(snap[c]) \subseteq Everywhere
    BY DEF Everywhere
<1>5. \A c \in Callers : Range(snap[c]) \subseteq Msgs
    BY <1>1, <1>2
<1> QED
    BY <1>1, <1>2, <1>3, <1>4, <1>5 DEF Everywhere

\* A new file is one that no directory entry and no row has.
LEMMA NewFileFacts ==
    ASSUME IngestTypeOK
    PROVE  /\ NewFile \in Nat \ {0}
           /\ NewFile \notin blobs
           /\ NewFile \notin large
           /\ \E n \in Nat : blobs \cup {NewFile} \subseteq 1 .. n
<1>1. PICK n \in Nat : blobs \subseteq 1 .. n
    BY DEF IngestTypeOK
<1> DEFINE S == {0} \cup blobs \cup large
<1>2. S \subseteq 0 .. n /\ S # {} /\ large \subseteq blobs
    BY <1>1 DEF IngestTypeOK
<1>3. Max(S) \in S /\ \A y \in S : y <= Max(S)
    BY <1>2, MaxBounded
<1>4. NewFile = 1 + Max(S) /\ Max(S) \in 0 .. n
    BY <1>2, <1>3 DEF NewFile
<1> HIDE DEF S
<1>5. blobs \subseteq S /\ S \subseteq 0 .. n
    BY <1>2 DEF S
<1>6. NewFile \in 1 .. n + 1 /\ NewFile \notin S
    BY <1>3, <1>4, <1>5
<1>7. blobs \cup {NewFile} \subseteq 1 .. n + 1 /\ n + 1 \in Nat
    BY <1>1, <1>6
<1> QED
    BY <1>2, <1>5, <1>6, <1>7

\* A caller in its batch has come to a message.
LEMMA CurrentFacts ==
    ASSUME IngestTypeOK, Located, NEW c \in Callers, InBatch(c)
    PROVE  /\ lock = c
           /\ idx[c] \in 1 .. Len(snap[c])
           /\ Current(c) = snap[c][idx[c]]
           /\ Current(c) \in Msgs
           /\ Current(c) \in Everywhere
           /\ AfterGuard(c) \in Msgs
           /\ AfterGuard(c).id = Current(c).id
<1>1. lock = c /\ idx[c] \in 1 .. Len(snap[c]) + 1 /\ idx[c] <= Len(snap[c])
    BY DEF Located, InBatch
<1>2. snap[c] \in Seq(Msgs) /\ file[c] \in Nat
    BY DEF IngestTypeOK
<1>3. idx[c] \in 1 .. Len(snap[c])
    BY <1>1, <1>2
<1>4. Current(c) = snap[c][idx[c]]
    BY DEF Current
<1>5. Current(c) \in Msgs /\ Current(c) \in Everywhere
    BY <1>3, <1>4, EverywhereMsgs
<1>6. AfterGuard(c) \in Msgs /\ AfterGuard(c).id = Current(c).id
    BY <1>2, <1>5 DEF AfterGuard, Msgs
<1> QED
    BY <1>1, <1>3, <1>4, <1>5, <1>6

\* What the assembler returns is a list of messages, of which each is a row or
\* the summary.
LEMMA AssembledFacts ==
    ASSUME IngestTypeOK
    PROVE  /\ Assembled \in Seq(Msgs)
           /\ folded = 0 => Assembled = db
           /\ folded > 0 => /\ Len(Assembled) = Len(db) - folded + 1
                            /\ Assembled[1] = Gist
                            /\ \A i \in 2 .. Len(Assembled) :
                                  Assembled[i] = db[folded + i - 1]
<1>1. db \in Seq(Msgs) /\ folded \in Nat /\ (folded = 0 \/ folded < Len(db))
    BY DEF IngestTypeOK
<1>2. Gist \in Msgs
    BY DEF Gist, Msgs, NoFile
<1>3. CASE folded = 0
    BY <1>1, <1>3 DEF Assembled
<1>4. CASE folded > 0
    <2> DEFINE s == SubSeq(db, folded + 1, Len(db))
    <2>1. s \in Seq(Msgs) /\ Len(s) = Len(db) - folded
        BY <1>1, <1>4
    <2>2. \A i \in 1 .. Len(s) : s[i] = db[folded + i]
        BY <1>1, <1>4
    <2>3. Assembled = <<Gist>> \o s
        BY <1>4 DEF Assembled
    <2>4. <<Gist>> \in Seq(Msgs) /\ Len(<<Gist>>) = 1 /\ <<Gist>>[1] = Gist
        BY <1>2
    <2> HIDE DEF s
    <2>5. Assembled \in Seq(Msgs) /\ Len(Assembled) = Len(s) + 1
        BY <2>1, <2>3, <2>4
    <2>6. Assembled[1] = Gist
        BY <2>1, <2>3, <2>4
    <2>7. ASSUME NEW i \in 2 .. Len(Assembled) PROVE Assembled[i] = db[folded + i - 1]
        <3>1. i - 1 \in 1 .. Len(s)
            BY <2>1, <2>5
        <3>2. Assembled[i] = s[i - 1]
            BY <2>1, <2>3, <2>4, <2>5, <3>1
        <3>3. s[i - 1] = db[folded + (i - 1)]
            BY <2>2, <3>1
        <3>4. folded + (i - 1) = folded + i - 1
            BY <1>1
        <3> QED
            BY <3>2, <3>3, <3>4
    <2> QED
        BY <1>4, <2>1, <2>5, <2>6, <2>7
<1> QED
    BY <1>1, <1>3, <1>4
-----------------------------------------------------------------------------
\* Every step keeps the types.
LEMMA IngestTypeStep ==
    ASSUME IngestTypeOK, Located, Referred, [IngestNext]_ingestVars
    PROVE  IngestTypeOK'
<1>1. ASSUME NEW k \in UNION Range(Turns), NewMessage(k) PROVE IngestTypeOK'
    <2>1. k.text \in Texts /\ k.kind \in {"plain", "big", "skip"}
        BY IngestAssumption DEF Range
    <2>2. [id |-> made + 1, text |-> k.text, kind |-> k.kind, file |-> NoFile] \in Msgs /\ made + 1 \in Nat
        BY <2>1 DEF Msgs, NoFile, IngestTypeOK
    <2>3. hist' \in Seq(Msgs) /\ made' \in Nat
        BY <1>1, <2>2 DEF NewMessage, IngestTypeOK
    <2> QED
        BY <1>1, <2>3 DEF NewMessage, IngestTypeOK, store, caller, Unset, Steps
<1>2. CASE Restart
    <2>1. spent' \in [Mishaps -> Nat]
        BY <1>2 DEF Restart, Mishap, IngestTypeOK, Mishaps
    <2>2. /\ pc' \in [Callers -> Steps]
          /\ snap' \in [Callers -> Seq(Msgs)]
          /\ found' \in [Callers -> Nat \cup {Unset}]
          /\ idx' \in [Callers -> Nat]
          /\ file' \in [Callers -> Nat]
          /\ got' \in [Callers -> BOOLEAN]
        BY <1>2 DEF Restart, Steps, NoFile
    <2>3. cursor' \in Nat \cup {Unset} /\ lock' \in Callers \cup {Free} /\ pre' \in Seq(Msgs)
        BY <1>2 DEF Restart, NoList
    <2>4. adrift' \in BOOLEAN /\ reconciled' \in BOOLEAN
        BY <1>2 DEF Restart, IngestTypeOK
    <2>5. hist' \in Seq(Msgs)
        <3>1. hist' = hist \/ hist' = << >>
            BY <1>2 DEF Restart
        <3>2. hist \in Seq(Msgs)
            BY DEF IngestTypeOK
        <3>3. << >> \in Seq(Msgs)
            OBVIOUS
        <3> QED
            BY <3>1, <3>2, <3>3, Zenon
    <2> QED
        BY <1>2, <2>1, <2>2, <2>3, <2>4, <2>5 DEF Restart, IngestTypeOK, store
<1>3. CASE SessionReset
    <2>1. spent' \in [Mishaps -> Nat]
        BY <1>3 DEF SessionReset, Mishap, IngestTypeOK, Mishaps
    <2>2. hist' \in Seq(Msgs) /\ cursor' \in Nat \cup {Unset}
        BY <1>3 DEF SessionReset
    <2>3. reconciled' \in BOOLEAN
        BY <1>3 DEF SessionReset
    <2> QED
        BY <1>3, <2>1, <2>2, <2>3 DEF SessionReset, IngestTypeOK, store, caller
<1>4. CASE SessionEnd
    <2>1. spent' \in [Mishaps -> Nat]
        BY <1>4 DEF SessionEnd, Mishap, IngestTypeOK, Mishaps
    <2> QED
        BY <1>4, <2>1 DEF SessionEnd, IngestTypeOK, store, caller, Unset, Steps
<1>5. CASE SessionStart
    BY <1>5 DEF SessionStart, IngestTypeOK, store, caller, Unset, Steps
<1>6. CASE Fold
    <2>1. PICK n \in folded + 1 .. Len(db) - 1 : folded' = n
        BY <1>6 DEF Fold
    <2>2. db \in Seq(Msgs) /\ folded \in Nat
        BY DEF IngestTypeOK
    <2>3. folded' \in Nat /\ folded' < Len(db)
        BY <2>1, <2>2
    <2> QED
        BY <1>6, <2>3 DEF Fold, IngestTypeOK, caller
<1>7. CASE Assemble
    <2>1. spent' \in [Mishaps -> Nat]
        BY <1>7 DEF Assemble, Mishap, IngestTypeOK, Mishaps
    <2>2. pre' \in Seq(Msgs)
        BY <1>7, AssembledFacts DEF Assemble, AssembleWithSignal
    <2> QED
        BY <1>7, <2>1, <2>2 DEF Assemble, IngestTypeOK, store, caller, Unset, Steps
<1>8. CASE Substitute
    <2>1. cursor' \in Nat /\ hist' \in Seq(Msgs) /\ pre' \in Seq(Msgs)
        BY <1>8 DEF Substitute, IngestTypeOK, NoList
    <2>2. adrift' \in BOOLEAN
        BY <1>8 DEF Substitute
    <2> QED
        BY <1>8, <2>1, <2>2 DEF Substitute, IngestTypeOK, store, caller, Unset, Steps
<1>9. ASSUME NEW c \in Callers, Call(c) PROVE IngestTypeOK'
    BY <1>9 DEF Call, IngestTypeOK, store, caller, Unset, Steps
<1>10. ASSUME NEW c \in Callers, ReconcileRead(c) PROVE IngestTypeOK'
    <2>1. snap[c] \in Seq(Msgs) /\ db \in Seq(Msgs)
        BY DEF IngestTypeOK
    <2>2. ReplayCursor(snap[c], db) \in Nat \cup {Unset}
        BY <2>1, WalkFacts
    <2>3. found' \in [Callers -> Nat \cup {Unset}]
        BY <1>10, <2>2 DEF ReconcileRead, IngestTypeOK
    <2>4. pc' \in [Callers -> Steps]
        BY <1>10 DEF ReconcileRead, IngestTypeOK, Steps
    <2> QED
        BY <1>10, <2>3, <2>4 DEF ReconcileRead, IngestTypeOK, store
<1>11. ASSUME NEW c \in Callers, ReconcileWrite(c) PROVE IngestTypeOK'
    BY <1>11 DEF ReconcileWrite, IngestTypeOK, store, caller, Unset, Steps
<1>12. ASSUME NEW c \in Callers, NothingNew(c) PROVE IngestTypeOK'
    <2>1. /\ pc' \in [Callers -> Steps]
          /\ snap' \in [Callers -> Seq(Msgs)]
          /\ found' \in [Callers -> Nat \cup {Unset}]
          /\ idx' \in [Callers -> Nat]
          /\ file' \in [Callers -> Nat]
          /\ got' \in [Callers -> BOOLEAN]
        BY <1>12 DEF NothingNew, Return, IngestTypeOK, Steps, NoFile
    <2>2. cursor' \in Nat \cup {Unset} /\ lock' \in Callers \cup {Free}
        BY <1>12 DEF NothingNew, IngestTypeOK
    <2> QED
        BY <1>12, <2>1, <2>2 DEF NothingNew, IngestTypeOK, store
<1>13. ASSUME NEW c \in Callers, SomethingNew(c) PROVE IngestTypeOK'
    BY <1>13 DEF SomethingNew, IngestTypeOK, store, caller, Unset, Steps
<1>14. ASSUME NEW c \in Callers, StartBatch(c) PROVE IngestTypeOK'
    <2>1. Cursor + 1 \in Nat
        BY DEF Cursor, IngestTypeOK, Unset
    <2>2. pc' \in [Callers -> Steps] /\ idx' \in [Callers -> Nat]
        BY <1>14, <2>1 DEF StartBatch, IngestTypeOK, Steps
    <2> QED
        BY <1>14, <2>2 DEF StartBatch, IngestTypeOK, store
<1>15. ASSUME NEW c \in Callers, AlreadyDone(c) PROVE IngestTypeOK'
    <2>1. /\ pc' \in [Callers -> Steps]
          /\ snap' \in [Callers -> Seq(Msgs)]
          /\ found' \in [Callers -> Nat \cup {Unset}]
          /\ idx' \in [Callers -> Nat]
          /\ file' \in [Callers -> Nat]
          /\ got' \in [Callers -> BOOLEAN]
        BY <1>15 DEF AlreadyDone, Return, IngestTypeOK, Steps, NoFile
    <2>2. cursor' \in Nat \cup {Unset} /\ lock' \in Callers \cup {Free}
        BY <1>15 DEF AlreadyDone, IngestTypeOK
    <2> QED
        BY <1>15, <2>1, <2>2 DEF AlreadyDone, IngestTypeOK, store
<1>16. ASSUME NEW c \in Callers, WriteFile(c) PROVE IngestTypeOK'
    <2>1. NewFile \in Nat /\ \E n \in Nat : blobs \cup {NewFile} \subseteq 1 .. n
        BY NewFileFacts
    <2>2. pc' \in [Callers -> Steps] /\ file' \in [Callers -> Nat]
        BY <1>16, <2>1 DEF WriteFile, IngestTypeOK, Steps
    <2>3. large' \subseteq blobs' /\ \E n \in Nat : blobs' \subseteq 1 .. n
        BY <1>16, <2>1 DEF WriteFile, IngestTypeOK
    <2> QED
        BY <1>16, <2>2, <2>3 DEF WriteFile, IngestTypeOK
<1>17. ASSUME NEW c \in Callers, RecordFile(c) PROVE IngestTypeOK'
    <2>1. file[c] \in blobs
        BY <1>17 DEF RecordFile, Referred
    <2>2. pc' \in [Callers -> Steps]
        BY <1>17 DEF RecordFile, IngestTypeOK, Steps
    <2> QED
        BY <1>17, <2>1, <2>2 DEF RecordFile, IngestTypeOK
<1>18. ASSUME NEW c \in Callers, RecordFails(c) PROVE IngestTypeOK'
    <2>1. file[c] \notin large
        BY <1>18 DEF RecordFails, Referred
    <2>2. pc' \in [Callers -> Steps] /\ file' \in [Callers -> Nat]
        BY <1>18 DEF RecordFails, IngestTypeOK, Steps, NoFile
    <2>3. large' \subseteq blobs' /\ \E n \in Nat : blobs' \subseteq 1 .. n
        BY <1>18, <2>1 DEF RecordFails, IngestTypeOK
    <2> QED
        BY <1>18, <2>2, <2>3 DEF RecordFails, IngestTypeOK
<1>19. ASSUME NEW c \in Callers, IngestOne(c) PROVE IngestTypeOK'
    <2>1. AfterGuard(c) \in Msgs
        BY <1>19, CurrentFacts DEF IngestOne
    <2>5. db \in Seq(Msgs) /\ got \in [Callers -> BOOLEAN]
        BY DEF IngestTypeOK
    <2>6. \/ db' = Append(db, AfterGuard(c)) /\ got' = [got EXCEPT ![c] = TRUE]
          \/ db' = db /\ got' = got
        BY <1>19 DEF IngestOne
    <2>7. got' \in [Callers -> BOOLEAN]
        BY <2>5, <2>6
    <2>8. Append(db, AfterGuard(c)) \in Seq(Msgs) /\ Len(Append(db, AfterGuard(c))) = Len(db) + 1
        BY <2>1, <2>5
    <2>2. db' \in Seq(Msgs) /\ Len(db') >= Len(db) /\ got' \in [Callers -> BOOLEAN]
        BY <2>5, <2>6, <2>7, <2>8
    <2>3. folded' \in Nat /\ (folded' = 0 \/ folded' < Len(db'))
        BY <1>19, <2>2 DEF IngestOne, IngestTypeOK
    <2>4. /\ pc' \in [Callers -> Steps]
          /\ file' \in [Callers -> Nat]
          /\ idx' \in [Callers -> Nat]
        BY <1>19 DEF IngestOne, NextMessage, IngestTypeOK, Steps, NoFile
    <2> QED
        BY <1>19, <2>2, <2>3, <2>4 DEF IngestOne, IngestTypeOK
<1>20. ASSUME NEW c \in Callers, IngestFails(c) PROVE IngestTypeOK'
    <2>1. spent' \in [Mishaps -> Nat]
        BY <1>20, SMTT(30) DEF IngestFails, Mishap, IngestTypeOK, Mishaps
    <2>2. /\ pc' \in [Callers -> Steps]
          /\ file' \in [Callers -> Nat]
          /\ idx' \in [Callers -> Nat]
        BY <1>20 DEF IngestFails, NextMessage, IngestTypeOK, Steps, NoFile
    <2> QED
        BY <1>20, <2>1, <2>2 DEF IngestFails, IngestTypeOK, store
<1>21. ASSUME NEW c \in Callers, FinishBatch(c) PROVE IngestTypeOK'
    <2>1. /\ pc' \in [Callers -> Steps]
          /\ snap' \in [Callers -> Seq(Msgs)]
          /\ found' \in [Callers -> Nat \cup {Unset}]
          /\ idx' \in [Callers -> Nat]
          /\ file' \in [Callers -> Nat]
          /\ got' \in [Callers -> BOOLEAN]
        BY <1>21 DEF FinishBatch, Return, IngestTypeOK, Steps, NoFile
    <2>2. cursor' \in Nat \cup {Unset} /\ lock' \in Callers \cup {Free}
        BY <1>21 DEF FinishBatch, IngestTypeOK
    <2> QED
        BY <1>21, <2>1, <2>2 DEF FinishBatch, IngestTypeOK, store
<1>22. CASE UNCHANGED ingestVars
    BY <1>22 DEF ingestVars, IngestTypeOK, store, caller, Unset, Steps
<1> QED
    BY <1>1, <1>2, <1>3, <1>4, <1>5, <1>6, <1>7, <1>8, <1>9, <1>10, <1>11, <1>12, <1>13, <1>14, <1>15, <1>16, <1>17, <1>18, <1>19, <1>20, <1>21, <1>22 DEF IngestNext, CallerStep
-----------------------------------------------------------------------------
\* Every step keeps each caller where its place says it is.
LEMMA LocatedStep ==
    ASSUME IngestTypeOK, Located, [IngestNext]_ingestVars
    PROVE  Located'
<1> USE FreeAssumption
<1>1. ASSUME NEW k \in UNION Range(Turns), NewMessage(k) PROVE Located'
    BY <1>1 DEF NewMessage, caller, Located
<1>2. CASE Restart
    BY <1>2 DEF Restart, Located
<1>3. CASE SessionReset
    <2>1. \A c \in Callers : pc[c] = "idle"
        BY <1>3 DEF SessionReset, BetweenTurns
    <2> QED
        BY <1>3, <2>1 DEF SessionReset, caller, Located
<1>4. CASE SessionEnd
    BY <1>4 DEF SessionEnd, caller, Located
<1>5. CASE SessionStart
    BY <1>5 DEF SessionStart, caller, Located
<1>6. CASE Fold
    BY <1>6 DEF Fold, caller, Located
<1>7. CASE Assemble
    BY <1>7 DEF Assemble, caller, Located
<1>8. CASE Substitute
    BY <1>8 DEF Substitute, caller, Located
<1>9. ASSUME NEW c \in Callers, Call(c) PROVE Located'
    BY <1>9 DEF Call, IngestTypeOK, Steps, Located
<1>10. ASSUME NEW c \in Callers, ReconcileRead(c) PROVE Located'
    <2>1. snap[c] \in Seq(Msgs) /\ db \in Seq(Msgs)
        BY DEF IngestTypeOK
    <2>2. ReplayCursor(snap[c], db) <= Len(snap[c]) /\ Unset <= Len(snap[c])
        BY <2>1, WalkFacts DEF Unset
    <2> QED
        BY <1>10, <2>2 DEF ReconcileRead, IngestTypeOK, Steps, Located
<1>11. ASSUME NEW c \in Callers, ReconcileWrite(c) PROVE Located'
    BY <1>11 DEF ReconcileWrite, IngestTypeOK, Steps, Located
<1>12. ASSUME NEW c \in Callers, NothingNew(c) PROVE Located'
    BY <1>12 DEF NothingNew, Return, IngestTypeOK, Steps, Located
<1>13. ASSUME NEW c \in Callers, SomethingNew(c) PROVE Located'
    BY <1>13 DEF SomethingNew, IngestTypeOK, Steps, Located
<1>14. ASSUME NEW c \in Callers, StartBatch(c) PROVE Located'
    BY <1>14 DEF StartBatch, Cursor, Unset, IngestTypeOK, Steps, Located
<1>15. ASSUME NEW c \in Callers, AlreadyDone(c) PROVE Located'
    BY <1>15 DEF AlreadyDone, Return, IngestTypeOK, Steps, Located
<1>16. ASSUME NEW c \in Callers, WriteFile(c) PROVE Located'
    BY <1>16 DEF WriteFile, InBatch, IngestTypeOK, Steps, Located
<1>17. ASSUME NEW c \in Callers, RecordFile(c) PROVE Located'
    BY <1>17 DEF RecordFile, IngestTypeOK, Steps, Located
<1>18. ASSUME NEW c \in Callers, RecordFails(c) PROVE Located'
    BY <1>18 DEF RecordFails, IngestTypeOK, Steps, Located
<1>19. ASSUME NEW c \in Callers, IngestOne(c) PROVE Located'
    BY <1>19, SMTT(30) DEF IngestOne, NextMessage, InBatch, IngestTypeOK, Steps, Located
<1>20. ASSUME NEW c \in Callers, IngestFails(c) PROVE Located'
    BY <1>20, SMTT(30) DEF IngestFails, NextMessage, InBatch, IngestTypeOK, Steps, Located
<1>21. ASSUME NEW c \in Callers, FinishBatch(c) PROVE Located'
    BY <1>21 DEF FinishBatch, Return, IngestTypeOK, Steps, Located
<1>22. CASE UNCHANGED ingestVars
    BY <1>22 DEF ingestVars, caller, Located
<1> QED
    BY <1>1, <1>2, <1>3, <1>4, <1>5, <1>6, <1>7, <1>8, <1>9, <1>10, <1>11, <1>12, <1>13, <1>14, <1>15, <1>16, <1>17, <1>18, <1>19, <1>20, <1>21, <1>22 DEF IngestNext, CallerStep
-----------------------------------------------------------------------------
(***************************************************************************)
(* References.                                                             *)
(***************************************************************************)

\* The range of a list that grows by one, and of the empty list.
LEMMA RangeFacts ==
    /\ \A s \in Seq(Msgs), x \in Msgs : Range(Append(s, x)) = Range(s) \cup {x}
    /\ Range(<< >>) = {}
<1>1. ASSUME NEW s \in Seq(Msgs), NEW x \in Msgs
      PROVE  Range(Append(s, x)) = Range(s) \cup {x}
    <2> DEFINE t == Append(s, x)
    <2>1. t \in Seq(Msgs) /\ Len(t) = Len(s) + 1 /\ t[Len(s) + 1] = x /\ Len(s) \in Nat
        OBVIOUS
    <2>2. \A i \in 1 .. Len(s) : t[i] = s[i]
        OBVIOUS
    <2>3. DOMAIN t = 1 .. Len(s) + 1 /\ DOMAIN s = 1 .. Len(s)
        BY <2>1
    <2> HIDE DEF t
    <2>4. Range(t) \subseteq Range(s) \cup {x}
        <3>1. SUFFICES ASSUME NEW i \in 1 .. Len(s) + 1 PROVE t[i] \in Range(s) \cup {x}
            BY <2>3 DEF Range
        <3>2. i \in 1 .. Len(s) \/ i = Len(s) + 1
            BY <2>1
        <3> QED
            BY <2>1, <2>2, <2>3, <3>2 DEF Range
    <2>5. Range(s) \cup {x} \subseteq Range(t)
        <3>1. \A i \in 1 .. Len(s) : i \in DOMAIN t /\ s[i] = t[i]
            BY <2>1, <2>2, <2>3
        <3>2. Len(s) + 1 \in DOMAIN t
            BY <2>1, <2>3
        <3> QED
            BY <2>1, <2>3, <3>1, <3>2 DEF Range
    <2> QED
        BY <2>4, <2>5 DEF t
<1>2. Range(<< >>) = {}
    BY DEF Range
<1> QED
    BY <1>1, <1>2

\* What bounds the messages of each place bounds them all.
LEMMA EverywhereWithin ==
    ASSUME NEW S, Range(db') \subseteq S, Range(hist') \subseteq S, Range(pre') \subseteq S,
           \A c \in Callers : Range(snap'[c]) \subseteq S
    PROVE  Everywhere' \subseteq S
  BY DEF Everywhere

\* The parts of Everywhere.
LEMMA EverywhereParts ==
    /\ Range(db) \subseteq Everywhere
    /\ Range(hist) \subseteq Everywhere
    /\ Range(pre) \subseteq Everywhere
    /\ \A c \in Callers : Range(snap[c]) \subseteq Everywhere
  BY DEF Everywhere

\* A message that a step brings about is one that the host produces, the rendered
\* summary, or what the guard made of the message that is being stored.
Made(e) == e.file = NoFile /\ e.kind # "stub" /\ e.id = made + 1 /\ made' = made + 1
\* A step brings about no other message.
LEMMA EverywhereStep ==
    ASSUME IngestTypeOK, Located, [IngestNext]_ingestVars
    PROVE  \A e \in Everywhere' :
              \/ e \in Everywhere
              \/ e = Gist
              \/ Made(e)
              \/ \E c \in Callers : IngestOne(c) /\ e = AfterGuard(c)
<1> DEFINE Goal(e) ==
              \/ e \in Everywhere
              \/ e = Gist
              \/ Made(e)
              \/ \E c \in Callers : IngestOne(c) /\ e = AfterGuard(c)
<1> USE EverywhereParts
<1>1. ASSUME NEW k \in UNION Range(Turns), NewMessage(k) PROVE \A e \in Everywhere' : Goal(e)
    <2> DEFINE m == [id |-> made + 1, text |-> k.text, kind |-> k.kind, file |-> NoFile]
    <2>1. k.text \in Texts /\ k.kind \in {"plain", "big", "skip"}
        BY IngestAssumption DEF Range
    <2>2. m \in Msgs
        BY <2>1 DEF Msgs, NoFile, IngestTypeOK
    <2>3. hist' = Append(hist, m) /\ hist \in Seq(Msgs)
        BY <1>1 DEF NewMessage, IngestTypeOK
    <2>4. Range(hist') \subseteq Everywhere \cup {m}
        BY <2>2, <2>3, RangeFacts
    <2>5. db' = db /\ pre' = pre /\ snap' = snap
        BY <1>1 DEF NewMessage, store, caller
    <2>6. Everywhere' \subseteq Everywhere \cup {m}
        BY <2>4, <2>5, EverywhereWithin
    <2>7. Made(m)
        BY <1>1, <2>1 DEF Made, NewMessage
    <2> QED
        BY <2>6, <2>7
<1>2. CASE Restart
    <2>1. Everywhere' \subseteq Everywhere
        <3>1. \A c \in Callers : snap'[c] = << >>
            BY <1>2 DEF Restart
        <3>2. db' = db /\ pre' = << >> /\ (hist' = hist \/ hist' = << >>)
            BY <1>2 DEF Restart, NoList, store
        <3> QED
            BY <3>1, <3>2, RangeFacts, EverywhereWithin
    <2> QED
        BY <2>1
<1>3. CASE SessionReset
    <2>1. hist' = << >> /\ db' = db /\ pre' = pre /\ snap' = snap
        BY <1>3 DEF SessionReset, store, caller
    <2>2. Everywhere' \subseteq Everywhere
        BY <2>1, RangeFacts, EverywhereWithin
    <2> QED
        BY <2>2
<1>4. CASE SessionEnd
    BY <1>4 DEF SessionEnd, store, caller, Everywhere
<1>5. CASE SessionStart
    BY <1>5 DEF SessionStart, store, caller, Everywhere
<1>6. CASE Fold
    BY <1>6 DEF Fold, store, caller, Everywhere
<1>7. CASE Assemble
    <2>1. db' = db /\ hist' = hist /\ snap' = snap /\ pre' = Assembled
        BY <1>7 DEF Assemble, AssembleWithSignal, store, caller
    <2>2. Range(pre') \subseteq Everywhere \cup {Gist}
        <3>1. Assembled \in Seq(Msgs) /\ db \in Seq(Msgs) /\ folded \in Nat
            BY AssembledFacts DEF IngestTypeOK
        <3>2. CASE folded = 0
            BY <2>1, <3>2, AssembledFacts
        <3>3. CASE folded > 0
            <4>1. ASSUME NEW i \in 1 .. Len(Assembled) PROVE Assembled[i] \in Everywhere \cup {Gist}
                <5>1. CASE i = 1
                    BY <3>3, <5>1, AssembledFacts
                <5>2. CASE i # 1
                    <6>1. i \in 2 .. Len(Assembled) /\ folded + i - 1 \in 1 .. Len(db)
                        BY <3>1, <3>3, <5>2, AssembledFacts
                    <6>2. Assembled[i] = db[folded + i - 1]
                        BY <3>3, <6>1, AssembledFacts
                    <6> QED
                        BY <6>1, <6>2, EverywhereMsgs
                <5> QED
                    BY <5>1, <5>2
            <4> QED
                BY <2>1, <3>1, <4>1 DEF Range
        <3> QED
            BY <3>1, <3>2, <3>3
    <2>3. Everywhere' \subseteq Everywhere \cup {Gist}
        BY <2>1, <2>2, EverywhereWithin
    <2> QED
        BY <2>3
<1>8. CASE Substitute
    <2>1. hist' = pre /\ db' = db /\ pre' = << >> /\ snap' = snap
        BY <1>8 DEF Substitute, NoList, store, caller
    <2>2. Everywhere' \subseteq Everywhere
        BY <2>1, RangeFacts, EverywhereWithin
    <2> QED
        BY <2>2
<1>9. ASSUME NEW c \in Callers, Call(c) PROVE \A e \in Everywhere' : Goal(e)
    <2>1. hist' = hist /\ db' = db /\ pre' = pre
        BY <1>9 DEF Call, store
    <2>2. \A d \in Callers : snap'[d] = snap[d] \/ snap'[d] = hist
        BY <1>9 DEF Call, IngestTypeOK
    <2>3. Everywhere' \subseteq Everywhere
        BY <2>1, <2>2, RangeFacts, EverywhereWithin
    <2> QED
        BY <2>3
<1>10. ASSUME NEW c \in Callers, ReconcileRead(c) PROVE \A e \in Everywhere' : Goal(e)
    BY <1>10 DEF ReconcileRead, store, Everywhere
<1>11. ASSUME NEW c \in Callers, ReconcileWrite(c) PROVE \A e \in Everywhere' : Goal(e)
    BY <1>11 DEF ReconcileWrite, store, Everywhere
<1>12. ASSUME NEW c \in Callers, NothingNew(c) PROVE \A e \in Everywhere' : Goal(e)
    <2>1. hist' = hist /\ db' = db /\ pre' = pre
        BY <1>12 DEF NothingNew, store
    <2>2. \A d \in Callers : snap'[d] = snap[d] \/ snap'[d] = << >>
        BY <1>12 DEF NothingNew, Return, IngestTypeOK
    <2>3. Everywhere' \subseteq Everywhere
        BY <2>1, <2>2, RangeFacts, EverywhereWithin
    <2> QED
        BY <2>3
<1>13. ASSUME NEW c \in Callers, SomethingNew(c) PROVE \A e \in Everywhere' : Goal(e)
    BY <1>13 DEF SomethingNew, store, Everywhere
<1>14. ASSUME NEW c \in Callers, StartBatch(c) PROVE \A e \in Everywhere' : Goal(e)
    BY <1>14 DEF StartBatch, store, Everywhere
<1>15. ASSUME NEW c \in Callers, AlreadyDone(c) PROVE \A e \in Everywhere' : Goal(e)
    <2>1. hist' = hist /\ db' = db /\ pre' = pre
        BY <1>15 DEF AlreadyDone, store
    <2>2. \A d \in Callers : snap'[d] = snap[d] \/ snap'[d] = << >>
        BY <1>15 DEF AlreadyDone, Return, IngestTypeOK
    <2>3. Everywhere' \subseteq Everywhere
        BY <2>1, <2>2, RangeFacts, EverywhereWithin
    <2> QED
        BY <2>3
<1>16. ASSUME NEW c \in Callers, WriteFile(c) PROVE \A e \in Everywhere' : Goal(e)
    BY <1>16 DEF WriteFile, store, Everywhere
<1>17. ASSUME NEW c \in Callers, RecordFile(c) PROVE \A e \in Everywhere' : Goal(e)
    BY <1>17 DEF RecordFile, store, Everywhere
<1>18. ASSUME NEW c \in Callers, RecordFails(c) PROVE \A e \in Everywhere' : Goal(e)
    BY <1>18 DEF RecordFails, store, Everywhere
<1>19. ASSUME NEW c \in Callers, IngestOne(c) PROVE \A e \in Everywhere' : Goal(e)
    <2>1. hist' = hist /\ snap' = snap /\ pre' = pre
        BY <1>19 DEF IngestOne
    <2>2. AfterGuard(c) \in Msgs /\ db \in Seq(Msgs)
        BY <1>19, CurrentFacts DEF IngestOne, IngestTypeOK
    <2>3. db' = Append(db, AfterGuard(c)) \/ db' = db
        BY <1>19 DEF IngestOne
    <2>4. Range(db') \subseteq Everywhere \cup {AfterGuard(c)}
        BY <2>2, <2>3, RangeFacts
    <2>5. Everywhere' \subseteq Everywhere \cup {AfterGuard(c)}
        BY <2>1, <2>4, EverywhereWithin
    <2> QED
        BY <1>19, <2>5
<1>20. ASSUME NEW c \in Callers, IngestFails(c) PROVE \A e \in Everywhere' : Goal(e)
    BY <1>20 DEF IngestFails, store, Everywhere
<1>21. ASSUME NEW c \in Callers, FinishBatch(c) PROVE \A e \in Everywhere' : Goal(e)
    <2>1. hist' = hist /\ db' = db /\ pre' = pre
        BY <1>21 DEF FinishBatch, store
    <2>2. \A d \in Callers : snap'[d] = snap[d] \/ snap'[d] = << >>
        BY <1>21 DEF FinishBatch, Return, IngestTypeOK
    <2>3. Everywhere' \subseteq Everywhere
        BY <2>1, <2>2, RangeFacts, EverywhereWithin
    <2> QED
        BY <2>3
<1>22. CASE UNCHANGED ingestVars
    BY <1>22 DEF ingestVars, store, caller, Everywhere
<1> QED
    BY <1>1, <1>2, <1>3, <1>4, <1>5, <1>6, <1>7, <1>8, <1>9, <1>10, <1>11, <1>12, <1>13, <1>14, <1>15, <1>16, <1>17, <1>18, <1>19, <1>20, <1>21, <1>22 DEF IngestNext, CallerStep
\* The file in a guard's hands: of the directory, of no row before it is recorded.
Held ==
    \A c \in Callers :
        /\ pc[c] = "filed" => file[c] \in blobs \ large
        /\ file[c] # NoFile => /\ pc[c] \in {"filed", "guarded"}
                               /\ pc[c] = "guarded" => file[c] \in large

\* A guard keeps its file, drops it or writes a new one; rows of large_files stay.
LEMMA HeldStep ==
    ASSUME IngestTypeOK, Located, Held, [IngestNext]_ingestVars
    PROVE  /\ Held'
           /\ large \subseteq large'
           /\ \A c \in Callers : \/ file'[c] = NoFile
                                 \/ file'[c] = file[c]
                                 \/ file'[c] = NewFile
<1> DEFINE Goal ==
           /\ Held'
           /\ large \subseteq large'
           /\ \A c \in Callers : \/ file'[c] = NoFile
                                 \/ file'[c] = file[c]
                                 \/ file'[c] = NewFile
<1>1. ASSUME NEW k \in UNION Range(Turns), NewMessage(k) PROVE Goal
    BY <1>1 DEF NewMessage, store, caller, Held
<1>2. CASE Restart
    BY <1>2 DEF Restart, store, Held
<1>3. CASE SessionReset
    BY <1>3 DEF SessionReset, store, caller, Held
<1>4. CASE SessionEnd
    BY <1>4 DEF SessionEnd, store, caller, Held
<1>5. CASE SessionStart
    BY <1>5 DEF SessionStart, store, caller, Held
<1>6. CASE Fold
    BY <1>6 DEF Fold, store, caller, Held
<1>7. CASE Assemble
    BY <1>7 DEF Assemble, store, caller, Held
<1>8. CASE Substitute
    BY <1>8 DEF Substitute, store, caller, Held
<1>9. ASSUME NEW c \in Callers, Call(c) PROVE Goal
    BY <1>9 DEF Call, store, IngestTypeOK, Held
<1>10. ASSUME NEW c \in Callers, ReconcileRead(c) PROVE Goal
    BY <1>10 DEF ReconcileRead, store, IngestTypeOK, Held
<1>11. ASSUME NEW c \in Callers, ReconcileWrite(c) PROVE Goal
    BY <1>11 DEF ReconcileWrite, store, IngestTypeOK, Held
<1>12. ASSUME NEW c \in Callers, NothingNew(c) PROVE Goal
    BY <1>12 DEF NothingNew, Return, store, IngestTypeOK, Held
<1>13. ASSUME NEW c \in Callers, SomethingNew(c) PROVE Goal
    BY <1>13 DEF SomethingNew, store, IngestTypeOK, Held
<1>14. ASSUME NEW c \in Callers, StartBatch(c) PROVE Goal
    BY <1>14 DEF StartBatch, store, IngestTypeOK, Held
<1>15. ASSUME NEW c \in Callers, AlreadyDone(c) PROVE Goal
    BY <1>15 DEF AlreadyDone, Return, store, IngestTypeOK, Held
<1>16. ASSUME NEW c \in Callers, WriteFile(c) PROVE Goal
    <2>1. NewFile \in Nat \ {0} /\ NewFile \notin large
        BY NewFileFacts
    <2>2. blobs' = blobs \cup {NewFile} /\ large' = large
        BY <1>16 DEF WriteFile
    <2>3. \A d \in Callers \ {c} : pc'[d] = pc[d] /\ file'[d] = file[d]
        BY <1>16 DEF WriteFile, IngestTypeOK
    <2>4. pc'[c] = "filed" /\ file'[c] = NewFile
        BY <1>16 DEF WriteFile, IngestTypeOK
    <2> QED
        BY <2>1, <2>2, <2>3, <2>4 DEF Held
<1>17. ASSUME NEW c \in Callers, RecordFile(c) PROVE Goal
    BY <1>17 DEF RecordFile, Located, IngestTypeOK, Held
<1>18. ASSUME NEW c \in Callers, RecordFails(c) PROVE Goal
    BY <1>18 DEF RecordFails, Located, IngestTypeOK, Held
<1>19. ASSUME NEW c \in Callers, IngestOne(c) PROVE Goal
    BY <1>19 DEF IngestOne, NextMessage, InBatch, IngestTypeOK, Held
<1>20. ASSUME NEW c \in Callers, IngestFails(c) PROVE Goal
    BY <1>20 DEF IngestFails, NextMessage, InBatch, store, IngestTypeOK, Held
<1>21. ASSUME NEW c \in Callers, FinishBatch(c) PROVE Goal
    BY <1>21 DEF FinishBatch, Return, store, IngestTypeOK, Held
<1>22. CASE UNCHANGED ingestVars
    BY <1>22 DEF ingestVars, store, caller, Held
<1> QED
    BY <1>1, <1>2, <1>3, <1>4, <1>5, <1>6, <1>7, <1>8, <1>9, <1>10, <1>11, <1>12, <1>13, <1>14, <1>15, <1>16, <1>17, <1>18, <1>19, <1>20, <1>21, <1>22 DEF IngestNext, CallerStep

\* What the guard makes of a message is that message, or a reference to the file
\* that it holds.
LEMMA AfterGuardFacts ==
    ASSUME IngestTypeOK, Located, Referred, NEW c \in Callers, IngestOne(c)
    PROVE  /\ lock = c
           /\ \/ AfterGuard(c) \in Everywhere
              \/ /\ AfterGuard(c).kind = "stub"
                 /\ AfterGuard(c).file = file[c]
                 /\ file[c] # NoFile
                 /\ file[c] \in large
           /\ file'[c] = NoFile
<1>1. InBatch(c) /\ pc[c] # "filed" /\ file'[c] = NoFile
    BY DEF IngestOne, NextMessage, IngestTypeOK
<1>2. lock = c /\ Current(c) \in Everywhere /\ Current(c) \in Msgs
    BY <1>1, CurrentFacts
<1>3. CASE file[c] = NoFile
    BY <1>1, <1>2, <1>3 DEF AfterGuard
<1>4. CASE file[c] # NoFile
    <2>1. file[c] \in large
        BY <1>1, <1>4 DEF Referred
    <2>2. AfterGuard(c).kind = "stub" /\ AfterGuard(c).file = file[c]
        BY <1>2, <1>4 DEF AfterGuard, Msgs
    <2> QED
        BY <1>1, <1>2, <1>4, <2>1, <2>2
<1> QED
    BY <1>3, <1>4

\* Every step keeps the references resolved and the files apart.
LEMMA ReferredStep ==
    ASSUME IngestTypeOK, Located, Referred, [IngestNext]_ingestVars
    PROVE  Referred'
<1>1. Held
    BY DEF Referred, Held
<1>2. /\ Held'
      /\ large \subseteq large'
      /\ \A c \in Callers : file'[c] = NoFile \/ file'[c] = file[c] \/ file'[c] = NewFile
    BY <1>1, HeldStep
<1>3. Gist.file = NoFile /\ Gist.kind # "stub"
    BY DEF Gist
<1>4. NewFile # NoFile /\ NewFile \notin large
    BY NewFileFacts DEF NoFile
<1>5. \A e \in Everywhere : /\ e.file # NoFile => e.kind = "stub"
                            /\ e.kind = "stub" => e.file \in large
    BY DEF Referred
<1> DEFINE New(e) == \E c \in Callers : /\ IngestOne(c)
                                        /\ e = AfterGuard(c)
                                        /\ e.kind = "stub"
                                        /\ e.file = file[c]
                                        /\ file[c] # NoFile
                                        /\ file[c] \in large
<1>6. ASSUME NEW e \in Everywhere'
      PROVE  e \in Everywhere \/ (e.file = NoFile /\ e.kind # "stub") \/ New(e)
    <2>1. CASE e \in Everywhere \/ e = Gist \/ Made(e)
        BY <1>3, <2>1 DEF Made
    <2>2. CASE \E c \in Callers : IngestOne(c) /\ e = AfterGuard(c)
        <3>1. PICK c \in Callers : IngestOne(c) /\ e = AfterGuard(c)
            BY <2>2
        <3> QED
            BY <3>1, AfterGuardFacts
    <2> QED
        BY <2>1, <2>2, EverywhereStep
<1>7. ASSUME NEW e, New(e), NEW f \in Everywhere PROVE f.file # e.file
    BY <1>7 DEF Referred
<1>8. ASSUME NEW e, NEW f, New(e), New(f) PROVE e = f
    BY <1>8, AfterGuardFacts
<1>9. ASSUME NEW e \in Everywhere'
      PROVE  /\ e.file # NoFile => e.kind = "stub"
             /\ e.kind = "stub" => e.file \in large'
    BY <1>2, <1>5, <1>6
<1>10. ASSUME NEW e \in Everywhere', NEW f \in Everywhere', e.file = f.file, e.file # NoFile
       PROVE  e.id = f.id
    <2>1. e \in Everywhere \/ New(e)
        BY <1>6, <1>10
    <2>2. f \in Everywhere \/ New(f)
        BY <1>6, <1>10
    <2>3. CASE e \in Everywhere /\ f \in Everywhere
        BY <1>10, <2>3 DEF Referred
    <2> HIDE DEF New
    <2> QED
        BY <1>7, <1>8, <1>10, <2>1, <2>2, <2>3
<1>11. ASSUME NEW c \in Callers, file'[c] # NoFile, NEW e \in Everywhere'
       PROVE  e.file # file'[c]
    <2>1. CASE file'[c] = NewFile
        BY <1>4, <1>5, <1>6, <2>1
    <2>2. CASE file'[c] = file[c]
        <3>1. CASE e \in Everywhere
            BY <1>11, <2>2, <3>1 DEF Referred
        <3>2. CASE New(e)
            <4>1. PICK d \in Callers : IngestOne(d) /\ e.file = file[d] /\ file[d] # NoFile
                BY <3>2
            <4>2. lock = d /\ file'[d] = NoFile
                BY <4>1, AfterGuardFacts
            <4>3. pc[c] \in {"filed", "guarded"}
                BY <1>11, <2>2 DEF Referred
            <4>4. lock = c
                BY <4>3 DEF Located
            <4> QED
                BY <1>11, <4>2, <4>4
        <3> QED
            BY <1>6, <1>11, <3>1, <3>2
    <2> QED
        BY <1>2, <1>11, <2>1, <2>2
<1> HIDE DEF New
<1>12. \A c \in Callers :
          /\ pc'[c] = "filed" => file'[c] \in blobs' \ large'
          /\ file'[c] # NoFile => /\ pc'[c] \in {"filed", "guarded"}
                                  /\ pc'[c] = "guarded" => file'[c] \in large'
    BY <1>2 DEF Held
<1> QED
    BY <1>9, <1>10, <1>11, <1>12 DEF Referred
-----------------------------------------------------------------------------
(***************************************************************************)
(* Order.                                                                  *)
(***************************************************************************)

\* Once adrift, always adrift; the host's count does not go down.
LEMMA Onward ==
    ASSUME IngestTypeOK, [IngestNext]_ingestVars
    PROVE  (adrift => adrift') /\ made <= made' /\ made' \in Nat
<1>1. made \in Nat
    BY DEF IngestTypeOK
<1>2. adrift' \in {adrift} \/ (adrift => adrift')
    BY DEF IngestNext, CallerStep, NewMessage, Restart, SessionReset, SessionEnd, SessionStart,
           Call, ReconcileRead, ReconcileWrite, NothingNew, SomethingNew, StartBatch,
           AlreadyDone, WriteFile, RecordFile, RecordFails, IngestOne, IngestFails,
           FinishBatch, Fold, Assemble, Substitute, ingestVars
<1>3. made' = made \/ made' = made + 1
    BY DEF IngestNext, CallerStep, NewMessage, Restart, SessionReset, SessionEnd, SessionStart,
           Call, ReconcileRead, ReconcileWrite, NothingNew, SomethingNew, StartBatch,
           AlreadyDone, WriteFile, RecordFile, RecordFails, IngestOne, IngestFails,
           FinishBatch, Fold, Assemble, Substitute, ingestVars
<1> QED
    BY <1>1, <1>2, <1>3

\* The identities stay below the host's count.
LEMMA MadeStep ==
    ASSUME IngestTypeOK, Located, Ordered, [IngestNext]_ingestVars
    PROVE  \A e \in Everywhere' : e.id <= made'
<1>1. made \in Nat /\ made' \in Nat /\ made <= made'
    BY Onward DEF IngestTypeOK
<1>2. ASSUME NEW e \in Everywhere PROVE e.id <= made'
    <2>1. e.id \in Nat /\ e.id <= made
        BY EverywhereMsgs DEF Ordered, Msgs
    <2> QED
        BY <1>1, <2>1
<1>3. Gist.id <= made'
    BY <1>1 DEF Gist
<1>4. ASSUME NEW e, Made(e) PROVE e.id <= made'
    BY <1>1, <1>4 DEF Made
<1>5. ASSUME NEW c \in Callers, IngestOne(c) PROVE AfterGuard(c).id <= made'
    <2>1. AfterGuard(c).id = Current(c).id /\ Current(c) \in Everywhere
        BY <1>5, CurrentFacts DEF IngestOne
    <2> QED
        BY <1>2, <2>1
<1> QED
    BY <1>2, <1>3, <1>4, <1>5, EverywhereStep

\* What Ordered says beyond that.
Lined ==
    /\ Rising(hist) /\ Rising(db) /\ Rising(pre)
    /\ \A i \in 1 .. Len(db) : db[i].id > 0
    /\ \A i \in 1 .. Len(hist) : hist[i].id = 0 => db # << >>
    /\ \A i \in 1 .. Len(pre) : pre[i].id = 0 => db # << >>
    /\ \A c \in Callers : /\ Len(snap[c]) <= Len(hist)
                          /\ \A i \in 1 .. Len(snap[c]) : snap[c][i] = hist[i]
    /\ Cursor <= Len(hist)

\* A step that leaves the lists and the rows alone, takes snapshots of the list
\* and keeps the cursor inside it.
LEMMA LinedKept ==
    ASSUME IngestTypeOK, Lined, hist' = hist, db' = db, pre' = pre,
           \A c \in Callers : snap'[c] \in {snap[c], << >>, hist},
           Cursor' <= Len(hist)
    PROVE  Lined'
<1>1. ASSUME NEW c \in Callers
      PROVE  /\ Len(snap'[c]) <= Len(hist)
             /\ \A i \in 1 .. Len(snap'[c]) : snap'[c][i] = hist[i]
    <2>1. hist \in Seq(Msgs) /\ Len(hist) \in Nat
        BY DEF IngestTypeOK
    <2>2. CASE snap'[c] = snap[c]
        BY <2>2 DEF Lined
    <2>3. CASE snap'[c] = << >>
        BY <2>1, <2>3
    <2>4. CASE snap'[c] = hist
        BY <2>1, <2>4
    <2> QED
        BY <2>2, <2>3, <2>4
<1> QED
    BY <1>1 DEF Lined, Rising

\* A rising list stays so when a greater identity is appended.
LEMMA RisingAppend ==
    ASSUME NEW s \in Seq(Msgs), NEW x \in Msgs, Rising(s),
           \A i \in 1 .. Len(s) : s[i].id < x.id
    PROVE  Rising(Append(s, x))
<1> DEFINE t == Append(s, x)
<1>1. Len(t) = Len(s) + 1 /\ t[Len(s) + 1] = x /\ Len(s) \in Nat
    OBVIOUS
<1>2. \A i \in 1 .. Len(s) : t[i] = s[i]
    OBVIOUS
<1> HIDE DEF t
<1>3. ASSUME NEW i \in 1 .. Len(t), NEW j \in 1 .. i - 1 PROVE t[j].id < t[i].id
    <2>1. j \in 1 .. Len(s) /\ t[j] = s[j]
        BY <1>1, <1>2
    <2>2. CASE i = Len(s) + 1
        BY <1>1, <2>1, <2>2
    <2>3. CASE i # Len(s) + 1
        <3>1. i \in 1 .. Len(s) /\ t[i] = s[i]
            BY <1>1, <1>2, <2>3
        <3> QED
            BY <2>1, <3>1 DEF Rising
    <2> QED
        BY <2>2, <2>3
<1> QED
    BY <1>3 DEF Rising, t

\* What the assembler makes of rows in order is in order.
LEMMA AssembledLined ==
    ASSUME IngestTypeOK, Lined, db # << >>
    PROVE  Rising(Assembled) /\ \A i \in 1 .. Len(Assembled) : Assembled[i].id = 0 => db # << >>
<1>1. db \in Seq(Msgs) /\ folded \in Nat /\ (folded = 0 \/ folded < Len(db)) /\ Assembled \in Seq(Msgs)
    BY AssembledFacts DEF IngestTypeOK
<1>2. CASE folded = 0
    BY <1>2, AssembledFacts DEF Lined
<1>3. CASE folded > 0
    <2>1. /\ Len(Assembled) = Len(db) - folded + 1
          /\ Assembled[1] = Gist
          /\ \A i \in 2 .. Len(Assembled) : Assembled[i] = db[folded + i - 1]
        BY <1>3, AssembledFacts
    <2>2. \A i \in 2 .. Len(Assembled) : folded + i - 1 \in 1 .. Len(db)
        BY <1>1, <2>1
    <2>3. \A i \in 2 .. Len(Assembled) : Assembled[i].id > 0
        BY <2>1, <2>2 DEF Lined
    <2>4. ASSUME NEW i \in 1 .. Len(Assembled), NEW j \in 1 .. i - 1
          PROVE  Assembled[j].id < Assembled[i].id
        <3>1. i \in 2 .. Len(Assembled)
            BY <1>1, <2>1
        <3>2. CASE j = 1
            BY <2>1, <2>3, <3>1, <3>2 DEF Gist
        <3>3. CASE j # 1
            <4>1. j \in 2 .. Len(Assembled)
                BY <1>1, <2>1, <3>1, <3>3
            <4>2. folded + j - 1 \in 1 .. (folded + i - 1) - 1
                BY <1>1, <3>1, <3>3
            <4>3. db[folded + j - 1].id < db[folded + i - 1].id
                BY <2>2, <3>1, <4>2 DEF Lined, Rising
            <4> QED
                BY <2>1, <3>1, <4>1, <4>3
        <3> QED
            BY <3>2, <3>3
    <2> QED
        BY <2>4 DEF Rising
<1> QED
    BY <1>1, <1>2, <1>3

\* The message that a batch has come to is that of the list.
LEMMA CurrentOfList ==
    ASSUME IngestTypeOK, Located, Lined, NEW c \in Callers, InBatch(c)
    PROVE  /\ idx[c] \in 1 .. Len(hist)
           /\ Current(c) = hist[idx[c]]
<1>1. idx[c] \in 1 .. Len(snap[c]) /\ Current(c) = snap[c][idx[c]]
    BY CurrentFacts
<1>2. Len(snap[c]) <= Len(hist) /\ Len(snap[c]) \in Nat /\ Len(hist) \in Nat
    BY DEF Lined, IngestTypeOK
<1> QED
    BY <1>1, <1>2 DEF Lined

\* Every step that does not set adrift keeps lists and rows in order.
LEMMA LinedStep ==
    ASSUME IngestTypeOK, Located, Lined, \A e \in Everywhere : e.id <= made, Ahead,
           [IngestNext]_ingestVars, ~adrift'
    PROVE  Lined'
<1>0. Cursor <= Len(hist) /\ hist \in Seq(Msgs) /\ Len(hist) \in Nat /\ db \in Seq(Msgs)
    BY DEF Lined, IngestTypeOK
<1>1. ASSUME NEW k \in UNION Range(Turns), NewMessage(k) PROVE Lined'
    <2> DEFINE m == [id |-> made + 1, text |-> k.text, kind |-> k.kind, file |-> NoFile]
    <2>1. k.text \in Texts /\ k.kind \in {"plain", "big", "skip"}
        BY IngestAssumption DEF Range
    <2>2. m \in Msgs /\ m.id = made + 1 /\ made \in Nat
        BY <2>1 DEF Msgs, NoFile, IngestTypeOK
    <2>3. hist' = Append(hist, m)
        BY <1>1 DEF NewMessage
    <2>4. db' = db /\ pre' = pre /\ snap' = snap /\ Cursor' = Cursor
        BY <1>1 DEF NewMessage, store, caller, Cursor
    <2> HIDE DEF m
    <2>5. \A i \in 1 .. Len(hist) : hist[i].id \in Nat /\ hist[i].id <= made
        BY EverywhereMsgs DEF Msgs
    <2>6. Rising(hist')
        BY <1>0, <2>2, <2>3, <2>5, RisingAppend DEF Lined
    <2>7. /\ Len(hist') = Len(hist) + 1
          /\ hist'[Len(hist) + 1] = m
          /\ \A i \in 1 .. Len(hist) : hist'[i] = hist[i]
        BY <1>0, <2>2, <2>3
    <2>8. ASSUME NEW i \in 1 .. Len(hist'), hist'[i].id = 0 PROVE db # << >>
        <3>1. i \in 1 .. Len(hist)
            BY <1>0, <2>2, <2>7, <2>8
        <3> QED
            BY <2>7, <2>8, <3>1 DEF Lined
    <2>9. ASSUME NEW c \in Callers
          PROVE  Len(snap[c]) <= Len(hist') /\ \A i \in 1 .. Len(snap[c]) : snap[c][i] = hist'[i]
        <3>1. Len(snap[c]) <= Len(hist) /\ Len(snap[c]) \in Nat
            BY DEF Lined, IngestTypeOK
        <3>2. \A i \in 1 .. Len(snap[c]) : i \in 1 .. Len(hist) /\ snap[c][i] = hist[i]
            BY <1>0, <3>1 DEF Lined
        <3> QED
            BY <1>0, <2>7, <3>1, <3>2
    <2>10. Cursor \in Int
        BY DEF Cursor, IngestTypeOK, Unset
    <2>11. Cursor' <= Len(hist')
        BY <1>0, <2>4, <2>7, <2>10
    <2>12. Rising(db') /\ Rising(pre')
        BY <2>4 DEF Lined
    <2>13. /\ \A i \in 1 .. Len(db') : db'[i].id > 0
           /\ \A i \in 1 .. Len(pre') : pre'[i].id = 0 => db' # << >>
        BY <2>4 DEF Lined
    <2> QED
        BY <2>4, <2>6, <2>8, <2>9, <2>11, <2>12, <2>13 DEF Lined, Rising
<1>2. CASE Restart
    <2>1. (hist' = hist \/ hist' = << >>) /\ db' = db /\ pre' = << >> /\ cursor' = Unset
        BY <1>2 DEF Restart, NoList, store
    <2>2. \A c \in Callers : snap'[c] = << >>
        BY <1>2 DEF Restart
    <2>3. Cursor' = 0 /\ Rising(<< >>)
        BY <2>1 DEF Cursor, Rising
    <2>4. CASE hist' = hist
        BY <1>0, <2>1, <2>2, <2>3, <2>4 DEF Lined, Rising
    <2>5. CASE hist' = << >>
        BY <1>0, <2>1, <2>2, <2>3, <2>5 DEF Lined, Rising
    <2> QED
        BY <2>1, <2>4, <2>5
<1>3. CASE SessionReset
    <2>1. hist' = << >> /\ db' = db /\ pre' = pre /\ cursor' = Unset /\ snap' = snap
        BY <1>3 DEF SessionReset, store, caller
    <2>2. \A c \in Callers : snap[c] = << >>
        BY <1>3 DEF SessionReset, BetweenTurns, Located
    <2>3. Cursor' = 0 /\ Rising(<< >>)
        BY <2>1 DEF Cursor, Rising
    <2> QED
        BY <1>0, <2>1, <2>2, <2>3 DEF Lined, Rising
<1>4. CASE SessionEnd
    <2>1. hist' = hist /\ db' = db /\ pre' = pre /\ snap' = snap /\ Cursor' = Cursor
        BY <1>4 DEF SessionEnd, store, caller, Cursor
    <2> QED
        BY <1>0, <2>1, LinedKept
<1>5. CASE SessionStart
    <2>1. hist' = hist /\ db' = db /\ pre' = pre /\ snap' = snap /\ Cursor' = Cursor
        BY <1>5 DEF SessionStart, store, caller, Cursor
    <2> QED
        BY <1>0, <2>1, LinedKept
<1>6. CASE Fold
    <2>1. hist' = hist /\ db' = db /\ pre' = pre /\ snap' = snap /\ Cursor' = Cursor
        BY <1>6 DEF Fold, store, caller, Cursor
    <2> QED
        BY <1>0, <2>1, LinedKept
<1>7. CASE Assemble
    <2>1. /\ hist' = hist /\ db' = db /\ snap' = snap /\ Cursor' = Cursor
          /\ pre' = Assembled /\ db # << >>
        BY <1>7 DEF Assemble, AssembleWithSignal, Substitutable, store, caller, Cursor
    <2>2. Rising(pre') /\ \A i \in 1 .. Len(pre') : pre'[i].id = 0 => db' # << >>
        BY <2>1, AssembledLined
    <2> QED
        BY <2>1, <2>2 DEF Lined, Rising
<1>8. CASE Substitute
    <2>1. hist' = pre /\ db' = db /\ pre' = << >> /\ snap' = snap /\ cursor' = Len(pre)
        BY <1>8 DEF Substitute, NoList, store, caller
    <2>2. \A c \in Callers : snap[c] = << >>
        BY <1>8 DEF Substitute, Located
    <2>3. Len(pre) \in Nat
        BY DEF IngestTypeOK
    <2>4. Cursor' = Len(pre) /\ Rising(<< >>)
        BY <2>1, <2>3 DEF Cursor, Rising, Unset
    <2> QED
        BY <2>1, <2>2, <2>3, <2>4 DEF Lined, Rising
<1>9. ASSUME NEW c \in Callers, Call(c) PROVE Lined'
    <2>1. hist' = hist /\ db' = db /\ pre' = pre /\ Cursor' = Cursor
        BY <1>9 DEF Call, store, Cursor
    <2>2. \A d \in Callers : snap'[d] \in {snap[d], hist}
        BY <1>9 DEF Call, IngestTypeOK
    <2> QED
        BY <1>0, <2>1, <2>2, LinedKept
<1>10. ASSUME NEW c \in Callers, ReconcileRead(c) PROVE Lined'
    <2>1. hist' = hist /\ db' = db /\ pre' = pre /\ Cursor' = Cursor /\ snap' = snap
        BY <1>10 DEF ReconcileRead, store, Cursor
    <2> QED
        BY <1>0, <2>1, LinedKept
<1>11. ASSUME NEW c \in Callers, ReconcileWrite(c) PROVE Lined'
    <2>1. hist' = hist /\ db' = db /\ pre' = pre /\ snap' = snap
        BY <1>11 DEF ReconcileWrite, store
    <2>2. found[c] <= Len(snap[c]) /\ Len(snap[c]) <= Len(hist)
        BY <1>11 DEF ReconcileWrite, Located, Lined
    <2>3. Len(snap[c]) \in Nat /\ found[c] \in Nat \cup {Unset}
        BY DEF IngestTypeOK
    <2>4. Cursor' <= Len(hist)
        BY <1>0, <1>11, <2>2, <2>3 DEF ReconcileWrite, Cursor, Unset
    <2> QED
        BY <2>1, <2>4, LinedKept
<1>12. ASSUME NEW c \in Callers, NothingNew(c) PROVE Lined'
    <2>1. hist' = hist /\ db' = db /\ pre' = pre /\ Cursor' = Cursor
        BY <1>12 DEF NothingNew, store, Cursor
    <2>2. \A d \in Callers : snap'[d] \in {snap[d], << >>}
        BY <1>12 DEF NothingNew, Return, IngestTypeOK
    <2> QED
        BY <1>0, <2>1, <2>2, LinedKept
<1>13. ASSUME NEW c \in Callers, SomethingNew(c) PROVE Lined'
    <2>1. hist' = hist /\ db' = db /\ pre' = pre /\ Cursor' = Cursor /\ snap' = snap
        BY <1>13 DEF SomethingNew, store, Cursor
    <2> QED
        BY <1>0, <2>1, LinedKept
<1>14. ASSUME NEW c \in Callers, StartBatch(c) PROVE Lined'
    <2>1. hist' = hist /\ db' = db /\ pre' = pre /\ Cursor' = Cursor /\ snap' = snap
        BY <1>14 DEF StartBatch, store, Cursor
    <2> QED
        BY <1>0, <2>1, LinedKept
<1>15. ASSUME NEW c \in Callers, AlreadyDone(c) PROVE Lined'
    <2>1. hist' = hist /\ db' = db /\ pre' = pre /\ Cursor' = Cursor
        BY <1>15 DEF AlreadyDone, store, Cursor
    <2>2. \A d \in Callers : snap'[d] \in {snap[d], << >>}
        BY <1>15 DEF AlreadyDone, Return, IngestTypeOK
    <2> QED
        BY <1>0, <2>1, <2>2, LinedKept
<1>16. ASSUME NEW c \in Callers, WriteFile(c) PROVE Lined'
    <2>1. hist' = hist /\ db' = db /\ pre' = pre /\ Cursor' = Cursor /\ snap' = snap
        BY <1>16 DEF WriteFile, store, Cursor
    <2> QED
        BY <1>0, <2>1, LinedKept
<1>17. ASSUME NEW c \in Callers, RecordFile(c) PROVE Lined'
    <2>1. hist' = hist /\ db' = db /\ pre' = pre /\ Cursor' = Cursor /\ snap' = snap
        BY <1>17 DEF RecordFile, store, Cursor
    <2> QED
        BY <1>0, <2>1, LinedKept
<1>18. ASSUME NEW c \in Callers, RecordFails(c) PROVE Lined'
    <2>1. hist' = hist /\ db' = db /\ pre' = pre /\ Cursor' = Cursor /\ snap' = snap
        BY <1>18 DEF RecordFails, store, Cursor
    <2> QED
        BY <1>0, <2>1, LinedKept
<1>19. ASSUME NEW c \in Callers, IngestOne(c) PROVE Lined'
    <2>1. hist' = hist /\ pre' = pre /\ snap' = snap /\ Cursor' = Cursor
        BY <1>19 DEF IngestOne, Cursor
    <2>2. CASE db' = db
        BY <1>0, <2>1, <2>2, LinedKept
    <2>3. CASE db' = Append(db, AfterGuard(c)) /\ Persistable(Current(c))
        <3> DEFINE m == AfterGuard(c)
        <3>1. InBatch(c) /\ lock = c /\ m \in Msgs /\ m.id = Current(c).id
            BY <1>19, CurrentFacts DEF IngestOne
        <3>2. idx[c] \in 1 .. Len(hist) /\ Current(c) = hist[idx[c]]
            BY <3>1, CurrentOfList
        <3>3. Fresh(idx[c] - 1)
            BY <3>1 DEF Ahead
        <3>4. idx[c] \in (idx[c] - 1) + 1 .. Len(hist)
            BY <3>2
        <3>5. m.id > 0 /\ \A i \in 1 .. Len(db) : db[i].id < m.id
            BY <2>3, <3>1, <3>2, <3>3, <3>4 DEF Fresh, Newer
        <3> HIDE DEF m
        <3>6. Rising(db')
            BY <1>0, <2>3, <3>1, <3>5, RisingAppend DEF Lined, m
        <3>7. /\ Len(db') = Len(db) + 1 /\ Len(db) \in Nat
              /\ db'[Len(db) + 1] = m
              /\ \A i \in 1 .. Len(db) : db'[i] = db[i]
            BY <1>0, <2>3, <3>1 DEF m
        <3>8. ASSUME NEW i \in 1 .. Len(db') PROVE db'[i].id > 0
            <4>1. i \in 1 .. Len(db) \/ i = Len(db) + 1
                BY <3>7
            <4> QED
                BY <3>5, <3>7, <4>1 DEF Lined
        <3>9. db' # << >>
            BY <3>7
        <3> QED
            BY <2>1, <3>6, <3>8, <3>9 DEF Lined, Rising
    <2> QED
        BY <1>19, <2>2, <2>3 DEF IngestOne
<1>20. ASSUME NEW c \in Callers, IngestFails(c) PROVE Lined'
    <2>1. hist' = hist /\ db' = db /\ pre' = pre /\ Cursor' = Cursor /\ snap' = snap
        BY <1>20 DEF IngestFails, store, Cursor
    <2> QED
        BY <1>0, <2>1, LinedKept
<1>21. ASSUME NEW c \in Callers, FinishBatch(c) PROVE Lined'
    <2>1. hist' = hist /\ db' = db /\ pre' = pre
        BY <1>21 DEF FinishBatch, store
    <2>2. \A d \in Callers : snap'[d] \in {snap[d], << >>}
        BY <1>21 DEF FinishBatch, Return, IngestTypeOK
    <2>3. Len(snap[c]) \in Nat /\ Len(snap[c]) <= Len(hist)
        BY DEF IngestTypeOK, Lined
    <2>4. Cursor' <= Len(hist)
        BY <1>0, <1>21, <2>3 DEF FinishBatch, Cursor, Unset
    <2> QED
        BY <2>1, <2>2, <2>4, LinedKept
<1>22. CASE UNCHANGED ingestVars
    <2>1. hist' = hist /\ db' = db /\ pre' = pre /\ Cursor' = Cursor /\ snap' = snap
        BY <1>22 DEF ingestVars, store, caller, Cursor
    <2> QED
        BY <1>0, <2>1, LinedKept
<1> QED
    BY <1>1, <1>2, <1>3, <1>4, <1>5, <1>6, <1>7, <1>8, <1>9, <1>10, <1>11, <1>12, <1>13, <1>14, <1>15, <1>16, <1>17, <1>18, <1>19, <1>20, <1>21, <1>22 DEF IngestNext, CallerStep

\* Ordered is kept.
LEMMA OrderedStep ==
    ASSUME IngestTypeOK, Located, Ordered, Ahead, [IngestNext]_ingestVars, ~adrift'
    PROVE  Ordered'
<1>1. Lined /\ \A e \in Everywhere : e.id <= made
    BY DEF Ordered, Lined
<1>2. Lined'
    BY <1>1, LinedStep
<1>3. \A e \in Everywhere' : e.id <= made'
    BY MadeStep
<1> QED
    BY <1>2, <1>3 DEF Ordered, Lined
-----------------------------------------------------------------------------
(***************************************************************************)
(* What lies ahead of the cursor.                                          *)
(***************************************************************************)

\* The walk of a reconciliation ends where only new messages lie ahead: the
\* argument for the replay-evidence gate.
LEMMA WalkFresh ==
    ASSUME IngestTypeOK, Lined, Ahead, cursor = Unset, Settled,
           NEW c \in Callers, pc[c] = "write"
    PROVE  /\ found[c] = Unset => Fresh(0)
           /\ found[c] # Unset => Fresh(found[c])
<1>1. PICK p \in 0 .. Len(hist) : Replays(hist, p, db) /\ Fresh(p)
    BY DEF Ahead
<1>2. Fresh(Len(snap[c])) /\ found[c] = ReplayCursor(snap[c], db)
    BY DEF Ahead
<1>3. /\ snap[c] \in Seq(Msgs) /\ db \in Seq(Msgs) /\ hist \in Seq(Msgs)
      /\ Len(snap[c]) \in Nat /\ Len(hist) \in Nat
    BY DEF IngestTypeOK
<1>4. Len(snap[c]) <= Len(hist) /\ \A i \in 1 .. Len(snap[c]) : snap[c][i] = hist[i]
    BY DEF Lined
<1> DEFINE r == IF found[c] = Unset THEN 0 ELSE found[c]
<1>5. r \in Nat
    BY DEF IngestTypeOK
<1>6. ASSUME NEW j \in r + 1 .. Len(hist), Persistable(hist[j])
      PROVE  hist[j].id > 0 /\ \A i \in 1 .. Len(db) : db[i].id < hist[j].id
    <2>1. CASE j > p
        <3>1. j \in p + 1 .. Len(hist)
            BY <1>3, <1>5, <2>1
        <3> QED
            BY <1>1, <1>6, <3>1 DEF Fresh, Newer
    <2>2. CASE j > Len(snap[c])
        <3>1. j \in Len(snap[c]) + 1 .. Len(hist)
            BY <1>3, <1>5, <2>2
        <3> QED
            BY <1>2, <1>6, <3>1 DEF Fresh, Newer
    <2>3. CASE j <= p /\ j <= Len(snap[c])
        <3>1. j \in Nat \ {0} /\ j \in 0 .. Len(snap[c]) /\ j \in 1 .. j /\ j > r
            BY <1>3, <1>5, <2>3
        <3>2. Replays(hist, j, db)
            BY <1>1, <2>3, <3>1 DEF Replays
        <3>3. \A i \in 1 .. j : snap[c][i] = hist[i]
            BY <1>3, <1>4, <2>3
        <3>4. Replays(snap[c], j, db) /\ Persistable(snap[c][j])
            BY <1>6, <3>1, <3>2, <3>3, PrefixAgree
        <3>5. ReplayCursor(snap[c], db) # Unset /\ j <= ReplayCursor(snap[c], db)
            BY <1>3, <3>1, <3>4, WalkCatchesUp
        <3> QED
            BY <1>2, <1>5, <3>1, <3>5
    <2> QED
        BY <1>3, <1>5, <2>1, <2>2, <2>3
<1>7. Fresh(r)
    BY <1>6 DEF Fresh, Newer
<1> QED
    BY <1>7

\* A list that the rows are a record of has only new messages after the last
\* one that they hold.
LEMMA RecordedFresh ==
    ASSUME IngestTypeOK, Lined, Recorded
    PROVE  \E p \in 0 .. Len(hist) : Replays(hist, p, db) /\ Fresh(p)
<1>1. PICK p \in 0 .. Len(hist) :
          Records(p) /\ (p = Len(hist) \/ Kept(hist, p) = Len(db))
    BY DEF Recorded
<1>5. Replays(hist, p, db)
    BY <1>1 DEF Records, Replays
<1>2. hist \in Seq(Msgs) /\ db \in Seq(Msgs) /\ Len(hist) \in Nat /\ Len(db) \in Nat /\ p \in Nat
    BY DEF IngestTypeOK
<1>3. CASE p = Len(hist)
    BY <1>2, <1>3, <1>5 DEF Fresh, Newer
<1>4. CASE Kept(hist, p) = Len(db)
    <2>1. ASSUME NEW j \in p + 1 .. Len(hist)
          PROVE  hist[j].id > 0 /\ \A i \in 1 .. Len(db) : db[i].id < hist[j].id
        <3>0. j \in 1 .. Len(hist)
            BY <1>2
        <3>1. hist[j].id \in Nat
            BY <3>0, EverywhereMsgs DEF Msgs
        <3>2. CASE Len(db) = 0
            <4>1. db = << >>
                BY <1>2, <3>2
            <4>2. hist[j].id # 0
                BY <1>2, <4>1 DEF Lined
            <4> QED
                BY <3>1, <3>2, <4>2
        <3>3. CASE Len(db) # 0
            <4>1. PICK l \in 1 .. p : Persistable(hist[l]) /\ Kept(hist, l) = Len(db)
                BY <1>2, <1>4, <3>3, KeptLast
            <4>2. db[Len(db)] = hist[l]
                BY <1>1, <4>1 DEF Records
            <4>3. l \in 1 .. j - 1 /\ j \in 1 .. Len(hist)
                BY <1>2, <4>1
            <4>4. hist[l].id < hist[j].id
                BY <4>3 DEF Lined, Rising
            <4>5. Len(db) \in 1 .. Len(db)
                BY <1>2, <3>3
            <4>6. ASSUME NEW i \in 1 .. Len(db) PROVE db[i].id < hist[j].id
                <5>1. db[i].id \in Nat /\ db[Len(db)].id \in Nat
                    BY <4>5, EverywhereMsgs DEF Msgs
                <5>2. CASE i = Len(db)
                    BY <4>2, <4>4, <5>2
                <5>3. CASE i # Len(db)
                    <6>1. i \in 1 .. Len(db) - 1
                        BY <1>2, <5>3
                    <6>2. db[i].id < db[Len(db)].id
                        BY <4>5, <6>1 DEF Lined, Rising
                    <6> QED
                        BY <3>1, <4>2, <4>4, <5>1, <6>2
                <5> QED
                    BY <5>2, <5>3
            <4>7. hist[j].id > 0
                <5>1. db[Len(db)].id \in Nat /\ db[Len(db)].id < hist[j].id
                    BY <4>5, <4>6, EverywhereMsgs DEF Msgs
                <5> QED
                    BY <3>1, <5>1
            <4> QED
                BY <4>6, <4>7
        <3> QED
            BY <3>2, <3>3
    <2> QED
        BY <1>5, <2>1 DEF Fresh, Newer
<1> QED
    BY <1>1, <1>3, <1>4

\* A message that the host appends is newer than every row.
LEMMA AppendFresh ==
    ASSUME IngestTypeOK, \A e \in Everywhere : e.id <= made,
           NEW k, k \in UNION Range(Turns), NewMessage(k)
    PROVE  /\ db' = db
           /\ \A p \in Nat : Fresh(p) => Newer(hist', p, db)
           /\ \A p \in 0 .. Len(hist) : p \in 0 .. Len(hist') /\ (Replays(hist, p, db) => Replays(hist', p, db))
<1> DEFINE m == [id |-> made + 1, text |-> k.text, kind |-> k.kind, file |-> NoFile]
<1>1. k.text \in Texts /\ k.kind \in {"plain", "big", "skip"}
    BY IngestAssumption DEF Range
<1>2. m \in Msgs /\ m.id = made + 1 /\ made \in Nat
    BY <1>1 DEF Msgs, NoFile, IngestTypeOK
<1>3. hist' = Append(hist, m) /\ db' = db
    BY DEF NewMessage, store
<1> HIDE DEF m
<1>4. hist \in Seq(Msgs) /\ Len(hist) \in Nat
    BY DEF IngestTypeOK
<1>5. /\ Len(hist') = Len(hist) + 1
      /\ hist'[Len(hist) + 1] = m
      /\ \A i \in 1 .. Len(hist) : hist'[i] = hist[i]
    BY <1>2, <1>3, <1>4
<1>6. \A i \in 1 .. Len(db) : db[i].id \in Nat /\ db[i].id < m.id
    <2>1. \A i \in 1 .. Len(db) : db[i].id \in Nat /\ db[i].id <= made
        BY EverywhereMsgs DEF Msgs
    <2> QED
        BY <1>2, <2>1
<1>7. ASSUME NEW p \in Nat, Fresh(p) PROVE Newer(hist', p, db)
    <2>1. SUFFICES ASSUME NEW j \in p + 1 .. Len(hist'), Persistable(hist'[j]), j \in Int
                   PROVE  hist'[j].id > 0 /\ \A i \in 1 .. Len(db) : db[i].id < hist'[j].id
        BY DEF Newer
    <2>2. CASE j = Len(hist) + 1
        BY <1>2, <1>5, <1>6, <2>2
    <2>3. CASE j # Len(hist) + 1
        <3>1. j \in p + 1 .. Len(hist)
            BY <1>4, <1>5, <2>3
        <3>2. j \in 1 .. Len(hist)
            BY <1>4, <3>1
        <3> QED
            BY <1>5, <1>7, <2>1, <3>1, <3>2 DEF Fresh, Newer
    <2> QED
        BY <2>2, <2>3
<1>8. ASSUME NEW p \in 0 .. Len(hist) PROVE p \in 0 .. Len(hist') /\ (Replays(hist, p, db) => Replays(hist', p, db))
    <2>1. p \in Nat /\ p \in 0 .. Len(hist') /\ \A j \in 1 .. p : hist'[j] = hist[j]
        BY <1>4, <1>5
    <2> QED
        BY <2>1, PrefixAgree
<1> QED
    BY <1>3, <1>7, <1>8

\* A step that leaves list, rows, cursor, lock and batches alone and takes no
\* caller into its reconciliation.
LEMMA AheadKept ==
    ASSUME IngestTypeOK, Ahead, hist' = hist, db' = db, cursor' = cursor,
           reconciled' = reconciled, lock' = lock,
           \A c \in Callers : /\ got'[c] = got[c]
                              /\ lock = c => idx'[c] = idx[c]
                              /\ pc'[c] \in {"read", "write"} =>
                                    /\ pc[c] = pc'[c]
                                    /\ snap'[c] = snap[c]
                                    /\ found'[c] = found[c]
    PROVE  Ahead'
<1>1. Settled' = Settled /\ Cursor' = Cursor
    BY DEF Settled, Cursor, IngestTypeOK
<1>2. \A p : Newer(hist', p, db') = Fresh(p)
    BY DEF Fresh
<1>3. (reconciled' \/ cursor' # Unset) /\ Settled' => Newer(hist', Cursor', db')
    BY <1>1, <1>2 DEF Ahead
<1>4. \A c \in Callers : lock' = c => Newer(hist', idx'[c] - 1, db')
    BY <1>2 DEF Ahead
<1>5. cursor' = Unset /\ Settled' =>
          \E p \in 0 .. Len(hist') : Replays(hist', p, db') /\ Newer(hist', p, db')
    BY <1>1, <1>2 DEF Ahead
<1>6. cursor' = Unset /\ Settled' =>
          \A c \in Callers :
             /\ pc'[c] \in {"read", "write"} => Newer(hist', Len(snap'[c]), db')
             /\ pc'[c] = "write" => found'[c] = ReplayCursor(snap'[c], db')
    BY <1>1, <1>2 DEF Ahead
<1> QED
    BY <1>3, <1>4, <1>5, <1>6 DEF Ahead, Fresh

\* A position further on is as good.
LEMMA NewerLater ==
    ASSUME NEW h \in Seq(Msgs), NEW s, NEW p \in Nat, NEW q \in Nat, p <= q, Newer(h, p, s)
    PROVE  Newer(h, q, s)
<1>1. Len(h) \in Nat
    OBVIOUS
<1>2. \A j \in q + 1 .. Len(h) : j \in p + 1 .. Len(h)
    BY <1>1
<1> QED
    BY <1>2 DEF Newer

\* A lock that no caller holds, or holds without having stored, is settled; a
\* caller whose batch is about to start has stored nothing.
LEMMA SettledFacts ==
    ASSUME IngestTypeOK, Located
    PROVE  /\ lock = Free => Settled /\ \A c \in Callers : ~got[c]
           /\ \A c \in Callers : lock = c => (Settled <=> ~got[c])
           /\ Cursor \in Nat
<1>1. Cursor \in Nat
    BY DEF Cursor, IngestTypeOK, Unset
<1> QED
    BY <1>1, FreeAssumption DEF Settled, Located

\* Every step that does not set adrift keeps what is stored behind the cursor.
LEMMA AheadStep ==
    ASSUME IngestTypeOK, Located, Ordered, Ahead, [IngestNext]_ingestVars, ~adrift'
    PROVE  Ahead'
<1>0. /\ Lined /\ (\A e \in Everywhere : e.id <= made)
      /\ hist \in Seq(Msgs) /\ db \in Seq(Msgs) /\ Cursor \in Nat /\ Len(hist) \in Nat
    <2>1. Lined /\ \A e \in Everywhere : e.id <= made
        BY DEF Ordered, Lined
    <2>2. hist \in Seq(Msgs) /\ db \in Seq(Msgs) /\ Len(hist) \in Nat
        BY DEF IngestTypeOK
    <2> QED
        BY <2>1, <2>2, SettledFacts
<1>1. ASSUME NEW k \in UNION Range(Turns), NewMessage(k) PROVE Ahead'
    <2>1. /\ db' = db
          /\ \A p \in Nat : Fresh(p) => Newer(hist', p, db)
          /\ \A p \in 0 .. Len(hist) : /\ p \in 0 .. Len(hist')
                                       /\ Replays(hist, p, db) => Replays(hist', p, db)
        BY <1>0, <1>1, AppendFresh
    <2>2. /\ cursor' = cursor /\ reconciled' = reconciled /\ lock' = lock /\ pc' = pc
          /\ snap' = snap /\ found' = found /\ idx' = idx /\ got' = got
        BY <1>1 DEF NewMessage, caller
    <2>3. Settled' = Settled /\ Cursor' = Cursor
        BY <2>2 DEF Settled, Cursor
    <2>4. (reconciled' \/ cursor' # Unset) /\ Settled' => Newer(hist', Cursor', db')
        BY <1>0, <2>1, <2>2, <2>3 DEF Ahead
    <2>5. ASSUME NEW c \in Callers, lock' = c PROVE Newer(hist', idx'[c] - 1, db')
        <3>1. Fresh(idx[c] - 1)
            BY <2>2, <2>5 DEF Ahead
        <3>2. idx[c] - 1 \in Nat
            BY <2>2, <2>5 DEF Located, IngestTypeOK
        <3> QED
            BY <2>1, <2>2, <3>1, <3>2
    <2>6. ASSUME cursor' = Unset, Settled'
          PROVE  \E p \in 0 .. Len(hist') : Replays(hist', p, db') /\ Newer(hist', p, db')
        <3>1. PICK p \in 0 .. Len(hist) : Replays(hist, p, db) /\ Fresh(p)
            BY <2>2, <2>3, <2>6 DEF Ahead
        <3>2. p \in Nat
            BY <1>0
        <3> QED
            BY <2>1, <3>1, <3>2
    <2>7. ASSUME cursor' = Unset, Settled', NEW c \in Callers
          PROVE  /\ pc'[c] \in {"read", "write"} => Newer(hist', Len(snap'[c]), db')
                 /\ pc'[c] = "write" => found'[c] = ReplayCursor(snap'[c], db')
        <3>1. Len(snap[c]) \in Nat
            BY DEF IngestTypeOK
        <3> QED
            BY <2>1, <2>2, <2>3, <2>7, <3>1 DEF Ahead
    <2> QED
        BY <2>4, <2>5, <2>6, <2>7 DEF Ahead, Fresh
<1>2. CASE Restart
    <2>1. /\ (hist' = hist /\ Recorded) \/ hist' = << >>
          /\ db' = db /\ cursor' = Unset /\ lock' = Free /\ ~reconciled'
        BY <1>2 DEF Restart, store
    <2>2. \A c \in Callers : pc'[c] = "idle"
        BY <1>2 DEF Restart
    <2>4. Replays(<< >>, 0, db) /\ Newer(<< >>, 0, db) /\ 0 \in 0 .. Len(<< >>)
        BY DEF Replays, Newer
    <2>3. \E p \in 0 .. Len(hist') : Replays(hist', p, db') /\ Newer(hist', p, db')
        <3>1. CASE hist' = hist /\ Recorded
            BY <1>0, <2>1, <3>1, RecordedFresh DEF Fresh
        <3>2. CASE hist' = << >>
            BY <2>1, <2>4, <3>2
        <3> QED
            BY <2>1, <3>1, <3>2
    <2> QED
        BY <2>1, <2>2, <2>3, FreeAssumption DEF Ahead, Fresh
<1>3. CASE SessionReset
    <2>1. /\ hist' = << >> /\ db' = db /\ cursor' = Unset /\ lock' = lock /\ ~reconciled'
          /\ pc' = pc
        BY <1>3 DEF SessionReset, store, caller
    <2>2. \A c \in Callers : pc[c] = "idle" /\ lock # c
        BY <1>3 DEF SessionReset, BetweenTurns, Located
    <2>3. Replays(<< >>, 0, db) /\ Newer(<< >>, 0, db) /\ 0 \in 0 .. Len(<< >>)
        BY DEF Replays, Newer
    <2>4. \E p \in 0 .. Len(hist') : Replays(hist', p, db') /\ Newer(hist', p, db')
        BY <2>1, <2>3
    <2> QED
        BY <2>1, <2>2, <2>4 DEF Ahead, Fresh
<1>4. CASE SessionEnd
    <2>1. /\ hist' = hist /\ db' = db /\ cursor' = cursor /\ reconciled' = reconciled
          /\ lock' = lock /\ UNCHANGED caller
        BY <1>4 DEF SessionEnd, store
    <2> QED
        BY <2>1, AheadKept DEF caller
<1>5. CASE SessionStart
    <2>1. /\ hist' = hist /\ db' = db /\ cursor' = cursor /\ reconciled' = reconciled
          /\ lock' = lock /\ UNCHANGED caller
        BY <1>5 DEF SessionStart, store
    <2> QED
        BY <2>1, AheadKept DEF caller
<1>6. CASE Fold
    <2>1. /\ hist' = hist /\ db' = db /\ cursor' = cursor /\ reconciled' = reconciled
          /\ lock' = lock /\ UNCHANGED caller
        BY <1>6 DEF Fold, store
    <2> QED
        BY <2>1, AheadKept DEF caller
<1>7. CASE Assemble
    <2>1. /\ hist' = hist /\ db' = db /\ cursor' = cursor /\ reconciled' = reconciled
          /\ lock' = lock /\ UNCHANGED caller
        BY <1>7 DEF Assemble, store
    <2> QED
        BY <2>1, AheadKept DEF caller
<1>8. CASE Substitute
    <2>1. hist' = pre /\ db' = db /\ cursor' = Len(pre) /\ lock' = lock /\ Len(pre) \in Nat
        BY <1>8 DEF Substitute, store, IngestTypeOK
    <2>2. \A c \in Callers : lock # c
        BY <1>8 DEF Substitute, Located
    <2>3. Newer(pre, Len(pre), db) /\ Cursor' = Len(pre) /\ cursor' # Unset
        BY <2>1 DEF Newer, Cursor, Unset
    <2> QED
        BY <2>1, <2>2, <2>3 DEF Ahead, Fresh
<1>9. ASSUME NEW c \in Callers, Call(c) PROVE Ahead'
    <2>1. /\ hist' = hist /\ db' = db /\ cursor' = cursor /\ reconciled' = reconciled
          /\ lock' = lock
        BY <1>9 DEF Call, store
    <2>2. /\ \A d \in Callers \ {c} : pc'[d] = pc[d] /\ snap'[d] = snap[d]
          /\ found' = found /\ idx' = idx /\ got' = got
          /\ snap'[c] = hist /\ pc'[c] \in {"read", "check"}
        BY <1>9 DEF Call, IngestTypeOK
    <2>3. Settled' = Settled /\ Cursor' = Cursor
        BY <2>1, <2>2 DEF Settled, Cursor
    <2>4. Newer(hist, Len(hist), db)
        BY <1>0 DEF Newer
    <2>5. ASSUME cursor' = Unset, Settled', NEW d \in Callers
          PROVE  /\ pc'[d] \in {"read", "write"} => Newer(hist', Len(snap'[d]), db')
                 /\ pc'[d] = "write" => found'[d] = ReplayCursor(snap'[d], db')
        <3>1. CASE d = c
            BY <2>1, <2>2, <2>4, <3>1
        <3>2. CASE d # c
            BY <2>1, <2>2, <2>3, <2>5, <3>2 DEF Ahead, Fresh
        <3> QED
            BY <3>1, <3>2
    <2> QED
        BY <2>1, <2>2, <2>3, <2>5 DEF Ahead, Fresh
<1>10. ASSUME NEW c \in Callers, ReconcileRead(c) PROVE Ahead'
    <2>1. /\ hist' = hist /\ db' = db /\ cursor' = cursor /\ reconciled' = reconciled
          /\ lock' = lock
        BY <1>10 DEF ReconcileRead, store
    <2>2. /\ \A d \in Callers \ {c} : pc'[d] = pc[d] /\ found'[d] = found[d]
          /\ snap' = snap /\ idx' = idx /\ got' = got /\ pc[c] = "read"
          /\ cursor = Unset => found'[c] = ReplayCursor(snap[c], db)
        BY <1>10 DEF ReconcileRead, IngestTypeOK
    <2>3. Settled' = Settled /\ Cursor' = Cursor
        BY <2>1, <2>2 DEF Settled, Cursor
    <2>5. ASSUME cursor' = Unset, Settled', NEW d \in Callers
          PROVE  /\ pc'[d] \in {"read", "write"} => Newer(hist', Len(snap'[d]), db')
                 /\ pc'[d] = "write" => found'[d] = ReplayCursor(snap'[d], db')
        <3>1. CASE d = c
            BY <2>1, <2>2, <2>3, <2>5, <3>1 DEF Ahead, Fresh
        <3>2. CASE d # c
            BY <2>1, <2>2, <2>3, <2>5, <3>2 DEF Ahead, Fresh
        <3> QED
            BY <3>1, <3>2
    <2> QED
        BY <2>1, <2>2, <2>3, <2>5 DEF Ahead, Fresh
<1>11. ASSUME NEW c \in Callers, ReconcileWrite(c) PROVE Ahead'
    <2>1. /\ hist' = hist /\ db' = db /\ lock' = lock /\ snap' = snap /\ found' = found
          /\ idx' = idx /\ got' = got /\ pc[c] = "write"
          /\ \A d \in Callers : pc'[d] = pc[d] \/ pc'[d] = "check"
        BY <1>11 DEF ReconcileWrite, store, IngestTypeOK
    <2>2. /\ found[c] = Unset => cursor' = cursor
          /\ found[c] # Unset => cursor' = found[c] /\ cursor = Unset
        BY <1>11 DEF ReconcileWrite
    <2>3. Settled' = Settled
        BY <2>1 DEF Settled
    <2>4. ASSUME Settled PROVE Newer(hist, Cursor', db)
        <3>1. CASE cursor # Unset
            BY <2>2, <2>4, <3>1 DEF Ahead, Fresh, Cursor
        <3>2. CASE cursor = Unset
            BY <1>0, <2>1, <2>2, <2>4, <3>2, WalkFresh DEF Fresh, Cursor
        <3> QED
            BY <3>1, <3>2
    <2>5. ASSUME cursor' = Unset, Settled' PROVE cursor = Unset /\ Settled
        BY <2>2, <2>3, <2>5
    <2>6. (reconciled' \/ cursor' # Unset) /\ Settled' => Newer(hist', Cursor', db')
        BY <2>1, <2>3, <2>4
    <2>7. \A d \in Callers : lock' = d => Newer(hist', idx'[d] - 1, db')
        BY <2>1 DEF Ahead, Fresh
    <2>8. ASSUME cursor' = Unset, Settled'
          PROVE  /\ \E p \in 0 .. Len(hist') : Replays(hist', p, db') /\ Newer(hist', p, db')
                 /\ \A d \in Callers :
                       /\ pc'[d] \in {"read", "write"} => Newer(hist', Len(snap'[d]), db')
                       /\ pc'[d] = "write" => found'[d] = ReplayCursor(snap'[d], db')
        BY <2>1, <2>5, <2>8 DEF Ahead, Fresh
    <2> QED
        BY <2>6, <2>7, <2>8 DEF Ahead, Fresh
<1>12. ASSUME NEW c \in Callers, NothingNew(c) PROVE Ahead'
    <2>1. /\ hist' = hist /\ db' = db /\ cursor' = cursor /\ reconciled' = reconciled
          /\ lock' = lock
        BY <1>12 DEF NothingNew, store
    <2>2. lock # c /\ ~got[c]
        BY <1>12 DEF NothingNew, Located
    <2>3. \A d \in Callers \ {c} : /\ pc'[d] = pc[d] /\ snap'[d] = snap[d]
                                   /\ found'[d] = found[d] /\ idx'[d] = idx[d]
                                   /\ got'[d] = got[d]
        BY <1>12 DEF NothingNew, Return, IngestTypeOK
    <2>4. pc'[c] = "idle" /\ ~got'[c]
        BY <1>12 DEF NothingNew, Return, IngestTypeOK
    <2>5. got[c] \in BOOLEAN /\ got'[c] = FALSE
        BY <1>12 DEF NothingNew, Return, IngestTypeOK
    <2> QED
        BY <2>1, <2>2, <2>3, <2>4, <2>5, AheadKept
<1>13. ASSUME NEW c \in Callers, SomethingNew(c) PROVE Ahead'
    <2>1. /\ hist' = hist /\ db' = db /\ cursor' = cursor /\ reconciled' = reconciled
          /\ lock' = lock
        BY <1>13 DEF SomethingNew, store
    <2>2. /\ \A d \in Callers : pc'[d] = pc[d] \/ pc'[d] \notin {"read", "write"}
          /\ snap' = snap /\ found' = found /\ idx' = idx /\ got' = got
        BY <1>13 DEF SomethingNew, IngestTypeOK
    <2> QED
        BY <2>1, <2>2, AheadKept
<1>14. ASSUME NEW c \in Callers, StartBatch(c) PROVE Ahead'
    <2>1. /\ hist' = hist /\ db' = db /\ cursor' = cursor /\ reconciled' = reconciled
          /\ lock = Free /\ lock' = c /\ idx'[c] = Cursor + 1 /\ reconciled
          /\ snap' = snap /\ found' = found /\ got' = got
          /\ \A d \in Callers : pc'[d] = pc[d] \/ pc'[d] = "batch"
        BY <1>14 DEF StartBatch, store, IngestTypeOK, Located
    <2>2. Settled /\ ~got[c]
        BY <2>1, SettledFacts
    <2>3. Cursor' = Cursor /\ idx'[c] - 1 = Cursor
        BY <1>0, <2>1 DEF Cursor
    <2>4. Fresh(Cursor)
        BY <2>1, <2>2 DEF Ahead
    <2>5. cursor = Unset =>
              /\ \E p \in 0 .. Len(hist) : Replays(hist, p, db) /\ Fresh(p)
              /\ \A d \in Callers :
                    /\ pc[d] \in {"read", "write"} => Fresh(Len(snap[d]))
                    /\ pc[d] = "write" => found[d] = ReplayCursor(snap[d], db)
        BY <2>2 DEF Ahead
    <2> QED
        BY <2>1, <2>3, <2>4, <2>5 DEF Ahead, Fresh
<1>15. ASSUME NEW c \in Callers, AlreadyDone(c) PROVE Ahead'
    <2>1. /\ hist' = hist /\ db' = db /\ cursor' = cursor /\ reconciled' = reconciled
          /\ lock' = lock
        BY <1>15 DEF AlreadyDone, store
    <2>2. lock # c /\ ~got[c]
        BY <1>15 DEF AlreadyDone, Located
    <2>3. \A d \in Callers \ {c} : /\ pc'[d] = pc[d] /\ snap'[d] = snap[d]
                                   /\ found'[d] = found[d] /\ idx'[d] = idx[d]
                                   /\ got'[d] = got[d]
        BY <1>15 DEF AlreadyDone, Return, IngestTypeOK
    <2>4. pc'[c] = "idle" /\ ~got'[c]
        BY <1>15 DEF AlreadyDone, Return, IngestTypeOK
    <2>5. got[c] \in BOOLEAN /\ got'[c] = FALSE
        BY <1>15 DEF AlreadyDone, Return, IngestTypeOK
    <2> QED
        BY <2>1, <2>2, <2>3, <2>4, <2>5, AheadKept
<1>16. ASSUME NEW c \in Callers, WriteFile(c) PROVE Ahead'
    <2>1. /\ hist' = hist /\ db' = db /\ cursor' = cursor /\ reconciled' = reconciled
          /\ lock' = lock
        BY <1>16 DEF WriteFile, store
    <2>2. /\ \A d \in Callers : pc'[d] = pc[d] \/ pc'[d] \notin {"read", "write"}
          /\ snap' = snap /\ found' = found /\ idx' = idx /\ got' = got
        BY <1>16 DEF WriteFile, IngestTypeOK
    <2> QED
        BY <2>1, <2>2, AheadKept
<1>17. ASSUME NEW c \in Callers, RecordFile(c) PROVE Ahead'
    <2>1. /\ hist' = hist /\ db' = db /\ cursor' = cursor /\ reconciled' = reconciled
          /\ lock' = lock
        BY <1>17 DEF RecordFile, store
    <2>2. /\ \A d \in Callers : pc'[d] = pc[d] \/ pc'[d] \notin {"read", "write"}
          /\ snap' = snap /\ found' = found /\ idx' = idx /\ got' = got
        BY <1>17 DEF RecordFile, IngestTypeOK
    <2> QED
        BY <2>1, <2>2, AheadKept
<1>18. ASSUME NEW c \in Callers, RecordFails(c) PROVE Ahead'
    <2>1. /\ hist' = hist /\ db' = db /\ cursor' = cursor /\ reconciled' = reconciled
          /\ lock' = lock
        BY <1>18 DEF RecordFails, store
    <2>2. /\ \A d \in Callers : pc'[d] = pc[d] \/ pc'[d] \notin {"read", "write"}
          /\ snap' = snap /\ found' = found /\ idx' = idx /\ got' = got
        BY <1>18 DEF RecordFails, IngestTypeOK
    <2> QED
        BY <2>1, <2>2, AheadKept
<1>19. ASSUME NEW c \in Callers, IngestOne(c) PROVE Ahead'
    <2>1. /\ hist' = hist /\ cursor' = cursor /\ reconciled' = reconciled /\ lock' = lock
          /\ snap' = snap /\ found' = found /\ Cursor' = Cursor
          /\ \A d \in Callers \ {c} : idx'[d] = idx[d]
          /\ idx'[c] = idx[c] + 1
          /\ \A d \in Callers : pc'[d] = pc[d] \/ pc'[d] = "batch"
        BY <1>19 DEF IngestOne, NextMessage, store, IngestTypeOK, Cursor
    <2>2. /\ lock = c /\ InBatch(c) /\ idx[c] \in 1 .. Len(hist) /\ Current(c) = hist[idx[c]]
          /\ idx[c] \in Nat /\ idx[c] - 1 \in Nat /\ idx'[c] - 1 = idx[c]
        BY <1>0, <1>19, <2>1, CurrentFacts, CurrentOfList DEF IngestOne
    <2>3. Newer(hist, idx[c] - 1, db)
        BY <2>2 DEF Ahead, Fresh
    <2>4. Newer(hist, idx[c], db)
        BY <1>0, <2>2, <2>3, NewerLater
    <2>5. CASE db' = db /\ got' = got
        <3>1. Settled' = Settled
            BY <2>1, <2>5 DEF Settled
        <3>2. \A d \in Callers : lock' = d => Newer(hist', idx'[d] - 1, db')
            BY <2>1, <2>2, <2>4, <2>5
        <3>3. (reconciled' \/ cursor' # Unset) /\ Settled' => Newer(hist', Cursor', db')
            BY <2>1, <2>5, <3>1 DEF Ahead, Fresh
        <3>4. ASSUME cursor' = Unset, Settled'
              PROVE  /\ \E p \in 0 .. Len(hist') : Replays(hist', p, db') /\ Newer(hist', p, db')
                     /\ \A d \in Callers :
                           /\ pc'[d] \in {"read", "write"} => Newer(hist', Len(snap'[d]), db')
                           /\ pc'[d] = "write" => found'[d] = ReplayCursor(snap'[d], db')
            BY <2>1, <2>5, <3>1, <3>4 DEF Ahead, Fresh
        <3> QED
            BY <3>2, <3>3, <3>4 DEF Ahead, Fresh
    <2>6. CASE db' = Append(db, AfterGuard(c)) /\ got' = [got EXCEPT ![c] = TRUE]
        <3> DEFINE m == AfterGuard(c)
        <3>1. m \in Msgs /\ m.id = hist[idx[c]].id
            BY <2>2, CurrentFacts
        <3> HIDE DEF m
        <3>2. /\ Len(db') = Len(db) + 1 /\ Len(db) \in Nat
              /\ db'[Len(db) + 1] = m
              /\ \A i \in 1 .. Len(db) : db'[i] = db[i]
            BY <1>0, <2>6, <3>1 DEF m
        <3>3. ~Settled'
            BY <2>1, <2>2, <2>6, FreeAssumption DEF Settled, IngestTypeOK
        <3>4. ASSUME NEW j \in idx[c] + 1 .. Len(hist), Persistable(hist[j])
              PROVE  hist[j].id > 0 /\ \A i \in 1 .. Len(db') : db'[i].id < hist[j].id
            <4>1. hist[j].id > 0 /\ \A i \in 1 .. Len(db) : db[i].id < hist[j].id
                BY <2>4, <3>4 DEF Newer
            <4>2. idx[c] \in 1 .. j - 1 /\ j \in 1 .. Len(hist)
                BY <1>0, <2>2
            <4>3. m.id < hist[j].id
                BY <1>0, <3>1, <4>2 DEF Lined, Rising
            <4>4. \A i \in 1 .. Len(db') : i \in 1 .. Len(db) \/ i = Len(db) + 1
                BY <3>2
            <4> QED
                BY <3>2, <4>1, <4>3, <4>4
        <3>5. Newer(hist, idx[c], db')
            BY <3>4 DEF Newer
        <3>6. \A d \in Callers : lock' = d => Newer(hist', idx'[d] - 1, db')
            BY <2>1, <2>2, <3>5
        <3> QED
            BY <3>3, <3>6 DEF Ahead, Fresh
    <2> QED
        BY <1>19, <2>5, <2>6 DEF IngestOne
<1>20. ASSUME NEW c \in Callers, IngestFails(c) PROVE Ahead'
    <2>1. /\ hist' = hist /\ cursor' = cursor /\ reconciled' = reconciled /\ lock' = lock
          /\ snap' = snap /\ found' = found /\ Cursor' = Cursor
          /\ \A d \in Callers \ {c} : idx'[d] = idx[d]
          /\ idx'[c] = idx[c] + 1
          /\ \A d \in Callers : pc'[d] = pc[d] \/ pc'[d] = "batch"
        BY <1>20 DEF IngestFails, NextMessage, store, IngestTypeOK, Cursor
    <2>2. /\ lock = c /\ InBatch(c) /\ idx[c] \in 1 .. Len(hist) /\ Current(c) = hist[idx[c]]
          /\ idx[c] \in Nat /\ idx[c] - 1 \in Nat /\ idx'[c] - 1 = idx[c]
        BY <1>0, <1>20, <2>1, CurrentFacts, CurrentOfList DEF IngestFails
    <2>3. Newer(hist, idx[c] - 1, db)
        BY <2>2 DEF Ahead, Fresh
    <2>4. Newer(hist, idx[c], db)
        BY <1>0, <2>2, <2>3, NewerLater
    <2>5. CASE db' = db /\ got' = got
        <3>1. Settled' = Settled
            BY <2>1, <2>5 DEF Settled
        <3>2. \A d \in Callers : lock' = d => Newer(hist', idx'[d] - 1, db')
            BY <2>1, <2>2, <2>4, <2>5
        <3>3. (reconciled' \/ cursor' # Unset) /\ Settled' => Newer(hist', Cursor', db')
            BY <2>1, <2>5, <3>1 DEF Ahead, Fresh
        <3>4. ASSUME cursor' = Unset, Settled'
              PROVE  /\ \E p \in 0 .. Len(hist') : Replays(hist', p, db') /\ Newer(hist', p, db')
                     /\ \A d \in Callers :
                           /\ pc'[d] \in {"read", "write"} => Newer(hist', Len(snap'[d]), db')
                           /\ pc'[d] = "write" => found'[d] = ReplayCursor(snap'[d], db')
            BY <2>1, <2>5, <3>1, <3>4 DEF Ahead, Fresh
        <3> QED
            BY <3>2, <3>3, <3>4 DEF Ahead, Fresh
    <2> QED
        BY <1>20, <2>5 DEF IngestFails, store
<1>21. ASSUME NEW c \in Callers, FinishBatch(c) PROVE Ahead'
    <2>1. /\ hist' = hist /\ db' = db /\ reconciled' = reconciled /\ lock' = Free
          /\ cursor' = (IF got[c] THEN Len(snap[c]) ELSE cursor)
          /\ pc[c] = "batch" /\ idx[c] > Len(snap[c])
          /\ \A d \in Callers : pc'[d] = "idle" \/ (/\ pc'[d] = pc[d] /\ snap'[d] = snap[d]
                                                    /\ found'[d] = found[d])
        BY <1>21 DEF FinishBatch, Return, store, IngestTypeOK
    <2>2. /\ lock = c /\ reconciled /\ idx[c] \in 1 .. Len(snap[c]) + 1
          /\ Len(snap[c]) \in Nat
        BY <2>1 DEF Located, IngestTypeOK
    <2>3. idx[c] - 1 = Len(snap[c])
        BY <2>1, <2>2
    <2>4. Newer(hist, Len(snap[c]), db)
        BY <2>2, <2>3 DEF Ahead, Fresh
    <2>5. Settled <=> ~got[c]
        BY <2>2, SettledFacts
    <2>6. Newer(hist, Cursor', db)
        <3>1. CASE got[c]
            <4>1. Cursor' = Len(snap[c])
                BY <2>1, <2>2, <3>1 DEF Cursor, Unset
            <4> QED
                BY <2>4, <4>1
        <3>2. CASE ~got[c]
            <4>1. Cursor' = Cursor
                BY <2>1, <3>2 DEF Cursor
            <4> QED
                BY <2>2, <2>5, <3>2, <4>1 DEF Ahead, Fresh
        <3> QED
            BY <3>1, <3>2
    <2>7. cursor' = Unset => cursor = Unset /\ Settled
        BY <2>1, <2>2, <2>5 DEF Unset
    <2>8. ASSUME cursor' = Unset
          PROVE  /\ \E p \in 0 .. Len(hist') : Replays(hist', p, db') /\ Newer(hist', p, db')
                 /\ \A d \in Callers :
                       /\ pc'[d] \in {"read", "write"} => Newer(hist', Len(snap'[d]), db')
                       /\ pc'[d] = "write" => found'[d] = ReplayCursor(snap'[d], db')
        BY <2>1, <2>7, <2>8 DEF Ahead, Fresh
    <2> QED
        BY <2>1, <2>6, <2>8, FreeAssumption DEF Ahead, Fresh
<1>22. CASE UNCHANGED ingestVars
    <2>1. /\ hist' = hist /\ db' = db /\ cursor' = cursor /\ reconciled' = reconciled
          /\ lock' = lock /\ UNCHANGED caller
        BY <1>22 DEF ingestVars, store
    <2> QED
        BY <2>1, AheadKept DEF caller
<1> QED
    BY <1>1, <1>2, <1>3, <1>4, <1>5, <1>6, <1>7, <1>8, <1>9, <1>10, <1>11, <1>12, <1>13, <1>14, <1>15, <1>16, <1>17, <1>18, <1>19, <1>20, <1>21, <1>22 DEF IngestNext, CallerStep
-----------------------------------------------------------------------------
(***************************************************************************)
(* What lies behind the cursor.                                            *)
(***************************************************************************)

\* A step that leaves list and rows alone and moves no cursor.
LEMMA HonestKept ==
    ASSUME NEW n, Honest(n), hist' = hist, db' = db, pre' = pre, Cursor' = Cursor, lock' = lock,
           \A c \in Callers : /\ lock = c => idx'[c] = idx[c]
                              /\ pc'[c] = "write" => pc[c] = "write" /\ found'[c] = found[c]
    PROVE  Honest(n)'
<1>1. Covered(hist', Cursor', db', n)
    BY DEF Honest
<1>2. \A c \in Callers : /\ lock' = c => Covered(hist', idx'[c] - 1, db', n)
                         /\ pc'[c] = "write" => Covered(hist', found'[c], db', n)
    BY DEF Honest
<1> QED
    BY <1>1, <1>2 DEF Honest, Stored

\* Rows that are added take nothing away, and a list begun anew claims less.
LEMMA CoveredMore ==
    ASSUME NEW s \in Seq(Msgs), NEW t \in Seq(Msgs), Len(s) <= Len(t),
           \A i \in 1 .. Len(s) : t[i] = s[i], NEW m \in Nat, NEW n \in Nat, m <= n
    PROVE  /\ \A h, p : Covered(h, p, s, m) => Covered(h, p, t, n)
           /\ \A x : (\E i \in 1 .. Len(s) : s[i].id = x) => \E i \in 1 .. Len(t) : t[i].id = x
<1>1. \A i \in 1 .. Len(s) : i \in 1 .. Len(t)
    OBVIOUS
<1>2. ASSUME NEW x, \E i \in 1 .. Len(s) : s[i].id = x
      PROVE  \E i \in 1 .. Len(t) : t[i].id = x
    BY <1>1, <1>2
<1>3. ASSUME NEW h, NEW i \in 1 .. Len(h), i \in Nat, Persistable(h[i]), Passed(h, i, s, m)
      PROVE  Passed(h, i, t, n)
    <2>1. CASE \E k \in 1 .. Len(s) : s[k].id = h[i].id
        BY <1>2, <2>1 DEF Passed
    <2>2. CASE /\ m > 0
               /\ Kept(h, i) <= Len(s)
               /\ Identity(s[Kept(h, i)]) = Identity(h[i])
        <3>1. i \in 1 .. i
            BY <1>3
        <3>2. Kept(h, i) \in Nat /\ Kept(h, i) # 0
            BY <1>3, <3>1, KeptNat
        <3>3. Kept(h, i) \in 1 .. Len(s)
            BY <2>2, <3>2
        <3>4. t[Kept(h, i)] = s[Kept(h, i)] /\ Kept(h, i) <= Len(t) /\ n > 0
            BY <2>2, <3>3
        <3> QED
            BY <2>2, <3>4 DEF Passed
    <2> QED
        BY <1>3, <2>1, <2>2 DEF Passed
<1>4. ASSUME NEW h, NEW p, Covered(h, p, s, m) PROVE Covered(h, p, t, n)
    <2>1. \A i \in 1 .. Len(h) : i \in Nat
        OBVIOUS
    <2> QED
        BY <1>3, <1>4, <2>1 DEF Covered
<1> QED
    BY <1>2, <1>4

\* In a list that was not begun anew, a message in whose place there is a row has a
\* row: otherwise the rows would all be of messages before it, of which there are
\* fewer.
LEMMA PlacedStored ==
    ASSUME IngestTypeOK, Lined, Genuine, Relistings = 0,
           NEW i \in 1 .. Len(hist), Persistable(hist[i]), Kept(hist, i) <= Len(db)
    PROVE  \E k \in 1 .. Len(db) : db[k].id = hist[i].id
<1> SUFFICES ASSUME ~\E k \in 1 .. Len(db) : db[k].id = hist[i].id PROVE FALSE
    OBVIOUS
<1>1. /\ hist \in Seq(Msgs) /\ db \in Seq(Msgs) /\ Len(hist) \in Nat /\ Len(db) \in Nat
      /\ i \in Nat \ {0} /\ i - 1 \in Nat
    BY DEF IngestTypeOK
<1>2. \A j \in 1 .. Len(hist) : hist[j].id \in Nat
    BY EverywhereMsgs DEF Msgs
<1>3. \A k \in 1 .. Len(db) : db[k].id \in Nat /\ db[k].id < hist[i].id
    <2>1. \A k \in 1 .. Len(db) : db[k].id \in Nat
        BY EverywhereMsgs DEF Msgs
    <2>2. \A k \in 1 .. Len(db) : ~(hist[i].id <= db[k].id)
        BY DEF Genuine
    <2>3. hist[i].id \in Nat
        BY <1>2
    <2> QED
        BY <2>1, <2>2, <2>3
<1> DEFINE T == {j \in 1 .. i - 1 : Persistable(hist[j])}
<1>4. ASSUME NEW k \in 1 .. Len(db) PROVE \E j \in T : hist[j].id = db[k].id
    <2>1. PICK j \in 1 .. Len(hist) : Persistable(hist[j]) /\ hist[j].id = db[k].id
        BY DEF Genuine
    <2>2. j # i /\ ~(i < j)
        <3>1. i < j => hist[i].id < hist[j].id
            BY <1>1 DEF Lined, Rising
        <3> QED
            BY <1>2, <1>3, <2>1, <3>1
    <2>3. j \in T
        BY <1>1, <2>1, <2>2
    <2> QED
        BY <2>1, <2>3
<1> DEFINE f == [k \in 1 .. Len(db) |-> CHOOSE j \in T : hist[j].id = db[k].id]
<1>5. \A k \in 1 .. Len(db) : f[k] \in T /\ hist[f[k]].id = db[k].id
    BY <1>4
<1>6. f \in [1 .. Len(db) -> T]
    BY <1>5
<1>7. IsFiniteSet(T) /\ Cardinality(T) = Kept(hist, i - 1) /\ Cardinality(T) \in Nat
    BY <1>1, KeptNat DEF Kept
<1>8. Kept(hist, i) = Kept(hist, i - 1) + 1
    BY <1>1, KeptStep
<1>9. IsFiniteSet(1 .. Len(db)) /\ Cardinality(1 .. Len(db)) = Len(db)
    <2>1. PICK n \in Nat : n = Len(db)
        BY <1>1
    <2>2. 1 \in Int /\ n \in Int
        OBVIOUS
    <2>3. IsFiniteSet(1 .. n) /\ Cardinality(1 .. n) = IF 1 > n THEN 0 ELSE n - 1 + 1
        BY <2>2, FS_Interval, Zenon
    <2>4. (IF 1 > n THEN 0 ELSE n - 1 + 1) = n
        OBVIOUS
    <2> QED
        BY <2>1, <2>3, <2>4
<1> HIDE DEF f, T
<1>10. Cardinality(T) < Cardinality(1 .. Len(db))
    BY <1>1, <1>7, <1>8, <1>9
<1>11. PICK x, y \in 1 .. Len(db) : x # y /\ f[x] = f[y]
    BY <1>6, <1>7, <1>9, <1>10, FS_PigeonHole
<1>12. db[x].id = db[y].id
    BY <1>5, <1>11
<1>13. (x < y => db[x].id < db[y].id) /\ (y < x => db[y].id < db[x].id)
    BY <1>1, <1>11 DEF Lined, Rising
<1> QED
    BY <1>3, <1>11, <1>12, <1>13

\* What the walk has matched is passed.
LEMMA WalkCovers ==
    ASSUME IngestTypeOK, Lined, Genuine, NEW n \in Nat, Relistings = n, NEW c \in Callers
    PROVE  /\ Covered(hist, ReplayCursor(snap[c], db), db, n)
           /\ Covered(hist, Unset, db, n)
<1>1. /\ snap[c] \in Seq(Msgs) /\ db \in Seq(Msgs) /\ hist \in Seq(Msgs)
      /\ Len(snap[c]) \in Nat /\ Len(hist) \in Nat
    BY DEF IngestTypeOK
<1>2. Covered(hist, Unset, db, n)
    BY <1>1 DEF Covered, Unset
<1> DEFINE r == ReplayCursor(snap[c], db)
<1>3. CASE r \in 1 .. Len(snap[c]) /\ Replays(snap[c], r, db)
    <2>1. ASSUME NEW i \in 1 .. Len(hist), i <= r, Persistable(hist[i])
          PROVE  Passed(hist, i, db, n)
        <3>1. i \in 1 .. r /\ i \in 1 .. Len(snap[c]) /\ i \in Nat /\ i \in 0 .. i
            BY <1>1, <1>3, <2>1
        <3>2. snap[c][i] = hist[i] /\ \A j \in 1 .. i : snap[c][j] = hist[j]
            BY <1>1, <3>1 DEF Lined
        <3>3. Kept(snap[c], i) = Kept(hist, i)
            BY <3>1, <3>2, PrefixAgree
        <3>4. Kept(hist, i) <= Len(db) /\ Identity(db[Kept(hist, i)]) = Identity(hist[i])
            BY <1>3, <2>1, <3>1, <3>2, <3>3 DEF Replays
        <3>5. CASE n > 0
            BY <3>4, <3>5 DEF Passed
        <3>6. CASE n = 0
            BY <2>1, <3>4, <3>6, PlacedStored DEF Passed
        <3> QED
            BY <3>5, <3>6
    <2> QED
        BY <1>2, <2>1 DEF Covered
<1> QED
    BY <1>1, <1>2, <1>3, WalkFacts

\* The list is begun anew or replaced more and more often.
LEMMA RelistingsStep ==
    ASSUME IngestTypeOK, [IngestNext]_ingestVars
    PROVE  /\ Relistings \in Nat /\ Relistings' \in Nat /\ Relistings <= Relistings'
           /\ SessionReset \/ Assemble => Relistings' > 0
           /\ Restart => Relistings' > 0 \/ hist' = hist
<1>1. /\ spent \in [Mishaps -> Nat]
      /\ {"resets", "deltas", "subs"} \subseteq Mishaps
      /\ spent.resets \in Nat /\ spent.deltas \in Nat /\ spent.subs \in Nat
    BY DEF IngestTypeOK, Mishaps
<1>2. ASSUME NEW k \in Mishaps, Mishap(k)
      PROVE  /\ Relistings' \in Nat /\ Relistings <= Relistings'
             /\ k \in {"resets", "deltas", "subs"} => Relistings' > 0
    <2>1. spent' = [spent EXCEPT ![k] = @ + 1]
        BY <1>2 DEF Mishap
    <2>2. \A x \in Mishaps : spent'[x] = IF x = k THEN spent[x] + 1 ELSE spent[x]
        BY <1>1, <2>1
    <2>3. /\ spent'.resets = IF "resets" = k THEN spent.resets + 1 ELSE spent.resets
          /\ spent'.deltas = IF "deltas" = k THEN spent.deltas + 1 ELSE spent.deltas
          /\ spent'.subs = IF "subs" = k THEN spent.subs + 1 ELSE spent.subs
        BY <1>1, <2>2
    <2> QED
        BY <1>1, <2>3 DEF Relistings
<1>3. spent' = spent \/ \E k \in Mishaps : Mishap(k)
    BY DEF IngestNext, CallerStep, NewMessage, Restart, SessionReset, SessionEnd,
           SessionStart, Call, ReconcileRead, ReconcileWrite, NothingNew, SomethingNew,
           StartBatch, AlreadyDone, WriteFile, RecordFile, RecordFails, IngestOne, IngestFails,
           FinishBatch, Fold, Assemble, Substitute, ingestVars, Mishaps
<1>4. SessionReset \/ Assemble => Relistings' > 0
    BY <1>1, <1>2 DEF SessionReset, Assemble
<1>5. Restart => Relistings' > 0 \/ hist' = hist
    BY <1>1, <1>2 DEF Restart
<1>6. Relistings \in Nat /\ (spent' = spent => Relistings' = Relistings)
    BY <1>1 DEF Relistings
<1> QED
    BY <1>2, <1>3, <1>4, <1>5, <1>6

\* What is passed stays passed when the list is begun anew.
LEMMA HonestMore ==
    ASSUME IngestTypeOK', NEW m \in Nat, NEW n \in Nat, m <= n, Honest(m)'
    PROVE  Honest(n)'
<1>1. db' \in Seq(Msgs) /\ Len(db') <= Len(db')
    BY DEF IngestTypeOK
<1>2. \A h, p : Covered(h, p, db', m) => Covered(h, p, db', n)
    BY <1>1, CoveredMore
<1> QED
    BY <1>2 DEF Honest

\* Every step that neither sets adrift nor loses a transaction keeps the cursors
\* behind the rows.
LEMMA HonestStep ==
    ASSUME IngestTypeOK, Located, Ordered, Genuine, NEW n \in Nat, Relistings = n, Honest(n),
           [IngestNext]_ingestVars, ~adrift', \A c \in Callers : ~IngestFails(c)
    PROVE  Honest(n)'
<1>0. /\ Lined
      /\ hist \in Seq(Msgs) /\ db \in Seq(Msgs) /\ Cursor \in Nat /\ Len(hist) \in Nat
    <2>1. Lined
        BY DEF Ordered, Lined
    <2>2. hist \in Seq(Msgs) /\ db \in Seq(Msgs) /\ Len(hist) \in Nat
        BY DEF IngestTypeOK
    <2> QED
        BY <2>1, <2>2, SettledFacts
<1>1. ASSUME NEW k \in UNION Range(Turns), NewMessage(k) PROVE Honest(n)'
    <2> DEFINE m == [id |-> made + 1, text |-> k.text, kind |-> k.kind, file |-> NoFile]
    <2>1. hist' = Append(hist, m) /\ db' = db /\ pre' = pre /\ Cursor' = Cursor
        BY <1>1 DEF NewMessage, store, Cursor
    <2>2. lock' = lock /\ pc' = pc /\ idx' = idx /\ found' = found
        BY <1>1 DEF NewMessage, caller
    <2> HIDE DEF m
    <2>3. Len(hist') = Len(hist) + 1 /\ \A i \in 1 .. Len(hist) : hist'[i] = hist[i]
        BY <1>0, <2>1
    <2>4. ASSUME NEW p \in Int, p <= Len(hist), Covered(hist, p, db, n)
          PROVE  Covered(hist', p, db, n)
        <3>1. \A i \in 1 .. Len(hist') : i <= p => i \in 1 .. Len(hist)
            BY <1>0, <2>3, <2>4
        <3>2. ASSUME NEW i \in 1 .. Len(hist), Passed(hist, i, db, n)
              PROVE  Passed(hist', i, db, n)
            <4>1. /\ i \in Nat /\ i \in 0 .. i /\ hist'[i] = hist[i]
                  /\ \A j \in 1 .. i : hist'[j] = hist[j]
                BY <1>0, <2>3
            <4>2. Kept(hist', i) = Kept(hist, i)
                BY <4>1, PrefixAgree
            <4> QED
                BY <3>2, <4>1, <4>2 DEF Passed
        <3> QED
            BY <2>3, <2>4, <3>1, <3>2 DEF Covered
    <2>5. Covered(hist', Cursor', db', n)
        BY <1>0, <2>1, <2>4 DEF Honest, Lined
    <2>6. ASSUME NEW c \in Callers, lock = c PROVE Covered(hist', idx[c] - 1, db', n)
        <3>1. idx[c] - 1 \in Int /\ idx[c] - 1 <= Len(snap[c]) /\ Len(snap[c]) \in Nat
            BY <2>6 DEF Located, IngestTypeOK
        <3>2. idx[c] - 1 <= Len(hist)
            BY <1>0, <3>1 DEF Lined
        <3> QED
            BY <2>1, <2>4, <2>6, <3>1, <3>2 DEF Honest
    <2>7. ASSUME NEW c \in Callers, pc[c] = "write" PROVE Covered(hist', found[c], db', n)
        <3>1. found[c] \in Int /\ found[c] <= Len(snap[c]) /\ Len(snap[c]) \in Nat
            BY <2>7 DEF Located, IngestTypeOK, Unset
        <3>2. found[c] <= Len(hist)
            BY <1>0, <3>1 DEF Lined
        <3> QED
            BY <2>1, <2>4, <2>7, <3>1, <3>2 DEF Honest
    <2> QED
        BY <2>1, <2>2, <2>5, <2>6, <2>7 DEF Honest, Stored
<1>2. CASE Restart
    <2>1. /\ hist' = hist \/ hist' = << >>
          /\ db' = db /\ pre' = << >> /\ cursor' = Unset /\ lock' = Free
        BY <1>2 DEF Restart, NoList, store
    <2>2. \A c \in Callers : pc'[c] = "idle"
        BY <1>2 DEF Restart
    <2>3. Cursor' = 0 /\ Covered(hist', 0, db, n)
        BY <1>0, <2>1 DEF Cursor, Covered
    <2> QED
        BY <2>1, <2>2, <2>3, FreeAssumption DEF Honest
<1>3. CASE SessionReset
    <2>1. /\ hist' = << >> /\ db' = db /\ pre' = pre /\ cursor' = Unset /\ lock' = lock
          /\ pc' = pc
        BY <1>3 DEF SessionReset, store, caller
    <2>2. \A c \in Callers : pc[c] = "idle" /\ lock # c
        BY <1>3 DEF SessionReset, BetweenTurns, Located
    <2>3. \A p : Covered(<< >>, p, db, n)
        BY DEF Covered
    <2> QED
        BY <2>1, <2>2, <2>3 DEF Honest, Stored
<1>4. CASE SessionEnd
    <2>1. /\ hist' = hist /\ db' = db /\ pre' = pre /\ Cursor' = Cursor
          /\ lock' = lock /\ UNCHANGED caller
        BY <1>4 DEF SessionEnd, store, Cursor
    <2> QED
        BY <2>1, HonestKept DEF caller
<1>5. CASE SessionStart
    <2>1. /\ hist' = hist /\ db' = db /\ pre' = pre /\ Cursor' = Cursor
          /\ lock' = lock /\ UNCHANGED caller
        BY <1>5 DEF SessionStart, store, Cursor
    <2> QED
        BY <2>1, HonestKept DEF caller
<1>6. CASE Fold
    <2>1. /\ hist' = hist /\ db' = db /\ pre' = pre /\ Cursor' = Cursor
          /\ lock' = lock /\ UNCHANGED caller
        BY <1>6 DEF Fold, store, Cursor
    <2> QED
        BY <2>1, HonestKept DEF caller
<1>7. CASE Assemble
    <2>1. /\ hist' = hist /\ db' = db /\ pre' = Assembled /\ Cursor' = Cursor
          /\ lock' = lock /\ UNCHANGED caller
        BY <1>7 DEF Assemble, AssembleWithSignal, store, Cursor
    <2>2. ASSUME NEW i \in 1 .. Len(Assembled), Assembled[i] # Gist PROVE Stored(Assembled[i])
        <3>1. folded \in Nat /\ Assembled \in Seq(Msgs) /\ Len(db) \in Nat
            <4>1. folded \in Nat /\ Len(db) \in Nat
                BY DEF IngestTypeOK
            <4> QED
                BY <4>1, AssembledFacts
        <3>2. CASE folded = 0
            BY <3>2, AssembledFacts DEF Stored
        <3>3. CASE folded > 0
            <4>1. i \in 2 .. Len(Assembled) /\ folded + i - 1 \in 1 .. Len(db)
                BY <2>2, <3>1, <3>3, AssembledFacts
            <4>2. Assembled[i] = db[folded + i - 1]
                BY <3>3, <4>1, AssembledFacts
            <4> QED
                BY <4>1, <4>2 DEF Stored
        <3> QED
            BY <3>1, <3>2, <3>3
    <2> QED
        BY <2>1, <2>2 DEF Honest, Stored, caller
<1>8. CASE Substitute
    <2>1. /\ hist' = pre /\ db' = db /\ pre' = << >> /\ lock' = lock /\ pc' = pc
        BY <1>8 DEF Substitute, NoList, store, caller
    <2>2. \A c \in Callers : pc[c] = "idle" /\ lock # c
        BY <1>8 DEF Substitute, Located
    <2>3. Covered(pre, Cursor', db, n)
        BY DEF Honest, Covered, Stored, Passed
    <2> QED
        BY <2>1, <2>2, <2>3 DEF Honest
<1>9. ASSUME NEW c \in Callers, Call(c) PROVE Honest(n)'
    <2>1. hist' = hist /\ db' = db /\ pre' = pre /\ Cursor' = Cursor /\ lock' = lock
        BY <1>9 DEF Call, store, Cursor
    <2>2. /\ \A d \in Callers : pc'[d] = pc[d] \/ pc'[d] # "write"
          /\ found' = found /\ idx' = idx
        BY <1>9 DEF Call, IngestTypeOK
    <2> QED
        BY <2>1, <2>2, HonestKept
<1>10. ASSUME NEW c \in Callers, ReconcileRead(c) PROVE Honest(n)'
    <2>1. hist' = hist /\ db' = db /\ pre' = pre /\ Cursor' = Cursor /\ lock' = lock
        BY <1>10 DEF ReconcileRead, store, Cursor
    <2>2. /\ \A d \in Callers \ {c} : pc'[d] = pc[d] /\ found'[d] = found[d]
          /\ idx' = idx /\ found'[c] \in {Unset, ReplayCursor(snap[c], db)}
        BY <1>10 DEF ReconcileRead, IngestTypeOK
    <2>3. Covered(hist, found'[c], db, n)
        BY <1>0, <2>2, WalkCovers
    <2> QED
        BY <2>1, <2>2, <2>3 DEF Honest, Stored
<1>11. ASSUME NEW c \in Callers, ReconcileWrite(c) PROVE Honest(n)'
    <2>1. /\ hist' = hist /\ db' = db /\ pre' = pre /\ lock' = lock /\ found' = found
          /\ idx' = idx /\ pc[c] = "write"
          /\ \A d \in Callers : pc'[d] = pc[d] \/ pc'[d] = "check"
        BY <1>11 DEF ReconcileWrite, store, IngestTypeOK
    <2>2. Cursor' = Cursor \/ Cursor' = found[c]
        BY <1>11 DEF ReconcileWrite, Cursor
    <2>3. Covered(hist, Cursor', db, n)
        BY <2>1, <2>2 DEF Honest
    <2> QED
        BY <2>1, <2>3 DEF Honest, Stored
<1>12. ASSUME NEW c \in Callers, NothingNew(c) PROVE Honest(n)'
    <2>1. hist' = hist /\ db' = db /\ pre' = pre /\ Cursor' = Cursor /\ lock' = lock
        BY <1>12 DEF NothingNew, store, Cursor
    <2>2. lock # c
        BY <1>12 DEF NothingNew, Located
    <2>3. \A d \in Callers : \/ pc'[d] = pc[d] /\ found'[d] = found[d] /\ idx'[d] = idx[d]
                             \/ d = c /\ pc'[d] = "idle"
        BY <1>12 DEF NothingNew, Return, IngestTypeOK
    <2> QED
        BY <2>1, <2>2, <2>3, HonestKept
<1>13. ASSUME NEW c \in Callers, SomethingNew(c) PROVE Honest(n)'
    <2>1. hist' = hist /\ db' = db /\ pre' = pre /\ Cursor' = Cursor /\ lock' = lock
        BY <1>13 DEF SomethingNew, store, Cursor
    <2>2. /\ \A d \in Callers : pc'[d] = pc[d] \/ pc'[d] # "write"
          /\ found' = found /\ idx' = idx
        BY <1>13 DEF SomethingNew, IngestTypeOK
    <2> QED
        BY <2>1, <2>2, HonestKept
<1>14. ASSUME NEW c \in Callers, StartBatch(c) PROVE Honest(n)'
    <2>1. /\ hist' = hist /\ db' = db /\ pre' = pre /\ Cursor' = Cursor
          /\ lock' = c /\ idx'[c] - 1 = Cursor /\ found' = found
          /\ \A d \in Callers : pc'[d] = pc[d] \/ pc'[d] = "batch"
        BY <1>0, <1>14 DEF StartBatch, store, IngestTypeOK, Cursor
    <2> QED
        BY <2>1 DEF Honest, Stored
<1>15. ASSUME NEW c \in Callers, AlreadyDone(c) PROVE Honest(n)'
    <2>1. hist' = hist /\ db' = db /\ pre' = pre /\ Cursor' = Cursor /\ lock' = lock
        BY <1>15 DEF AlreadyDone, store, Cursor
    <2>2. lock # c
        BY <1>15 DEF AlreadyDone, Located
    <2>3. \A d \in Callers : \/ pc'[d] = pc[d] /\ found'[d] = found[d] /\ idx'[d] = idx[d]
                             \/ d = c /\ pc'[d] = "idle"
        BY <1>15 DEF AlreadyDone, Return, IngestTypeOK
    <2> QED
        BY <2>1, <2>2, <2>3, HonestKept
<1>16. ASSUME NEW c \in Callers, WriteFile(c) PROVE Honest(n)'
    <2>1. hist' = hist /\ db' = db /\ pre' = pre /\ Cursor' = Cursor /\ lock' = lock
        BY <1>16 DEF WriteFile, store, Cursor
    <2>2. /\ \A d \in Callers : pc'[d] = pc[d] \/ pc'[d] # "write"
          /\ found' = found /\ idx' = idx
        BY <1>16 DEF WriteFile, IngestTypeOK
    <2> QED
        BY <2>1, <2>2, HonestKept
<1>17. ASSUME NEW c \in Callers, RecordFile(c) PROVE Honest(n)'
    <2>1. hist' = hist /\ db' = db /\ pre' = pre /\ Cursor' = Cursor /\ lock' = lock
        BY <1>17 DEF RecordFile, store, Cursor
    <2>2. /\ \A d \in Callers : pc'[d] = pc[d] \/ pc'[d] # "write"
          /\ found' = found /\ idx' = idx
        BY <1>17 DEF RecordFile, IngestTypeOK
    <2> QED
        BY <2>1, <2>2, HonestKept
<1>18. ASSUME NEW c \in Callers, RecordFails(c) PROVE Honest(n)'
    <2>1. hist' = hist /\ db' = db /\ pre' = pre /\ Cursor' = Cursor /\ lock' = lock
        BY <1>18 DEF RecordFails, store, Cursor
    <2>2. /\ \A d \in Callers : pc'[d] = pc[d] \/ pc'[d] # "write"
          /\ found' = found /\ idx' = idx
        BY <1>18 DEF RecordFails, IngestTypeOK
    <2> QED
        BY <2>1, <2>2, HonestKept
<1>19. ASSUME NEW c \in Callers, IngestOne(c) PROVE Honest(n)'
    <2>1. /\ hist' = hist /\ pre' = pre /\ lock' = lock
          /\ found' = found /\ Cursor' = Cursor /\ idx'[c] = idx[c] + 1
          /\ \A d \in Callers : pc'[d] = pc[d] \/ pc'[d] = "batch"
        BY <1>19 DEF IngestOne, NextMessage, IngestTypeOK, Cursor
    <2>2. /\ lock = c /\ InBatch(c) /\ idx[c] \in 1 .. Len(hist) /\ Current(c) = hist[idx[c]]
          /\ idx'[c] - 1 = idx[c] /\ AfterGuard(c) \in Msgs /\ AfterGuard(c).id = Current(c).id
        BY <1>0, <1>19, <2>1, CurrentFacts, CurrentOfList DEF IngestOne
    <2>3. Covered(hist, idx[c] - 1, db, n)
        BY <2>2 DEF Honest
    <2>4. \A i \in 1 .. Len(hist) : i <= idx[c] => i <= idx[c] - 1 \/ i = idx[c]
        BY <2>2
    <2>5. CASE ~Persistable(Current(c)) /\ db' = db
        <3>1. Covered(hist, idx[c], db, n)
            BY <2>2, <2>3, <2>4, <2>5 DEF Covered
        <3>2. \A d \in Callers : lock' = d => Covered(hist', idx'[d] - 1, db', n)
            BY <2>1, <2>2, <2>5, <3>1
        <3> QED
            BY <2>1, <2>5, <3>2 DEF Honest, Stored
    <2>6. CASE db' = Append(db, AfterGuard(c))
        <3>1. /\ db' \in Seq(Msgs) /\ Len(db') = Len(db) + 1 /\ Len(db) \in Nat
              /\ db'[Len(db) + 1] = AfterGuard(c)
              /\ \A i \in 1 .. Len(db) : db'[i] = db[i]
            BY <1>0, <2>2, <2>6
        <3>2. /\ \A h, p : Covered(h, p, db, n) => Covered(h, p, db', n)
              /\ \A x : (\E i \in 1 .. Len(db) : db[i].id = x) => \E i \in 1 .. Len(db') : db'[i].id = x
            <4>1. /\ db \in Seq(Msgs) /\ db' \in Seq(Msgs) /\ Len(db) <= Len(db')
                  /\ \A i \in 1 .. Len(db) : db'[i] = db[i]
                  /\ n \in Nat /\ n <= n
                BY <1>0, <3>1
            <4>2. PICK s, t : s = db /\ t = db'
                OBVIOUS
            <4>3. /\ s \in Seq(Msgs) /\ t \in Seq(Msgs) /\ Len(s) <= Len(t)
                  /\ \A i \in 1 .. Len(s) : t[i] = s[i]
                BY <4>1, <4>2
            <4>4. /\ \A h, p : Covered(h, p, s, n) => Covered(h, p, t, n)
                  /\ \A x : (\E i \in 1 .. Len(s) : s[i].id = x)
                               => \E i \in 1 .. Len(t) : t[i].id = x
                BY <4>1, <4>3, CoveredMore
            <4> QED
                BY <4>2, <4>4
        <3>3. \E k \in 1 .. Len(db') : db'[k].id = hist[idx[c]].id
            <4>1. Len(db) + 1 \in 1 .. Len(db')
                BY <3>1
            <4> QED
                BY <2>2, <3>1, <4>1
        <3>4. Covered(hist, idx[c] - 1, db', n)
            BY <2>3, <3>2
        <3>5. Covered(hist, idx[c], db', n)
            BY <2>4, <3>3, <3>4 DEF Covered, Passed
        <3>6. \A d \in Callers : lock' = d => Covered(hist', idx'[d] - 1, db', n)
            BY <2>1, <2>2, <3>5
        <3>7. Covered(hist', Cursor', db', n)
            BY <2>1, <3>2 DEF Honest
        <3>8. \A d \in Callers : pc'[d] = "write" => Covered(hist', found'[d], db', n)
            BY <2>1, <3>2 DEF Honest
        <3>9. \A i \in 1 .. Len(pre) : pre[i] # Gist => \E k \in 1 .. Len(db') : db'[k].id = pre[i].id
            BY <3>2 DEF Honest, Stored
        <3> QED
            BY <2>1, <3>6, <3>7, <3>8, <3>9 DEF Honest, Stored
    <2> QED
        BY <1>19, <2>5, <2>6 DEF IngestOne
<1>20. ASSUME NEW c \in Callers, FinishBatch(c) PROVE Honest(n)'
    <2>1. /\ hist' = hist /\ db' = db /\ pre' = pre /\ lock' = Free
          /\ cursor' = (IF got[c] THEN Len(snap[c]) ELSE cursor)
          /\ pc[c] = "batch" /\ idx[c] > Len(snap[c])
          /\ \A d \in Callers : pc'[d] = "idle" \/ (pc'[d] = pc[d] /\ found'[d] = found[d])
        BY <1>20 DEF FinishBatch, Return, store, IngestTypeOK
    <2>2. lock = c /\ idx[c] \in 1 .. Len(snap[c]) + 1 /\ Len(snap[c]) \in Nat
        BY <2>1 DEF Located, IngestTypeOK
    <2>3. idx[c] - 1 = Len(snap[c])
        BY <2>1, <2>2
    <2>4. Covered(hist, Len(snap[c]), db, n)
        BY <2>2, <2>3 DEF Honest
    <2>5. Cursor' = Cursor \/ Cursor' = Len(snap[c])
        BY <2>1, <2>2 DEF Cursor, Unset
    <2>6. Covered(hist, Cursor', db, n)
        BY <2>4, <2>5 DEF Honest
    <2> QED
        BY <2>1, <2>6, FreeAssumption DEF Honest, Stored
<1>21. CASE UNCHANGED ingestVars
    <2>1. /\ hist' = hist /\ db' = db /\ pre' = pre /\ Cursor' = Cursor
          /\ lock' = lock /\ UNCHANGED caller
        BY <1>21 DEF ingestVars, store, Cursor
    <2> QED
        BY <2>1, HonestKept DEF caller
<1> QED
    BY <1>1, <1>2, <1>3, <1>4, <1>5, <1>6, <1>7, <1>8, <1>9, <1>10, <1>11, <1>12, <1>13, <1>14, <1>15, <1>16, <1>17, <1>18, <1>19, <1>20, <1>21 DEF IngestNext, CallerStep
\* Genuine is kept: a row that is added is the message that the batch has come to,
\* and those before it are stored or never are.
LEMMA GenuineStep ==
    ASSUME IngestTypeOK, Located, Ordered, Genuine, Honest(Relistings),
           [IngestNext]_ingestVars, ~adrift'
    PROVE  Genuine'
<1> SUFFICES ASSUME Relistings' = 0
             PROVE  /\ pre' = NoList
                    /\ \A i \in 1 .. Len(hist') : hist'[i].id > 0
                    /\ \A k \in 1 .. Len(db') : \E i \in 1 .. Len(hist') :
                          Persistable(hist'[i]) /\ hist'[i].id = db'[k].id
                    /\ \A i \in 1 .. Len(hist'), k \in 1 .. Len(db') :
                          Persistable(hist'[i]) /\ hist'[i].id <= db'[k].id
                              => \E l \in 1 .. Len(db') : db'[l].id = hist'[i].id
    BY DEF Genuine
<1> DEFINE Goal == /\ pre' = NoList
                   /\ \A i \in 1 .. Len(hist') : hist'[i].id > 0
                   /\ \A k \in 1 .. Len(db') : \E i \in 1 .. Len(hist') :
                         Persistable(hist'[i]) /\ hist'[i].id = db'[k].id
                   /\ \A i \in 1 .. Len(hist'), k \in 1 .. Len(db') :
                         Persistable(hist'[i]) /\ hist'[i].id <= db'[k].id
                             => \E l \in 1 .. Len(db') : db'[l].id = hist'[i].id
<1>0. /\ Relistings = 0 /\ ~SessionReset /\ ~Assemble /\ (Restart => hist' = hist)
    BY RelistingsStep
<1>1. /\ pre = NoList
      /\ \A i \in 1 .. Len(hist) : hist[i].id > 0
      /\ \A k \in 1 .. Len(db) : \E i \in 1 .. Len(hist) :
            Persistable(hist[i]) /\ hist[i].id = db[k].id
      /\ \A i \in 1 .. Len(hist), k \in 1 .. Len(db) :
            Persistable(hist[i]) /\ hist[i].id <= db[k].id
                => \E l \in 1 .. Len(db) : db[l].id = hist[i].id
    BY <1>0 DEF Genuine
<1>2. /\ Lined /\ (\A e \in Everywhere : e.id <= made)
      /\ hist \in Seq(Msgs) /\ db \in Seq(Msgs) /\ Len(hist) \in Nat /\ Len(db) \in Nat
      /\ made \in Nat
    BY DEF Ordered, Lined, IngestTypeOK
<1>3. CASE hist' = hist /\ db' = db /\ pre' \in {pre, NoList}
    BY <1>1, <1>3
<1>4. ASSUME NEW k \in UNION Range(Turns), NewMessage(k) PROVE Goal
    <2> DEFINE m == [id |-> made + 1, text |-> k.text, kind |-> k.kind, file |-> NoFile]
    <2>1. hist' = Append(hist, m) /\ db' = db /\ pre' = pre /\ m.id = made + 1
        BY <1>4 DEF NewMessage, store
    <2> HIDE DEF m
    <2>2. /\ Len(hist') = Len(hist) + 1 /\ \A i \in 1 .. Len(hist) : hist'[i] = hist[i]
          /\ hist'[Len(hist) + 1].id = made + 1
        BY <1>2, <2>1
    <2>3. \A i \in 1 .. Len(hist') : i \in 1 .. Len(hist) \/ i = Len(hist) + 1
        BY <1>2, <2>2
    <2>4. \A k1 \in 1 .. Len(db) : db[k1].id \in Nat /\ db[k1].id <= made
        BY <1>2, EverywhereMsgs DEF Msgs
    <2>5. \A i \in 1 .. Len(hist') : hist'[i].id > 0
        BY <1>1, <1>2, <2>2, <2>3
    <2>6. ASSUME NEW k1 \in 1 .. Len(db')
          PROVE  \E i \in 1 .. Len(hist') : Persistable(hist'[i]) /\ hist'[i].id = db'[k1].id
        <3>1. PICK i \in 1 .. Len(hist) : Persistable(hist[i]) /\ hist[i].id = db[k1].id
            BY <1>1, <2>1, <2>6
        <3>2. i \in 1 .. Len(hist') /\ hist'[i] = hist[i]
            BY <1>2, <2>2
        <3> QED
            BY <2>1, <3>1, <3>2
    <2>7. ASSUME NEW i \in 1 .. Len(hist'), NEW k1 \in 1 .. Len(db'),
                 Persistable(hist'[i]), hist'[i].id <= db'[k1].id
          PROVE  \E l \in 1 .. Len(db') : db'[l].id = hist'[i].id
        <3>1. i # Len(hist) + 1
            BY <1>2, <2>1, <2>2, <2>4, <2>7
        <3>2. i \in 1 .. Len(hist) /\ hist'[i] = hist[i]
            BY <2>2, <2>3, <3>1
        <3> QED
            BY <1>1, <2>1, <2>7, <3>2
    <2> QED
        BY <1>1, <2>1, <2>5, <2>6, <2>7
<1>5. ASSUME NEW c \in Callers, IngestOne(c) PROVE Goal
    <2>1. hist' = hist /\ pre' = pre
        BY <1>5 DEF IngestOne
    <2>2. CASE db' = db
        BY <1>1, <2>1, <2>2
    <2>3. CASE db' = Append(db, AfterGuard(c)) /\ Persistable(Current(c))
        <3>1. /\ lock = c /\ idx[c] \in 1 .. Len(hist) /\ Current(c) = hist[idx[c]]
              /\ AfterGuard(c) \in Msgs /\ AfterGuard(c).id = Current(c).id
            BY <1>2, <1>5, CurrentFacts, CurrentOfList DEF IngestOne
        <3>2. /\ Len(db') = Len(db) + 1
              /\ db'[Len(db) + 1].id = hist[idx[c]].id
              /\ \A i \in 1 .. Len(db) : db'[i] = db[i]
            BY <1>2, <2>3, <3>1
        <3>3. \A k \in 1 .. Len(db') : k \in 1 .. Len(db) \/ k = Len(db) + 1
            BY <1>2, <3>2
        <3>4. \A x : (\E l \in 1 .. Len(db) : db[l].id = x) => \E l \in 1 .. Len(db') : db'[l].id = x
            <4>1. \A l \in 1 .. Len(db) : l \in 1 .. Len(db') /\ db'[l] = db[l]
                BY <1>2, <3>2
            <4> QED
                BY <4>1
        <3>5. ASSUME NEW k \in 1 .. Len(db')
              PROVE  \E i \in 1 .. Len(hist) : Persistable(hist[i]) /\ hist[i].id = db'[k].id
            BY <1>1, <2>3, <3>1, <3>2, <3>3
        <3>6. ASSUME NEW i \in 1 .. Len(hist), NEW k \in 1 .. Len(db'),
                     Persistable(hist[i]), hist[i].id <= db'[k].id
              PROVE  \E l \in 1 .. Len(db') : db'[l].id = hist[i].id
            <4>1. CASE k \in 1 .. Len(db)
                BY <1>1, <3>2, <3>4, <3>6, <4>1
            <4>2. CASE k = Len(db) + 1
                <5>1. hist[i].id <= hist[idx[c]].id
                    BY <3>2, <3>6, <4>2
                <5>2. hist[i].id \in Nat /\ hist[idx[c]].id \in Nat
                    BY <3>1, EverywhereMsgs DEF Msgs
                <5>3. i <= idx[c]
                    <6>1. idx[c] < i => hist[idx[c]].id < hist[i].id
                        BY <1>2, <3>1 DEF Lined, Rising
                    <6> QED
                        BY <3>1, <5>1, <5>2, <6>1
                <5>4. CASE i = idx[c]
                    <6>1. Len(db) + 1 \in 1 .. Len(db')
                        BY <1>2, <3>2
                    <6> QED
                        BY <3>2, <5>4, <6>1
                <5>5. CASE i # idx[c]
                    <6>1. i <= idx[c] - 1 /\ hist[i] # Gist
                        BY <1>1, <3>1, <5>3, <5>5 DEF Gist
                    <6>2. Passed(hist, i, db, Relistings)
                        BY <3>1, <3>6, <6>1 DEF Honest, Covered
                    <6>3. \E l \in 1 .. Len(db) : db[l].id = hist[i].id
                        BY <1>0, <6>2 DEF Passed
                    <6> QED
                        BY <3>4, <6>3
                <5> QED
                    BY <5>4, <5>5
            <4> QED
                BY <3>3, <4>1, <4>2
        <3> QED
            BY <1>1, <2>1, <3>5, <3>6
    <2> QED
        BY <1>5, <2>2, <2>3 DEF IngestOne
<1>6. CASE Substitute
    BY <1>1, <1>6 DEF Substitute
<1>7. \/ \E k \in UNION Range(Turns) : NewMessage(k)
      \/ \E c \in Callers : IngestOne(c)
      \/ Substitute
      \/ hist' = hist /\ db' = db /\ pre' \in {pre, NoList}
    BY <1>0 DEF IngestNext, CallerStep, Restart, SessionEnd,
           SessionStart, Call, ReconcileRead, ReconcileWrite, NothingNew, SomethingNew,
           StartBatch, AlreadyDone, WriteFile, RecordFile, RecordFails, IngestFails,
           FinishBatch, Fold, ingestVars, store
<1> QED
    BY <1>3, <1>4, <1>5, <1>6, <1>7

-----------------------------------------------------------------------------
(***************************************************************************)
(* The theorems.                                                           *)
(***************************************************************************)

\* A lost transaction is counted, and the count does not go down.
LEMMA FailuresStep ==
    ASSUME IngestTypeOK, [IngestNext]_ingestVars, spent'.failures = 0
    PROVE  spent.failures = 0 /\ \A c \in Callers : ~IngestFails(c)
<1>1. spent \in [Mishaps -> Nat] /\ "failures" \in Mishaps /\ spent.failures \in Nat
    BY DEF IngestTypeOK, Mishaps
<1>2. ASSUME NEW k \in Mishaps, Mishap(k) PROVE spent.failures = 0 /\ k # "failures"
    <2>1. spent' = [spent EXCEPT ![k] = @ + 1]
        BY <1>2 DEF Mishap
    <2> QED
        BY <1>1, <2>1
<1>3. \A c \in Callers : ~IngestFails(c)
    BY <1>1, <1>2 DEF IngestFails
<1>4. spent' = spent \/ \E k \in Mishaps : Mishap(k)
    BY <1>3 DEF IngestNext, CallerStep, NewMessage, Restart, SessionReset, SessionEnd,
           SessionStart, Call, ReconcileRead, ReconcileWrite, NothingNew, SomethingNew,
           StartBatch, AlreadyDone, WriteFile, RecordFile, RecordFails, IngestOne,
           FinishBatch, Fold, Assemble, Substitute, ingestVars, Mishaps
<1> QED
    BY <1>2, <1>3, <1>4

\* Initially there is no message and no call.
LEMMA IngestInitInv == IngestInit => IngestInv
<1> SUFFICES ASSUME IngestInit PROVE IngestInv
    OBVIOUS
<1> USE DEF IngestInit
<1>1. IngestTypeOK
    <2>1. << >> \in Seq(Msgs) /\ Unset \in Nat \cup {Unset}
        OBVIOUS
    <2>2. /\ pc \in [Callers -> Steps]
          /\ snap \in [Callers -> Seq(Msgs)]
          /\ found \in [Callers -> Nat \cup {Unset}]
          /\ idx \in [Callers -> Nat]
          /\ file \in [Callers -> Nat]
          /\ got \in [Callers -> BOOLEAN]
        BY <2>1 DEF Steps, NoFile
    <2>3. spent \in [Mishaps -> Nat]
        BY DEF Mishaps
    <2>4. large \subseteq blobs /\ \E n \in Nat : blobs \subseteq 1 .. n
        OBVIOUS
    <2> QED
        BY <2>1, <2>2, <2>3, <2>4 DEF IngestTypeOK, NoList
<1>2. Located
    BY FreeAssumption DEF Located
<1>3. Everywhere = {}
    BY RangeFacts DEF Everywhere, NoList
<1>4. Referred
    BY <1>3 DEF Referred
<1>5. Cursor = 0 /\ Len(<< >>) = 0
    BY DEF Cursor
<1>6. Ordered
    BY <1>3, <1>5 DEF Ordered, Rising, NoList
<1>7. Replays(<< >>, 0, << >>) /\ \A p : Newer(<< >>, p, << >>) \/ p \notin Nat
    BY <1>5 DEF Replays, Newer
<1>8. Ahead
    BY <1>5, <1>7, FreeAssumption DEF Ahead, Fresh
<1>9. Honest(Relistings)
    BY <1>5, FreeAssumption DEF Honest, Covered, NoList
<1>10. Genuine
    BY <1>5 DEF Genuine
<1> QED
    BY <1>1, <1>2, <1>4, <1>6, <1>8, <1>9, <1>10 DEF IngestInv

\* The invariant is inductive.
LEMMA IngestStep == IngestInv /\ [IngestNext]_ingestVars => IngestInv'
<1> SUFFICES ASSUME IngestInv, [IngestNext]_ingestVars PROVE IngestInv'
    OBVIOUS
<1>1. IngestTypeOK /\ Located /\ Referred
    BY DEF IngestInv
<1>2. IngestTypeOK' /\ Located' /\ Referred'
    BY <1>1, IngestTypeStep, LocatedStep, ReferredStep
<1>3. ASSUME ~adrift' PROVE ~adrift /\ Ordered' /\ Ahead'
    <2>1. ~adrift
        BY <1>1, <1>3, Onward
    <2>2. Ordered /\ Ahead
        BY <2>1 DEF IngestInv
    <2> QED
        BY <1>1, <1>3, <2>1, <2>2, OrderedStep, AheadStep
<1>4. ASSUME ~adrift', spent'.failures = 0 PROVE Honest(Relistings)' /\ Genuine'
    <2>1. ~adrift /\ spent.failures = 0 /\ \A c \in Callers : ~IngestFails(c)
        BY <1>1, <1>3, <1>4, FailuresStep
    <2>2. Ordered /\ Honest(Relistings) /\ Genuine
        BY <2>1 DEF IngestInv
    <2>3. Genuine'
        BY <1>1, <1>4, <2>2, GenuineStep
    <2>4. Relistings \in Nat /\ Relistings' \in Nat /\ Relistings <= Relistings'
        BY <1>1, RelistingsStep
    <2>5. PICK m \in Nat : m = Relistings
        BY <2>4
    <2>6. PICK n \in Nat : n = Relistings'
        BY <2>4
    <2>7. Honest(m)'
        BY <1>1, <1>4, <2>1, <2>2, <2>5, HonestStep
    <2>8. Honest(n)'
        BY <1>2, <2>4, <2>5, <2>6, <2>7, HonestMore
    <2> QED
        BY <2>3, <2>6, <2>8
<1> QED
    BY <1>2, <1>3, <1>4 DEF IngestInv

\* IngestInv holds of every behaviour.
LEMMA IngestInvariant == IngestSpec => []IngestInv
<1>1. IngestInit => IngestInv
    BY IngestInitInv
<1>2. IngestInv /\ [IngestNext]_ingestVars => IngestInv'
    BY IngestStep
<1> QED
    BY <1>1, <1>2, PTL DEF IngestSpec

\* For any number of callers, messages and mishaps: unless a cursor was written under
\* a caller in flight or an unmatched list was replayed, _do_ingest_history_diff
\* stores every message at most once, in the order of the conversation, and never
\* a rendered summary.
THEOREM IngestOrder == IngestSpec => []StoredInOrder
<1>1. IngestInv => StoredInOrder
    <2> SUFFICES ASSUME IngestInv, ~adrift
                 PROVE  \A i \in 1 .. Len(db) :
                           db[i] # Gist /\ \A j \in 1 .. i - 1 : db[j].id < db[i].id
        BY DEF StoredInOrder
    <2>1. Rising(db) /\ \A i \in 1 .. Len(db) : db[i].id > 0
        BY DEF IngestInv, Ordered
    <2>2. Gist.id = 0
        BY DEF Gist
    <2> QED
        BY <2>1, <2>2 DEF Rising
<1> QED
    BY <1>1, IngestInvariant, PTL

\* For any number of callers, messages, repeated contents and mishaps: unless a
\* transaction failed, a cursor was written under a caller in flight or an unmatched
\* list was replayed, _last_seen_message_idx is never past a message that has still to
\* be stored, although _reconcile_ingest_cursor compares roles and contents only.
\* Once a reset, a delta or a substitution has begun the list anew, the cursor passes
\* no unstored message but one that repeats the row in its place.
THEOREM IngestCursor == IngestSpec => []CursorHonest
<1>1. IngestInv => CursorHonest
    <2>1. Relisted <=> Relistings > 0
        BY DEF Relisted, Relistings
    <2> QED
        BY <2>1 DEF IngestInv, Honest, Covered, Passed, CursorHonest, Stored, Repeats
<1> QED
    BY <1>1, IngestInvariant, PTL

\* For any number of callers, messages and mishaps, and even when cursor and rows have
\* come apart: the file is written before its large_files row and the row before
\* the message, so that a stored reference reads back, and two rows that share a
\* file are one message stored twice.
THEOREM IngestReferences == IngestSpec => []StubsResolve
<1>1. IngestInv => StubsResolve
    <2> SUFFICES ASSUME IngestInv PROVE StubsResolve
        OBVIOUS
    <2>1. IngestTypeOK /\ Referred /\ large \subseteq blobs /\ db \in Seq(Msgs)
        BY DEF IngestInv, IngestTypeOK
    <2>2. \A f \in large : ReadsBack(f)
        BY <2>1 DEF ReadsBack
    <2>3. \A i \in 1 .. Len(db) : db[i] \in Everywhere
        BY <2>1, EverywhereMsgs
    <2>4. 0 \notin large
        BY <2>1 DEF IngestTypeOK
    <2>5. ASSUME NEW i \in 1 .. Len(db), db[i].kind = "stub"
          PROVE  db[i].file \in large /\ db[i].file # NoFile
        BY <2>1, <2>3, <2>4, <2>5 DEF Referred, NoFile
    <2>6. ASSUME NEW i \in 1 .. Len(db), db[i].kind = "stub", NEW j \in 1 .. i - 1,
                 db[j].file = db[i].file
          PROVE  adrift /\ db[j].id = db[i].id
        <3>1. j \in 1 .. Len(db)
            BY <2>1
        <3>2. db[j].id = db[i].id
            BY <2>1, <2>3, <2>5, <2>6, <3>1 DEF Referred
        <3>3. ~adrift => db[j].id < db[i].id
            BY DEF IngestInv, Ordered, Rising
        <3>4. db[i].id \in Nat
            BY <2>1, EverywhereMsgs DEF Msgs
        <3> QED
            BY <3>2, <3>3, <3>4
    <2> QED
        BY <2>2, <2>5, <2>6 DEF StubsResolve
<1> QED
    BY <1>1, IngestInvariant, PTL
=============================================================================
