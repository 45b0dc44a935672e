------------------------------ MODULE Synthesis ------------------------------
(***************************************************************************)
(* lcm_synthesize_around and the dispatcher behind it                      *)
(* (tools/synthesize_around.py, synthesis/): calls of several processes    *)
(* select leaves, take the single-flight latch of lcm_synthesis_cache, run *)
(* audited LLM passes and store the text, while leaves are purged or       *)
(* deleted and prompts are replaced.  Statements are autocommitted         *)
(* (isolation_level=None), so every one is a step.  A text is the set of   *)
(* leaves it was made of; a cache id is the call that generated it.        *)
(***************************************************************************)
EXTENDS Naturals, FiniteSets, Sequences

CONSTANTS Around,          \* calls of the tool
          Direct,          \* other users of dispatch_synthesis
          NumLeaves,       \* leaves, numbered by created_at
          Windows,         \* the ranges asked for, as sets of leaves
          TokenOf,         \* their token_count
          MaxSourceTokens, \* MAX_SOURCE_TEXT_TOKENS
          Workloads,       \* sets of calls that are made together
          Replaced,        \* kinds of prompts an operator registers
          BestOfN,         \* candidates of the yearly tier, capped
          MaxVersion,      \* bound: prompt versions
          MaxFaults        \* bound: crashes and database errors

Leaves == 1..NumLeaves
Calls == Around \cup Direct
PromptKinds == {"single", "verify_fidelity", "best_of_n_judge"}

ASSUME SynthesisAssumption ==
    /\ Around \cap Direct = {}
    /\ NumLeaves \in Nat
    /\ Windows \subseteq SUBSET Leaves
    /\ TokenOf \in [Leaves -> Nat]
    /\ MaxSourceTokens \in Nat
    /\ Workloads \subseteq SUBSET Calls
    /\ Replaced \subseteq PromptKinds
    /\ BestOfN \in Nat \ {0}
    /\ MaxVersion \in Nat
    /\ MaxFaults \in Nat

VARIABLES leaves,   \* [Leaves -> "absent", "live", "suppressed", "deleted"]
          prompts,  \* version of the active prompt per pass kind, 0: none
          rows,     \* lcm_synthesis_cache
          refs,     \* lcm_cache_leaf_refs
          call,     \* local variables of each call
          passes,   \* LLM passes of each call, with their audit rows
          tainted,  \* history: calls overtaken by a purge, or hit by a fault
          unseen,   \* history: leaves already gone when a call selected
          faults

vars == <<leaves, prompts, rows, refs, call, passes, tainted, unseen, faults>>

Rows == [id : Around, win : SUBSET Leaves, fp : SUBSET Leaves, prompt : 1..MaxVersion,
         status : {"building", "ready", "failed"}, content : SUBSET Leaves]
Passes == [kind : PromptKinds,
           row : {"none", "started", "completed", "failed"},
           res : {"pending", "ok", "error"}]
NoCall == [pc |-> "idle", tier |-> "none", win |-> {}, sel |-> {}, prompt |-> 0,
           used |-> 0, text |-> {}, pick |-> 0, flagged |-> FALSE]

\* seed_default_prompts registers every kind that has no prompt, at version 1.
Seeded == [k \in PromptKinds |-> 1]

Init ==
    /\ leaves \in [Leaves -> {"absent", "live"}]
    /\ prompts \in {Seeded, [k \in PromptKinds |-> 0]}
    /\ rows = {}
    /\ refs = {}
    /\ \E w \in Workloads :
         call = [c \in Calls |-> IF c \in w THEN NoCall ELSE [NoCall EXCEPT !.pc = "done"]]
    /\ passes = [c \in Calls |-> << >>]
    /\ tainted = {}
    /\ unseen = [c \in Calls |-> {}]
    /\ faults = 0

Goto(c, pc) == call' = [call EXCEPT ![c].pc = pc]
Fault(c) ==
    /\ faults < MaxFaults
    /\ faults' = faults + 1
    /\ tainted' = tainted \cup {c}
NoFault == UNCHANGED <<faults, tainted>>

-----------------------------------------------------------------------------
\* select_time_window_leaves: unsuppressed leaves of the window.
WindowLeaves(win) == {l \in win : leaves[l] = "live"}

TokensUpTo(S, l) ==
    LET sum[k \in 0..NumLeaves] ==
          IF k = 0 THEN 0 ELSE sum[k - 1] + (IF k \in S THEN TokenOf[k] ELSE 0)
    IN  sum[l]

\* build_source_text: the leaves before the first that passes the cap.
SourceLeaves(S) == {l \in S : TokensUpTo(S, l) <= MaxSourceTokens}

\* The arguments or the scope are refused: an error answer, no effect.
RefuseCall(c) ==
    /\ c \in Around
    /\ call[c].pc = "idle"
    /\ Goto(c, "done")
    /\ UNCHANGED <<leaves, prompts, rows, refs, passes, unseen>>
    /\ NoFault

\* The window becomes a range and the leaves are selected. Without leaves the
\* tool answers an error.
SelectLeaves(c) ==
    /\ c \in Around
    /\ call[c].pc = "idle"
    /\ \E win \in Windows :
        LET S == WindowLeaves(win) IN
        /\ call' = [call EXCEPT ![c].pc = IF S = {} THEN "done" ELSE "selected",
                                ![c].tier = "custom",
                                ![c].win = win,
                                ![c].sel = SourceLeaves(S)]
    /\ unseen' = [unseen EXCEPT ![c] = {l \in Leaves : leaves[l] # "live"}]
    /\ UNCHANGED <<leaves, prompts, rows, refs, passes>>
    /\ NoFault

\* get_active_prompt: the highest active version of a triple, 0 without one.
ActivePrompt(k) == prompts[k]

\* The active prompt of the tier, part of the key; build_llm_call may fail too.
ReadPrompt(c) ==
    /\ call[c].pc = "selected"
    /\ \/ call' = [call EXCEPT ![c].pc = IF ActivePrompt("single") = 0 THEN "done"
                                         ELSE "keyed",
                               ![c].prompt = ActivePrompt("single")]
       \/ Goto(c, "done")
    /\ UNCHANGED <<leaves, prompts, rows, refs, passes, unseen>>
    /\ NoFault

\* Mutant of SameKey: leaf_fingerprint is missing from the index.
SameKeyNoFingerprint(r, win, fp, p) == r.win = win /\ r.prompt = p

\* lcm_synthesis_cache_lookup_uniq, with lookup_cache_row's WHERE clause.
SameKey(r, win, fp, p) == r.win = win /\ r.fp = fp /\ r.prompt = p

Latched(c) == \E r \in rows : SameKey(r, call[c].win, call[c].sel, call[c].prompt)

\* Mutant of Refused: only a finished row keeps others from building.
RefusedWhenReady(c) == Latched(c) /\ \E r \in rows : r.status = "ready"

\* INSERT OR IGNORE finds a row of the key, whatever its status.
Refused(c) == Latched(c)

\* insert_cache_row_single_flight.
InsertRow(c) ==
    /\ call[c].pc = "keyed"
    /\ IF Refused(c)
       THEN Goto(c, "lost") /\ UNCHANGED rows
       ELSE /\ rows' = rows \cup {[id |-> c, win |-> call[c].win, fp |-> call[c].sel,
                                   prompt |-> call[c].prompt, status |-> "building",
                                   content |-> {}]}
            /\ Goto(c, "dispatch")
    /\ UNCHANGED <<leaves, prompts, refs, passes, unseen>>
    /\ NoFault

\* sqlite3.DatabaseError of the INSERT: an error answer.
InsertRowFault(c) ==
    /\ call[c].pc = "keyed"
    /\ Goto(c, "done")
    /\ Fault(c)
    /\ UNCHANGED <<leaves, prompts, rows, refs, passes, unseen>>

\* _emit_loser_path_response: the row of the key as it is now, if it is still
\* there; a ready one is served.
LoserAnswer(c) ==
    LET same == {r \in rows : SameKey(r, call[c].win, call[c].sel, call[c].prompt)} IN
    /\ call[c].pc = "lost"
    /\ \/ \E r \in same :
            call' = [call EXCEPT ![c].pc = IF r.status = "ready" THEN "served" ELSE "done",
                                 ![c].text = r.content]
       \/ same = {} /\ Goto(c, "done")
    /\ UNCHANGED <<leaves, prompts, rows, refs, passes, unseen>>
    /\ NoFault

-----------------------------------------------------------------------------
(* SynthesisDispatcher *)

\* Other callers of dispatch_synthesis, with a summary as their target.
RequestDirect(c, tier) ==
    /\ c \in Direct
    /\ call[c].pc = "idle"
    /\ call' = [call EXCEPT ![c].pc = "dispatch", ![c].tier = tier]
    /\ UNCHANGED <<leaves, prompts, rows, refs, passes, unseen>>
    /\ NoFault

NewPass(kind) == [kind |-> kind, row |-> "started", res |-> "pending"]
Unlogged(kind) == [kind |-> kind, row |-> "none", res |-> "error"]

\* insert_audit_started of each pass, before its LLM call; where it fails the
\* LLM is not called.
StartPasses(c, kind, n) ==
    \/ passes' = [passes EXCEPT ![c] = @ \o [i \in 1..n |-> NewPass(kind)]] /\ NoFault
    \/ /\ passes' = [passes EXCEPT ![c] = @ \o << Unlogged(kind) >>
                                            \o [i \in 1..(n - 1) |-> NewPass(kind)]]
       /\ Fault(c)

\* synthesize up to its first await: the prompt is looked up again, then the
\* single pass starts, or the candidates of the yearly tier.
Dispatch(c) ==
    /\ call[c].pc = "dispatch"
    /\ IF ActivePrompt("single") = 0
       THEN Goto(c, "failing") /\ UNCHANGED passes /\ NoFault
       ELSE /\ call' = [call EXCEPT ![c].pc = "draft", ![c].used = ActivePrompt("single")]
            /\ StartPasses(c, "single", IF call[c].tier = "yearly" THEN BestOfN ELSE 1)
    /\ UNCHANGED <<leaves, prompts, rows, refs, unseen>>

\* update_audit_completed and update_audit_failed: UPDATEs by audit_id, which
\* change nothing when the row was swept meanwhile.
Completed(p) ==
    [p EXCEPT !.row = IF p.row = "none" THEN "none" ELSE "completed", !.res = "ok"]

Failed(p) ==
    [p EXCEPT !.row = IF p.row = "none" THEN "none" ELSE "failed", !.res = "error"]

PassReturns(c, i) ==
    /\ passes[c][i].res = "pending"
    /\ \/ passes' = [passes EXCEPT ![c][i] = Completed(@)]
       \/ passes' = [passes EXCEPT ![c][i] = Failed(@)]
    /\ UNCHANGED <<leaves, prompts, rows, refs, call, unseen>>
    /\ NoFault

\* update_audit_completed raises: the text is lost and the row stays started.
PassUpdateFault(c, i) ==
    /\ passes[c][i].res = "pending"
    /\ passes' = [passes EXCEPT ![c][i].res = "error"]
    /\ Fault(c)
    /\ UNCHANGED <<leaves, prompts, rows, refs, call, unseen>>

Drafts(c) == {i \in DOMAIN passes[c] : passes[c][i].kind = "single"}
Survivors(c) == {i \in Drafts(c) : passes[c][i].res = "ok"}
Settled(c) == \A i \in DOMAIN passes[c] : passes[c][i].res # "pending"
LastOk(c) == passes[c][Len(passes[c])].res = "ok"

\* The j-th survivor (from 0), as candidate_results[j].
Nth(S, j) == CHOOSE i \in S : Cardinality({k \in S : k < i}) = j

\* After the drafts: fail without any, else verify (monthly), judge (yearly
\* with several survivors), or finish with the one there is.
AfterDrafts(c) ==
    /\ call[c].pc = "draft"
    /\ Settled(c)
    /\ \/ /\ Survivors(c) = {}
          /\ Goto(c, "failing") /\ UNCHANGED passes /\ NoFault
       \/ /\ Survivors(c) # {}
          /\ \/ call[c].tier = "custom"
             \/ call[c].tier = "monthly" /\ ActivePrompt("verify_fidelity") = 0
             \/ call[c].tier = "yearly" /\ Cardinality(Survivors(c)) = 1
          /\ call' = [call EXCEPT ![c].pc = "text", ![c].text = call[c].sel,
                                  ![c].pick = Nth(Survivors(c), 0)]
          /\ UNCHANGED passes /\ NoFault
       \/ /\ Survivors(c) # {}
          /\ call[c].tier = "monthly" /\ ActivePrompt("verify_fidelity") # 0
          /\ call' = [call EXCEPT ![c].pc = "verify", ![c].pick = Nth(Survivors(c), 0)]
          /\ StartPasses(c, "verify_fidelity", 1)
       \/ /\ call[c].tier = "yearly" /\ Cardinality(Survivors(c)) > 1
          /\ IF ActivePrompt("best_of_n_judge") = 0
             THEN Goto(c, "failing") /\ UNCHANGED passes /\ NoFault
             ELSE Goto(c, "judge") /\ StartPasses(c, "best_of_n_judge", 1)
    /\ UNCHANGED <<leaves, prompts, rows, refs, unseen>>

\* _parse_verify_output: an accusation outweighs an OK, and silence accuses.
Flagged(negative, ok) == negative \/ ~ok

\* The verdict only flags the text; a failed verify pass fails the request.
AfterVerify(c) ==
    /\ call[c].pc = "verify"
    /\ Settled(c)
    /\ \/ ~LastOk(c) /\ Goto(c, "failing")
       \/ /\ LastOk(c)
          /\ \E negative, ok \in BOOLEAN :
               call' = [call EXCEPT ![c].pc = "text", ![c].flagged = Flagged(negative, ok)]
    /\ UNCHANGED <<leaves, prompts, rows, refs, passes, unseen>>
    /\ NoFault

\* _parse_judge_output: "Winner: k" if in range, else the last number in range,
\* else judge_failure (no index).
JudgeIndex(winner, digits, n) ==
    LET inRange == {i \in DOMAIN digits : digits[i] < n} IN
    IF winner \in 0..(n - 1) THEN {winner}
    ELSE {digits[i] : i \in {j \in inRange : \A k \in inRange : k <= j}}

\* Answers of the judge: a winner or none (BestOfN + 1), then other numbers.
JudgeAnswers == (0..(BestOfN + 1)) \X {<< >>, <<0, BestOfN>>, <<BestOfN, 1>>}

AfterJudge(c) ==
    /\ call[c].pc = "judge"
    /\ Settled(c)
    /\ \/ ~LastOk(c) /\ Goto(c, "failing")
       \/ /\ LastOk(c)
          /\ \E a \in JudgeAnswers :
              LET n == Cardinality(Survivors(c))
                  idx == JudgeIndex(a[1], IF a[1] > BestOfN THEN a[2] ELSE <<a[1]>> \o a[2], n)
              IN  \/ idx = {} /\ Goto(c, "failing")
                  \/ \E j \in idx :
                       call' = [call EXCEPT ![c].pc = "text", ![c].text = call[c].sel,
                                            ![c].pick = IF j < n THEN Nth(Survivors(c), j)
                                                        ELSE 0]
    /\ UNCHANGED <<leaves, prompts, rows, refs, passes, unseen>>
    /\ NoFault

-----------------------------------------------------------------------------
\* _mark_cache_failed; its own database error is swallowed.
MarkFailed(c) ==
    /\ call[c].pc = "failing"
    /\ \/ /\ rows' = {IF r.id = c THEN [r EXCEPT !.status = "failed"] ELSE r : r \in rows}
          /\ NoFault
       \/ c \in Around /\ UNCHANGED rows /\ Fault(c)
    /\ Goto(c, "done")
    /\ UNCHANGED <<leaves, prompts, refs, passes, unseen>>

\* The row of c with the text and the prompt that made it.
ReadyRow(c, r) ==
    [r EXCEPT !.status = "ready", !.content = call[c].text, !.prompt = call[c].used]

\* The UPDATE would repeat a key of the index: IntegrityError.
KeyTaken(c, r) == \E s \in rows \ {r} : SameKey(s, r.win, r.fp, call[c].used)

\* UPDATE ... SET status = 'ready'; any DatabaseError is swallowed and the row
\* stays building.
StoreText(c) ==
    /\ call[c].pc = "text"
    /\ c \in Around
    /\ \/ \E r \in {s \in rows : s.id = c} :
            /\ ~KeyTaken(c, r)
            /\ rows' = (rows \ {r}) \cup {ReadyRow(c, r)}
            /\ NoFault
       \/ /\ \A s \in rows : s.id # c
          /\ UNCHANGED rows /\ NoFault
       \/ /\ \E r \in rows : r.id = c /\ KeyTaken(c, r)
          /\ UNCHANGED <<rows, faults>>
          /\ tainted' = tainted \cup {c}
       \/ UNCHANGED rows /\ Fault(c)
    /\ Goto(c, "stored")
    /\ UNCHANGED <<leaves, prompts, refs, passes, unseen>>

\* Mutant of Referable: the last leaf is left out.
ReferableButLast(c) == {l \in call[c].sel : \E k \in call[c].sel : k > l}

\* The loop of INSERT OR IGNOREs stops at the first leaf whose foreign key is
\* gone, and what it inserted stays.
Referable(c) ==
    {l \in call[c].sel : \A k \in call[c].sel : k <= l => leaves[k] # "deleted"}

RecordRefs(c) ==
    /\ call[c].pc = "stored"
    /\ \/ /\ refs' = IF \E r \in rows : r.id = c
                     THEN refs \cup ({c} \X Referable(c)) ELSE refs
          /\ NoFault
       \/ UNCHANGED refs /\ Fault(c)
    /\ Goto(c, "served")
    /\ UNCHANGED <<leaves, prompts, rows, passes, unseen>>

\* A direct request returns its text to its caller.
ReturnDirect(c) ==
    /\ call[c].pc = "text"
    /\ c \in Direct
    /\ Goto(c, "served")
    /\ UNCHANGED <<leaves, prompts, rows, refs, passes, unseen>>
    /\ NoFault

\* The process dies: rows stay as they are.
Crash(c) ==
    /\ call[c].pc \notin {"idle", "done", "served", "dead"}
    /\ Goto(c, "dead")
    /\ passes' = [passes EXCEPT ![c] = [i \in DOMAIN @ |->
                    IF @[i].res = "pending" THEN [@[i] EXCEPT !.res = "error"] ELSE @[i]]]
    /\ Fault(c)
    /\ UNCHANGED <<leaves, prompts, rows, refs, unseen>>

-----------------------------------------------------------------------------
(* The others *)

InFlight(c) == call[c].pc \notin {"idle", "done", "served", "dead"}
Overtaken(l) == {c \in Calls : InFlight(c) /\ l \in call[c].sel}

\* DELETE FROM lcm_synthesis_cache by lcm_cache_leaf_refs.
Invalidated(l) == {r \in rows : <<r.id, l>> \in refs}

\* Purge, one transaction: suppress, and delete the texts that used the leaf.
Purge(l) ==
    /\ leaves[l] = "live"
    /\ leaves' = [leaves EXCEPT ![l] = "suppressed"]
    /\ rows' = rows \ Invalidated(l)
    /\ refs' = {x \in refs : \A r \in Invalidated(l) : x[1] # r.id}
    /\ tainted' = tainted \cup Overtaken(l)
    /\ UNCHANGED <<prompts, call, passes, unseen, faults>>

\* A cleaner deletes the leaf with its conversation; references cascade, the
\* texts stay.
DeleteLeaf(l) ==
    /\ leaves[l] \in {"live", "suppressed"}
    /\ leaves' = [leaves EXCEPT ![l] = "deleted"]
    /\ refs' = {x \in refs : x[2] # l}
    /\ tainted' = tainted \cup Overtaken(l)
    /\ UNCHANGED <<prompts, rows, call, passes, unseen, faults>>

NewLeaf(l) ==
    /\ leaves[l] = "absent"
    /\ leaves' = [leaves EXCEPT ![l] = "live"]
    /\ UNCHANGED <<prompts, rows, refs, call, passes, unseen>>
    /\ NoFault

\* register_prompt and seed_default_prompts: the next version becomes active.
RegisterPrompt(k) ==
    /\ prompts[k] < MaxVersion
    /\ prompts' = [prompts EXCEPT ![k] = @ + 1]
    /\ UNCHANGED <<leaves, rows, refs, call, passes, unseen>>
    /\ NoFault

\* sweep_orphan_audit_starts: a started row of more than an hour ago, whether
\* its call died or still waits.
SweepOrphan(c, i) ==
    /\ passes[c][i].row = "started"
    /\ passes' = [passes EXCEPT ![c][i].row = "none"]
    /\ UNCHANGED <<leaves, prompts, rows, refs, call, unseen>>
    /\ NoFault

\* sweep_terminal_audit_rows: weeks later.
SweepTerminal(c, i) ==
    /\ passes[c][i].row \in {"completed", "failed"}
    /\ ~InFlight(c)
    /\ passes' = [passes EXCEPT ![c][i].row = "none"]
    /\ UNCHANGED <<leaves, prompts, rows, refs, call, unseen>>
    /\ NoFault

CallStep(c) ==
    \/ RefuseCall(c) \/ SelectLeaves(c) \/ ReadPrompt(c) \/ InsertRow(c) \/ InsertRowFault(c)
    \/ LoserAnswer(c) \/ Dispatch(c) \/ AfterDrafts(c) \/ AfterVerify(c)
    \/ AfterJudge(c) \/ MarkFailed(c) \/ StoreText(c) \/ RecordRefs(c)
    \/ ReturnDirect(c) \/ Crash(c)
    \/ \E tier \in {"monthly", "yearly"} : RequestDirect(c, tier)
    \/ \E i \in DOMAIN passes[c] :
         PassReturns(c, i) \/ PassUpdateFault(c, i)
         \/ SweepOrphan(c, i) \/ SweepTerminal(c, i)

Next ==
    \/ \E c \in Calls : CallStep(c)
    \/ \E l \in Leaves : Purge(l) \/ DeleteLeaf(l) \/ NewLeaf(l)
    \/ \E k \in Replaced : RegisterPrompt(k)

Spec == Init /\ [][Next]_vars

-----------------------------------------------------------------------------
(* Properties *)

Building(c) == c \in Around /\ call[c].pc \in {"dispatch", "draft", "text", "failing"}

\* The latch of insert_cache_row_single_flight: no two calls synthesise the same
\* leaves of the same window with the same prompt at once, and no second row of
\* one key appears although finished rows change their prompt.
SingleFlight ==
    /\ \A c, d \in Around :
         c # d /\ Building(c) /\ Building(d)
           => <<call[c].win, call[c].sel, call[c].prompt>>
                # <<call[d].win, call[d].sel, call[d].prompt>>
    /\ \A r, s \in rows : r # s => ~SameKey(r, s.win, s.fp, s.prompt)

\* A text served from the cache or made anew covers exactly the leaves that the
\* call selected, none of which was suppressed or deleted by then: a cached text
\* of purged leaves is out of reach of every later call.
ServedExact ==
    \A c \in Around : call[c].pc = "served" =>
        call[c].text = call[c].sel /\ call[c].text \cap unseen[c] = {}

\* A purge reaches every stored text that used the leaf, except the texts of
\* calls that were in flight at a purge or a deletion or lost a write: those
\* keep the purged text in their row.
PurgeReachesCache ==
    \A r \in rows : r.status = "ready" /\ r.id \notin tainted =>
        \A l \in r.content : leaves[l] # "suppressed"

==============================================================================
