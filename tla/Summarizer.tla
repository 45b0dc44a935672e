----------------------------- MODULE Summarizer -----------------------------
(***************************************************************************)
(* LcmSummarizer (summarize.py): the chain of providers a summary is asked *)
(* of, with the second attempt after an empty or cut-off answer, the       *)
(* attempt with direct credentials after an authentication failure, and    *)
(* the marked truncation at its end.  A text is abstracted to "text", or   *)
(* "marked" for the truncation; an exception of the whole is "auth".       *)
(***************************************************************************)
EXTENDS Integers, Sequences, FiniteSets

CONSTANTS
    ModelLayers,  \* the models named by environment, configuration, session and
                  \* fallback_providers, in this order; NoModel where none is
    NoModel,
    DirectKey     \* candidates that have credentials of their own and whose
                  \* provider's authentication the runtime does not manage

ASSUME LayersAssumption == ModelLayers \in Seq({ModelLayers[i] : i \in DOMAIN ModelLayers})

\* resolve_summary_candidates: the layers that name a model, each model once.
Candidates ==
    LET First(i) == ModelLayers[i] # NoModel
                    /\ \A j \in 1 .. i - 1 : ModelLayers[j] # ModelLayers[i]
        named == {i \in DOMAIN ModelLayers : First(i)}
        Nth(n) == CHOOSE i \in named : Cardinality({j \in named : j <= i}) = n
    IN  [n \in 1 .. Cardinality(named) |-> ModelLayers[Nth(n)]]

-----------------------------------------------------------------------------
(***************************************************************************)
(* What can be read out of one call: raised is how deps.complete ended;    *)
(* auth what speaks of a failed authentication, a status code or only      *)
(* wording; failed an error status; content and envelope where text is     *)
(* found; cut a sign that the text is incomplete.                          *)
(***************************************************************************)
Responses ==
    [raised : {"no", "timeout", "error"}, auth : {"none", "wording", "structural"},
     failed : BOOLEAN, content : BOOLEAN, envelope : BOOLEAN, cut : BOOLEAN]

\* extract_provider_auth_failure; wording counts in an exception only.
AuthFailure(r) == r.auth = "structural" \/ (r.raised = "error" /\ r.auth = "wording")

\* extract_provider_response_failure
ResponseFailure(r) == r.failed

\* normalize_completion_summary of the content, then of the whole response.
HasText(r) == r.content \/ r.envelope

\* extract_incomplete_response_signals
Incomplete(r) == r.cut

\* What _run_summarizer_call and the inspection of its result make of a call.
Reading(r) ==
    CASE r.raised = "timeout" -> "timeout"
      [] r.raised # "timeout" /\ AuthFailure(r) -> "refused"
      [] r.raised = "error" /\ ~AuthFailure(r) -> "broken"
      [] OTHER -> IF ResponseFailure(r) THEN "error"
                  ELSE IF ~HasText(r) THEN "empty"
                  ELSE IF Incomplete(r) THEN "partial" ELSE "text"

Readings == {Reading(r) : r \in Responses}

\* HermesSummarizerDeps.complete: text without reasoning blocks or an
\* exception, never a cut-off or failed envelope.
HermesReadings ==
    {Reading(r) : r \in {q \in Responses : q.raised = "no" =>
                          (q.auth = "none" /\ ~q.failed /\ ~q.envelope /\ ~q.cut)}}

\* _retry_without_model_auth: a refused call again with the direct key.
WithDirectKey(model, reading, direct) ==
    IF reading = "refused" /\ model \in DirectKey THEN direct ELSE reading

\* _attempt_summarizer_call: the ways it can end.
Attempts(model, readings) ==
    {WithDirectKey(model, a, b) : a, b \in readings}

-----------------------------------------------------------------------------
\* summarize, one candidate: how the first attempt ends the matter.  "next"
\* goes on with the next candidate, "stop" leaves the loop.
AfterFirst(first, isLast) ==
    CASE first = "text" -> "text"
      [] first \in {"partial", "empty"} -> "again"
      [] first \in {"refused", "error", "broken", "timeout"} /\ ~isLast -> "next"
      [] OTHER -> CASE first = "refused" -> "auth"
                    [] first = "timeout" -> "marked"
                    [] OTHER -> "stop"

\* ... and how the second, conservative one does.  Cut-off text of the first
\* attempt is used when the second one fails at the last candidate, except
\* after a provider error.
AfterRetry(first, retry, isLast) ==
    CASE retry \in {"text", "partial"} -> "text"
      [] retry \notin {"text", "partial"} /\ ~isLast -> "next"
      [] OTHER -> CASE retry = "refused" -> "auth"
                    [] retry = "error" -> "stop"
                    [] OTHER -> IF first = "partial" THEN "text" ELSE "marked"

CandidateOutcome(first, retry, isLast) ==
    IF AfterFirst(first, isLast) = "again" THEN AfterRetry(first, retry, isLast)
    ELSE AfterFirst(first, isLast)

\* last_auth_error is set.
Refused(first, retry) ==
    first = "refused" \/ (first \in {"partial", "empty"} /\ retry = "refused")

\* summarize: calls[i] are the attempts at candidate i.  A chain that ends
\* without a text raises the last authentication error, or truncates.
Summarize(calls) ==
    LET n == Len(calls)
        out[i \in 1 .. n] == CandidateOutcome(calls[i][1], calls[i][2], i = n)
        ended == {i \in 1 .. n : out[i] # "next"}
        first == CHOOSE i \in ended : \A j \in ended : i <= j
    IN  IF out[first] # "stop" THEN out[first]
        ELSE IF \E i \in 1 .. first : Refused(calls[i][1], calls[i][2])
             THEN "auth" ELSE "marked"

\* The ways summarize can end for a non-empty source.
SummarizeOutcomes(readings) ==
    LET all == UNION {Attempts(m, readings) : m \in {Candidates[i] : i \in DOMAIN Candidates}}
    IN  IF Candidates = <<>> THEN {}
        ELSE {Summarize(calls) : calls \in [DOMAIN Candidates -> all \X all]}

(***************************************************************************)
(* Checked for every combination of readings: whole text that some         *)
(* candidate gave is never passed over for a truncation or an error; text  *)
(* is never reported when no candidate gave any; an authentication error   *)
(* means that a candidate was refused, so that a provider's outage is not  *)
(* taken for missing credentials.                                          *)
(***************************************************************************)
ASSUME ChainSound ==
    \A n \in 1 .. 2 : \A calls \in [1 .. n -> Readings \X Readings] :
        LET Reached(i) == \A j \in 1 .. i - 1 :
                              CandidateOutcome(calls[j][1], calls[j][2], FALSE) = "next"
            Given(i) == {calls[i][1]} \cup IF calls[i][1] \in {"partial", "empty"}
                                           THEN {calls[i][2]} ELSE {}
            given == UNION {Given(i) : i \in {j \in 1 .. n : Reached(j)}}
        IN  /\ "text" \in given => Summarize(calls) = "text"
            /\ Summarize(calls) = "text" => given \cap {"text", "partial"} # {}
            /\ Summarize(calls) = "auth" => "refused" \in given
=============================================================================
