------------------------------- MODULE Voyage -------------------------------
(***************************************************************************)
(* VoyageClient (voyage/client.py): the retries of one request, what its   *)
(* answer is read as, and the errors callers tell apart.  The provider is  *)
(* a sequence of replies, one per attempt; times are in milliseconds.      *)
(***************************************************************************)
EXTENDS Integers, Sequences, FiniteSets, FiniteSetsExt

CONSTANT MaxRetries   \* max_retries

BackoffBase == 500
BackoffCap == 25000
RetryAfterCap == 300000
LockBudget == 60000   \* LOCK_BUDGET_AWARE_RETRY_MS

Kinds == {"auth", "bad_request", "rate_limit", "server_error", "network", "unexpected"}

\* A reply is no response, a status, or a status 429 with its Retry-After as
\* parsed; "garbled" is a 2xx whose body cannot be used.
NoHeader == -1
Replies ==
    [status : {"2xx", "garbled", "401", "403", "400", "4xx", "5xx", "none"},
     after : {NoHeader}]
    \cup [status : {"429"}, after : {NoHeader, 0, LockBudget, LockBudget + 1, RetryAfterCap}]

\* _parse_retry_after_ms of a header that gives so many milliseconds: capped; a
\* date that is past counts as no header.
ParseRetryAfter(ms, isDate) ==
    IF isDate /\ ms <= 0 THEN NoHeader ELSE Min({ms, RetryAfterCap})

\* _backoff_ms; attempts count from 0.
BackoffMs(attempt) == Min({BackoffBase * 2 ^ attempt, BackoffCap})

\* The VoyageError a reply ends in when it is not tried again.
ErrorKind(reply) ==
    CASE reply.status = "none" -> "network"
      [] reply.status \in {"401", "403"} -> "auth"
      [] reply.status = "429" -> "rate_limit"
      [] reply.status = "5xx" -> "server_error"
      [] OTHER -> "bad_request"

\* Attempts that are left are used for no answer, a 5xx, and a 429 that asks for
\* no longer wait than the worker's lock allows.
TriedAgain(reply, attempt) ==
    /\ attempt < MaxRetries
    /\ \/ reply.status \in {"none", "5xx"}
       \/ reply.status = "429" /\ reply.after <= LockBudget

\* The sleep before the next attempt.
WaitMs(reply, attempt) ==
    IF reply.status = "429" /\ reply.after # NoHeader THEN reply.after
    ELSE BackoffMs(attempt)

\* _post_with_retry: replies[i] answers attempt i - 1.
Posts == [1 .. MaxRetries + 1 -> Replies]
LastAttempt(replies) == Min({i \in DOMAIN replies : ~TriedAgain(replies[i], i - 1)})
PostWithRetry(replies) ==
    LET reply == replies[LastAttempt(replies)]
    IN  IF reply.status \in {"2xx", "garbled"} THEN reply.status ELSE ErrorKind(reply)

\* embed and rerank: the kind of error, or "ok".
CallOutcome(replies) ==
    CASE PostWithRetry(replies) = "2xx" -> "ok"
      [] PostWithRetry(replies) = "garbled" -> "unexpected"
      [] OTHER -> PostWithRetry(replies)
Outcomes == {CallOutcome(replies) : replies \in Posts}

-----------------------------------------------------------------------------
\* _parse_embed_response: data is the sequence of items, with the index each
\* claims and the length of its vector; the result says which item each input's
\* vector was taken from, and is <<>> where VoyageError("unexpected") is raised.
ParseEmbed(data, expected) ==
    LET Taken(i) == {j \in DOMAIN data : data[j].index = i}
    IN  IF /\ Len(data) = expected
           /\ \A j \in DOMAIN data : data[j].dims = data[1].dims
                                     /\ data[j].index \in 0 .. expected - 1
           /\ \A i \in 0 .. expected - 1 : Taken(i) # {}
        THEN [i \in 1 .. expected |-> Max(Taken(i - 1))]
        ELSE <<>>

\* _parse_rerank_response: the candidates named, or {} for an error.
ParseRerank(data, n) ==
    IF \A j \in DOMAIN data : data[j].index \in 0 .. n - 1 /\ data[j].scored
    THEN {data[j].index : j \in DOMAIN data} ELSE {}

-----------------------------------------------------------------------------
(***************************************************************************)
(* Checked over all sequences of replies: an answer that came is used, an  *)
(* authentication error or a bad request costs no second request, and no   *)
(* single sleep outlives the worker lock's share of its lease.  Checked    *)
(* over all small answers: every input gets the vector that names it and   *)
(* no vector serves two inputs, so a short, repeated or shifted answer is  *)
(* refused as a whole and is never written under another document's id.    *)
(***************************************************************************)
ASSUME RetriesSound ==
    /\ MaxRetries \in Nat
    /\ \A replies \in Posts :
        LET n == LastAttempt(replies)
        IN  /\ CallOutcome(replies) \in Kinds \cup {"ok"}
            /\ CallOutcome(replies) = "ok" <=> replies[n].status = "2xx"
            /\ \A i \in 1 .. n - 1 : WaitMs(replies[i], i - 1) <= LockBudget
            /\ \A i \in 1 .. n : ErrorKind(replies[i]) \in {"auth", "bad_request"} => i = n

ASSUME EmbedAligned ==
    \A n \in 1 .. 2, len \in 0 .. 3 :
        \A data \in [1 .. len -> [index : -1 .. 2, dims : {0, 1}]] :
            LET taken == ParseEmbed(data, n)
            IN  taken # <<>> => /\ \A i \in 1 .. n : data[taken[i]].index = i - 1
                                /\ {taken[i] : i \in 1 .. n} = 1 .. len
=============================================================================
