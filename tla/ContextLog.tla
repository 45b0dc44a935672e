----------------------------- MODULE ContextLog -----------------------------
(***************************************************************************)
(* What compaction promises, without ordinals, summaries or passes: the    *)
(* context is the log of the messages cut into segments.  A new message is *)
(* a segment of its own, compaction merges neighbouring segments, and only *)
(* a purge makes messages disappear.  Nothing else ever happens to it.     *)
(***************************************************************************)
EXTENDS Integers

VARIABLES
    count,      \* messages ingested; they are 1 .. count, in order
    segs,       \* the segments: disjoint non-empty sets of messages
    forgotten   \* messages the operator purged

vars == <<count, segs, forgotten>>

Init == count = 0 /\ segs = {} /\ forgotten = {}

Ingest ==
    /\ count' = count + 1
    /\ segs' = segs \cup {{count + 1}}
    /\ UNCHANGED forgotten

\* No message of T lies between two messages of S.
Apart(S, T) == \A t \in T : (\A s \in S : s < t) \/ (\A s \in S : t < s)

Merge(S) ==
    /\ S # {}
    /\ \A T \in segs \ S : Apart(UNION S, T)
    /\ segs' = (segs \ S) \cup {UNION S}
    /\ UNCHANGED <<count, forgotten>>

\* The operator purges the messages X.
Forget(X) ==
    /\ segs' = {s \ X : s \in segs} \ {{}}
    /\ forgotten' = forgotten \cup X
    /\ UNCHANGED count

Next ==
    \/ Ingest
    \/ \E S \in SUBSET segs : Merge(S)
    \/ \E X \in SUBSET (1 .. count) : Forget(X)

Spec == Init /\ [][Next]_vars
=============================================================================
