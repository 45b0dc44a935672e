----------------------------- MODULE ContextDag -----------------------------
(***************************************************************************)
(* The rows SummaryStore and ConversationStore keep for one conversation,  *)
(* and the statements on them: messages, summaries with their two kinds of *)
(* links (summary_messages, summary_parents), and context_items, the       *)
(* ordered list the prompt is assembled from.                              *)
(*                                                                         *)
(* Message ids and summary ids are positions in the sequences of messages  *)
(* and of summaries, so a later row has a larger id.  context_items is a   *)
(* function from ordinals to items: the ordinals are its domain, and need  *)
(* not be contiguous.  Contents are abstracted to token counts.            *)
(***************************************************************************)
EXTENDS Integers, Sequences, FiniteSets, FiniteSetsExt, Functions

CONSTANTS
    FreshTailCount,      \* fresh_tail_count
    FreshTailMaxTokens,  \* fresh_tail_max_tokens
    LeafChunkTokens,     \* leaf_chunk_tokens: target size of one chunk
    LeafMinFanout,       \* leaf_min_fanout, for chunks of depth-0 summaries
    CondensedMinFanout,  \* condensed_min_fanout, for deeper chunks
    HardFanout,          \* condensed_min_fanout_hard, under a hard trigger
    CondensedMinTokens   \* least tokens of a chunk worth condensing

MessageItem(m) == [type |-> "message", id |-> m]
SummaryItem(s) == [type |-> "summary", id |-> s]

MessageOrds(c) == {o \in DOMAIN c : c[o].type = "message"}
SummaryOrds(c) == {o \in DOMAIN c : c[o].type = "summary"}

IdsAt(c, ords) == {c[o].id : o \in ords}

\* COALESCE(MAX(ordinal), -1) + 1
NextOrdinal(c) == IF DOMAIN c = {} THEN 0 ELSE Max(DOMAIN c) + 1

\* append_context_message
AppendItem(c, item) ==
    [o \in DOMAIN c \cup {NextOrdinal(c)} |->
        IF o \in DOMAIN c THEN c[o] ELSE item]

\* Mutant of Resequence: the ordinals keep their gaps.
ResequenceNot(c) == c

\* Renumber the items 0, 1, 2 ... in the order of their ordinals.
Resequence(c) ==
    LET At(i) == CHOOSE o \in DOMAIN c : Cardinality({p \in DOMAIN c : p < o}) = i
    IN  [i \in 0 .. Cardinality(DOMAIN c) - 1 |-> c[At(i)]]

\* Mutant of ReplaceRange: the item after the range is deleted too.
ReplaceRangeWide(c, first, last, s) ==
    LET kept == DOMAIN c \ (first .. last + 1)
    IN  Resequence([o \in kept \cup {first} |->
                        IF o = first THEN SummaryItem(s) ELSE c[o]])

\* replace_context_range_with_summary: delete [first, last], insert the
\* summary at first, resequence.
ReplaceRange(c, first, last, s) ==
    LET kept == DOMAIN c \ (first .. last)
    IN  Resequence([o \in kept \cup {first} |->
                        IF o = first THEN SummaryItem(s) ELSE c[o]])

-----------------------------------------------------------------------------
(***************************************************************************)
(* Tokens.  mt is the sequence of messages' token counts, ss the sequence  *)
(* of summaries.                                                           *)
(***************************************************************************)
ItemTokens(mt, ss, item) ==
    IF item.type = "message" THEN mt[item.id] ELSE ss[item.id].tokens

\* Tokens of the items of c at the ordinals ords.
TokensAt(mt, ss, c, ords) ==
    MapThenSumSet(LAMBDA o : ItemTokens(mt, ss, c[o]), ords)

\* get_context_token_count
ContextTokens(mt, ss, c) == TokensAt(mt, ss, c, DOMAIN c)

-----------------------------------------------------------------------------
(***************************************************************************)
(* Selection.                                                              *)
(***************************************************************************)

\* _resolve_fresh_tail_ordinal: the newest raw messages are protected, at most
\* FreshTailCount of them and, past the first, within the token cap.
FreshTail(mt, ss, c) ==
    {o \in MessageOrds(c) :
        LET newer == {p \in MessageOrds(c) : p > o}
        IN  /\ Cardinality(newer) < FreshTailCount
            /\ newer = {} \/ TokensAt(mt, ss, c, newer \cup {o}) <= FreshTailMaxTokens}

\* Ordinals before the fresh tail; all of them when nothing is protected.
Evictable(mt, ss, c) ==
    LET tail == FreshTail(mt, ss, c)
    IN  {o \in DOMAIN c : tail = {} \/ o < Min(tail)}

\* The scan both selections share: from the oldest evictable ordinal in
\* wanted, take ordinals up to the first that is not in wanted or does not fit:
\* one that comes when the chunk has reached LeafChunkTokens or that would take
\* it past that, except the first.
OldestRun(mt, ss, c, wanted) ==
    LET evictable == Evictable(mt, ss, c)
        first == Min(wanted \cap evictable)
        UpTo(o) == {p \in evictable : first <= p /\ p <= o}
        fits(o) == \/ o = first
                   \/ /\ TokensAt(mt, ss, c, UpTo(o) \ {o}) < LeafChunkTokens
                      /\ TokensAt(mt, ss, c, UpTo(o)) <= LeafChunkTokens
    IN  IF wanted \cap evictable = {} THEN {}
        ELSE {o \in evictable :
                o >= first /\ \A p \in UpTo(o) : p \in wanted /\ fits(p)}

\* _select_oldest_leaf_chunk
LeafChunk(mt, ss, c) == OldestRun(mt, ss, c, MessageOrds(c))

\* evaluate_leaf_trigger
LeafTrigger(mt, ss, c) ==
    TokensAt(mt, ss, c, MessageOrds(c) \cap Evictable(mt, ss, c)) >= LeafChunkTokens

\* _select_oldest_chunk_at_depth: get_summary hides suppressed summaries.
ChunkAtDepth(mt, ss, c, d) ==
    OldestRun(mt, ss, c,
              {o \in SummaryOrds(c) :
                  ss[c[o].id].depth = d /\ ~ss[c[o].id].suppressed})

Fanout(d, hard) ==
    CASE hard  -> HardFanout
      [] ~hard /\ d = 0 -> LeafMinFanout
      [] OTHER -> CondensedMinFanout

\* get_distinct_depths_in_context, below the fresh tail
EvictableDepths(mt, ss, c) ==
    {ss[s].depth : s \in IdsAt(c, SummaryOrds(c) \cap Evictable(mt, ss, c))}

\* Depths of the evictable summaries whose oldest chunk is worth condensing.
CandidateDepths(mt, ss, c, hard) ==
    {d \in EvictableDepths(mt, ss, c) :
        LET chunk == ChunkAtDepth(mt, ss, c, d)
        IN  /\ Cardinality(chunk) >= Fanout(d, hard)
            /\ TokensAt(mt, ss, c, chunk) >= CondensedMinTokens}

-----------------------------------------------------------------------------
(***************************************************************************)
(* The purge cascade (operator/purge.py) on the same rows; L is the set of *)
(* leaves it resolved.                                                     *)
(***************************************************************************)
LinkedMessages(ss, L) == UNION {ss[s].msgs : s \in L}

\* Steps 1 and 2: suppress the leaves, flag the condensed summaries above.
SuppressedSummaries(ss, L) ==
    [s \in DOMAIN ss |->
        [ss[s] EXCEPT !.suppressed = @ \/ s \in L,
                      !.flagged = @ \/ ss[s].parents \cap L # {}]]

\* Mutant of WithoutPurged: only the items of messages are dropped.
WithoutPurgedMessages(ss, c, L) ==
    Restrict(c, {o \in DOMAIN c :
                    c[o] \notin {MessageItem(m) : m \in LinkedMessages(ss, L)}})

\* Steps 3 and 4: drop the items of the leaves and of their messages; the
\* remaining ordinals are left as they are.
WithoutPurged(ss, c, L) ==
    Restrict(c, {o \in DOMAIN c :
                    /\ c[o] \notin {SummaryItem(s) : s \in L}
                    /\ c[o] \notin {MessageItem(m) : m \in LinkedMessages(ss, L)}})

\* Step 5: messages of the leaves, except those another live summary links.
NewlyHidden(ss, L) ==
    {m \in LinkedMessages(ss, L) :
        ~\E s \in DOMAIN ss : m \in ss[s].msgs /\ ~ss[s].suppressed /\ s \notin L}
=============================================================================
