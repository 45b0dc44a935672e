------------------------------ MODULE Integrity ------------------------------
(***************************************************************************)
(* IntegrityChecker (integrity.py): what its checks report about the rows  *)
(* of one conversation.  The check of messages.seq is not here: message    *)
(* ids stand for it in these rows.                                         *)
(***************************************************************************)
EXTENDS ContextDag

\* _check_context_items_contiguous: ordinals that are not 0, 1, 2 ...
OrdinalGaps(c) == {o \in DOMAIN c : o # Cardinality({p \in DOMAIN c : p < o})}

\* _check_context_items_valid_refs
DanglingRefs(mt, ss, c) ==
    {o \in DOMAIN c : c[o].id \notin DOMAIN IF c[o].type = "message" THEN mt ELSE ss}

\* _check_summaries_have_lineage
MissingLineage(ss) ==
    {s \in DOMAIN ss : IF ss[s].depth = 0 THEN ss[s].msgs = {} ELSE ss[s].parents = {}}

\* _check_no_orphan_summaries, a warning: neither an item nor a source.
OrphanSummaries(ss, c) ==
    DOMAIN ss \ (IdsAt(c, SummaryOrds(c)) \cup UNION {ss[s].parents : s \in DOMAIN ss})

\* _check_no_duplicate_context_refs
DuplicateRefs(c) == {o \in DOMAIN c : \E p \in DOMAIN c \ {o} : c[p] = c[o]}

\* _check_context_token_consistency: the joins against the subqueries.
TokenDifference(mt, ss, c) ==
    TokensAt(mt, ss, c, MessageOrds(c)) + TokensAt(mt, ss, c, SummaryOrds(c))
        - ContextTokens(mt, ss, c)

\* The names of the failing checks in the report of scan.
Failing(mt, ss, c) ==
    {n \in {"context_items_contiguous", "context_items_valid_refs",
            "summaries_have_lineage", "context_token_consistency",
            "no_duplicate_context_refs"} :
        CASE n = "context_items_contiguous" -> OrdinalGaps(c) # {}
          [] n = "context_items_valid_refs" -> DanglingRefs(mt, ss, c) # {}
          [] n = "summaries_have_lineage" -> MissingLineage(ss) # {}
          [] n = "context_token_consistency" -> TokenDifference(mt, ss, c) # 0
          [] OTHER -> DuplicateRefs(c) # {}}

\* The rows that following build_repair_plan would take away: dangling and
\* duplicate items but for the first of each, and orphaned summaries.
PlannedRemovals(mt, ss, c) ==
    {c[o] : o \in DanglingRefs(mt, ss, c)}
    \cup {c[o] : o \in {d \in DuplicateRefs(c) : \E p \in DOMAIN c : p < d /\ c[p] = c[d]}}
    \cup {SummaryItem(s) : s \in OrphanSummaries(ss, c)}
==============================================================================
