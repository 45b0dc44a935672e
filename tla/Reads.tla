------------------------------- MODULE Reads -------------------------------
(***************************************************************************)
(* The agent's reading tools over the store other processes keep changing: *)
(* lcm_grep in its five modes (tools/grep.py, the searches of the stores,   *)
(* embeddings/semantic_search.py and hybrid_search.py), lcm_describe,      *)
(* lcm_get_entity and lcm_search_entities.                                 *)
(*                                                                         *)
(* The connection is in autocommit mode: a tool is a sequence of           *)
(* statements, with awaits of the embedding provider between them, and a   *)
(* purge, a compaction, an ingest, an embedding tick or a session reset of *)
(* another connection may commit between any two.  A search result is the  *)
(* set of its rows; a text is whether the query matches it; time is the    *)
(* order in which rows were written.                                       *)
(***************************************************************************)
EXTENDS Integers, FiniteSets

CONSTANTS
    Convs, KeyOf, SidOf, NoKey,  \* conversations: session_key and session_id
    Callers,                     \* session keys tool calls come with
    Msgs, Leaves, Condensed,     \* rows that exist at some time
    ConvOf,                      \* row |-> its conversation
    Sources,                     \* summary_messages: leaf |-> its messages
    Links,                       \* summary_parents: <<condensed, what it is made of>>
    Age, Dist,                   \* row |-> order of writing; summary |-> distance rank
    Textual, Raw,                \* rows the query matches; also in their raw content
    Oversize,                    \* summaries above the rerank call's budget
    Entities, EntityKey, Mentions,
    Files, FileConv,             \* large_files rows and their conversations
    Late, LateConvs,             \* rows and conversations that are written later
    ConvArgs,                    \* conversationId arguments
    Windows,                     \* limit and since arguments, in pairs
    Wide,                        \* how much more than the limit an arm fetches
    MaxOffset                    \* _EXPAND_MESSAGES_OFFSET_HARD_CAP

Sums == Leaves \cup Condensed
Rows == Msgs \cup Sums
NoId == "no id"

ASSUME ReadsAssumption ==
    /\ Late \subseteq Rows /\ LateConvs \subseteq Convs
    /\ Textual \subseteq Raw /\ Raw \subseteq Rows
    /\ Links \subseteq Condensed \X Sums
    /\ Windows \subseteq (Nat \ {0}) \X Nat /\ Wide \in Nat \ {0} /\ MaxOffset \in Nat
    /\ NoKey \notin Callers
    /\ IsFiniteSet(Rows) /\ Files \cap Rows = {}
    /\ Age \in [Rows -> Nat] /\ \A x, y \in Rows : x # y => Age[x] # Age[y]
    /\ Sources \in [Leaves -> SUBSET Msgs]
    /\ \A l \in Leaves : Sources[l] \cap Late # {} => l \in Late
    /\ \A x \in Rows \ Late : ConvOf[x] \in Convs \ LateConvs

\* The rows a summary is made of belong to its conversation.
ASSUME OneConversation ==
    /\ \A k \in Links : ConvOf[k[1]] = ConvOf[k[2]]
    /\ \A l \in Leaves : \A m \in Sources[l] : ConvOf[m] = ConvOf[l]

VARIABLES
    convs, active,   \* conversations rows; those with active = 1
    rows, dead,      \* summaries and messages rows; those with suppressed_at set
    fts, vec,        \* rows in the full-text index; summaries in the vec0 table
    extracted,       \* leaves whose entity mentions are stored
    req,             \* the call in progress, or Idle
    ans,             \* history: what the call just made returned, or NoAnswer
    page             \* history: the agent's paging through a leaf's messages

store == <<convs, active, rows, dead, fts, vec, extracted>>
vars == <<store, req, ans, page>>

Idle == [pc |-> "idle"]
NoAnswer == [shown |-> {}]
NoPage == [leaf |-> NoId]

Init ==
    /\ convs = Convs \ LateConvs /\ active = Convs \ LateConvs
    /\ rows = Rows \ Late /\ dead = {}
    /\ fts = rows /\ vec = Sums \ Late
    /\ extracted = Leaves \ Late
    /\ req = Idle /\ ans = NoAnswer /\ page = NoPage

-----------------------------------------------------------------------------
(***************************************************************************)
(* What the other connections do.                                          *)
(***************************************************************************)

\* insert_summary or create_message; the index insert may fail, unnoticed.
WriteRow(x) ==
    /\ x \notin rows
    /\ x \in Leaves => Sources[x] \subseteq rows
    /\ x \in Condensed => \A l \in Links : l[1] = x => l[2] \in rows \ dead
    /\ ConvOf[x] \in convs
    /\ rows' = rows \cup {x}
    /\ ans' = NoAnswer
    /\ \E ok \in BOOLEAN : fts' = IF ok THEN fts \cup {x} ELSE fts
    /\ UNCHANGED <<convs, active, dead, vec, extracted, req, page>>

\* A backfill tick and an extraction tick, seen from here.
Embed(s) ==
    /\ s \in (Sums \cap rows) \ (dead \cup vec)
    /\ vec' = vec \cup {s}
    /\ ans' = NoAnswer
    /\ UNCHANGED <<convs, active, rows, dead, fts, extracted, req, page>>

Extract(l) ==
    /\ l \in (Leaves \cap rows) \ (dead \cup extracted)
    /\ extracted' = extracted \cup {l}
    /\ ans' = NoAnswer
    /\ UNCHANGED <<convs, active, rows, dead, fts, vec, req, page>>

\* Messages of the leaves L that no other visible summary links.
Uncovered(L) ==
    {m \in UNION {Sources[l] : l \in L} :
        \A l \in (Leaves \cap rows) \ (dead \cup L) : m \notin Sources[l]}

\* run_purge of leaves: one transaction.
Purge(L) ==
    /\ L # {} /\ L \subseteq (Leaves \cap rows) \ dead
    /\ dead' = dead \cup L \cup Uncovered(L)
    /\ ans' = NoAnswer
    /\ page' = IF page # NoPage /\ (dead' \ dead) \cap Sources[page.leaf] # {}
               THEN [page EXCEPT !.cut = TRUE] ELSE page
    /\ UNCHANGED <<convs, active, rows, fts, vec, extracted, req>>

\* The active conversation of a session is archived and its next one opened; a
\* key has one active conversation (conversations_active_session_key_idx).
OpenConversation(c) ==
    /\ c \notin convs
    /\ convs' = convs \cup {c}
    /\ ans' = NoAnswer
    /\ active' = {c} \cup {d \in active : KeyOf[d] # KeyOf[c]
                                        \/ (KeyOf[c] = NoKey /\ SidOf[d] # SidOf[c])}
    /\ UNCHANGED <<rows, dead, fts, vec, extracted, req, page>>

-----------------------------------------------------------------------------
(***************************************************************************)
(* The statements the tools are made of.                                   *)
(***************************************************************************)
Visible == rows \ dead

Newest(S, n) == {x \in S : Cardinality({y \in S : Age[y] > Age[x]}) < n}

Nearest(S, n) == {s \in S : Cardinality({t \in S : Dist[t] < Dist[s]}) < n}

\* The n rows a ranking may put first.
AnyOf(S, n) == {T \in SUBSET S : Cardinality(T) = IF n < Cardinality(S) THEN n ELSE Cardinality(S)}

\* append_conversation_scope_constraint
InScope(q, x) == q.all \/ ConvOf[x] \in q.scope

\* suppressed_at IS NULL, the conversation scope and the time window.
Readable(q, S) == {x \in S \cap Visible : InScope(q, x) /\ Age[x] >= q.since}

\* _search_regex of the conversation store and of the summary store: newest
\* first, matched in Python; a store has no more than SQL_SCAN_BOUND rows here.
MessagesRegex(q, n) == {Newest(Readable(q, Msgs) \cap Textual, n)}
SummariesRegex(q, n) == {Newest(Readable(q, Sums) \cap Textual, n)}

\* _search_full_text: a ranking over the index.
MessagesFullText(q, n) == AnyOf(Readable(q, Msgs) \cap Textual \cap fts, n)
SummariesFullText(q, n) == AnyOf(Readable(q, Sums) \cap Textual \cap fts, n)

\* _search_cjk_trigram: the same over the trigram index, and _search_like_cjk.
SummariesTrigram(q, n) == AnyOf(Readable(q, Sums) \cap Textual \cap fts, n)
SummariesLikeCjk(q, n) == {Newest(Readable(q, Sums) \cap Textual, n)}

\* _search_like over summaries.
SummariesLike(q, n) == {Newest(Readable(q, Sums) \cap Textual, n)}

\* _search_like over messages: the normalised text is matched after the LIMIT.
MessagesLike(q, n) == {Newest(Readable(q, Msgs) \cap Raw, n) \cap Textual}

\* search_messages: the index, or LIKE when the query has CJK characters, there
\* is no fts5, or the index fails.
SearchMessages(q, n) ==
    IF q.tool = "regex" THEN MessagesRegex(q, n)
    ELSE MessagesFullText(q, n) \cup MessagesLike(q, n)

\* search_summaries: a query with CJK characters goes to the trigram index, and
\* to LIKE when that finds nothing or is not there.
SearchSummaries(q, n) ==
    IF q.tool = "regex" THEN SummariesRegex(q, n)
    ELSE SummariesFullText(q, n) \cup SummariesLike(q, n)
         \cup SummariesTrigram(q, n) \cup SummariesLikeCjk(q, n)

OfKinds(q, S) == IF q.kinds = {} THEN S ELSE S \cap q.kinds

\* _run_verbatim_lcm_grep's query over messages_fts, or LIKE for CJK text and
\* when the index fails.
VerbatimRows(q) ==
    LET found == Readable(q, Msgs) \cap Textual
    IN  {Newest(found \cap fts, q.limit), Newest(found, q.limit)}

\* _derive_session_keys_from_conversation_ids
SessionKeys(scope) == {KeyOf[c] : c \in scope \cap convs} \ {NoKey}

\* The session_keys filter of mode semantic; no key is no filter.
InSession(q, s) == q.all \/ q.keys = {} \/ KeyOf[ConvOf[s]] \in q.keys

\* run_semantic_search narrows the hits by the session keys in mode semantic, by
\* the conversations in mode hybrid.
Narrowed(q, s) ==
    /\ IF q.tool = "semantic" THEN InSession(q, s) ELSE InScope(q, s)
    /\ Age[s] >= q.since
    /\ q.kinds # {} => s \in q.kinds

\* _is_filtered
Filtered(q) ==
    \/ IF q.tool = "semantic" THEN q.keys # {} ELSE ~q.all
    \/ q.since > 0 \/ q.kinds # {}

\* search_similar; over-fetched when a filter is to come.  The vec0 table's
\* suppressed column follows the summaries row.
SearchSimilar(q, n) ==
    Nearest((vec \cap rows) \ dead, IF Filtered(q) THEN n * Wide ELSE n)

\* resolve_lcm_conversation_scope without conversationId or allConversations:
\* the conversation of the key, else of the session id (the adapters pass the
\* key for both), with the other segments of its session.
ByKey(k) == {c \in active : KeyOf[c] = k}
BySid(k) ==
    LET mine == {c \in convs : SidOf[c] = k}
    IN  IF mine \cap active # {} THEN mine \cap active ELSE mine

\* Mutant of Family: the archived segments of a session are forgotten.
FamilyActive(c) ==
    IF KeyOf[c] # NoKey THEN {d \in active : KeyOf[d] = KeyOf[c]}
    ELSE {d \in active : SidOf[d] = SidOf[c]}

\* get_conversation_family_ids
Family(c) ==
    IF KeyOf[c] # NoKey THEN {d \in convs : KeyOf[d] = KeyOf[c]}
    ELSE {d \in convs : SidOf[d] = SidOf[c]}

SessionScope(k) ==
    IF ByKey(k) # {} THEN {Family(c) : c \in ByKey(k)} ELSE {Family(c) : c \in BySid(k)}

-----------------------------------------------------------------------------
(***************************************************************************)
(* Calls.                                                                  *)
(***************************************************************************)
Greps == {"regex", "full_text", "verbatim", "hybrid", "semantic"}

\* The rows a keyword search of the tool can come upon.
Searched(tool) ==
    CASE tool = "regex" -> rows
      [] tool = "verbatim" -> rows \cap fts \cap Msgs
      [] tool = "hybrid" -> rows \cap fts \cap Sums
      [] OTHER -> {}

\* The fields who, gone and whole are history: the session whose conversations
\* the scope is, what had been purged, and what could be found, at the call.
NewCall(tool, s, w) ==
    [pc |-> "start", tool |-> tool, scope |-> s.sc, all |-> s.all, who |-> s.who,
     keys |-> SessionKeys(s.sc), limit |-> w[1], since |-> w[2], kinds |-> {}, id |-> NoId,
     offset |-> 0, ids |-> {}, hits |-> {}, count |-> 0, packed |-> TRUE,
     gone |-> dead, whole |-> Searched(tool)]

\* page is kept only while the agent goes on paging.
Begin(q) ==
    /\ req = Idle /\ ans = NoAnswer
    /\ req' = q
    /\ page' = IF q.offset > 0 THEN page ELSE NoPage
    /\ UNCHANGED <<store, ans>>

\* The answer has been delivered.
Delivered ==
    /\ ans # NoAnswer
    /\ ans' = NoAnswer
    /\ UNCHANGED <<store, req, page>>

\* Scope arguments: conversationId, allConversations, or the caller's session;
\* a session without a conversation gets an error, which changes nothing.
Scopes ==
    {[sc |-> {c}, all |-> FALSE, who |-> NoKey] : c \in ConvArgs}
    \cup {[sc |-> {}, all |-> TRUE, who |-> NoKey]}
    \cup UNION {{[sc |-> s, all |-> FALSE, who |-> k] : s \in SessionScope(k)} : k \in Callers}

\* handle_lcm_grep; embeddings_enabled and a Voyage client are given.
Grep ==
    \E tool \in Greps, s \in Scopes, w \in Windows :
        \E ks \in IF tool \in {"hybrid", "semantic"} THEN {{}, Leaves} ELSE {{}} :
            Begin([NewCall(tool, s, w) EXCEPT !.kinds = ks])

\* _clamp_int of expandMessagesOffset.
Clamped(n) == IF n > MaxOffset THEN MaxOffset ELSE n

\* handle_lcm_describe with expandChildren and expandMessages; an agent that pages
\* gives the offset it was told.
Describe ==
    \E s \in Scopes, id \in Sums \cup Files, w \in Windows :
        \E off \in {0} \cup (IF page # NoPage /\ page.leaf = id THEN {Clamped(page.next)}
                            ELSE {}) :
            Begin([NewCall("describe", s, w) EXCEPT !.id = id, !.offset = off])

\* handle_lcm_get_entity and handle_lcm_search_entities: the caller's key only.
EntityCall ==
    \E k \in Callers, e \in Entities, w \in Windows, tool \in {"get_entity", "search_entities"} :
        Begin([NewCall(tool, [sc |-> {}, all |-> FALSE, who |-> k], w) EXCEPT
                  !.id = IF EntityKey[e] = k THEN e ELSE NoId])

At(tool, pc) == req # Idle /\ req.tool \in tool /\ req.pc = pc

Goto(q, pc) == req' = [q EXCEPT !.pc = pc] /\ UNCHANGED <<store, ans, page>>

\* The answer, with what the properties need of the call.
Reply(shown) ==
    /\ ans' = [shown |-> shown,
               q |-> [req EXCEPT !.pc = "idle", !.id = NoId, !.offset = 0,
                                 !.ids = {}, !.hits = {}, !.count = 0]]
    /\ req' = Idle
    /\ UNCHANGED store

\* _run_regex_or_full_text_grep: messages, then summaries.
GrepMessages ==
    /\ At({"regex", "full_text"}, "start")
    /\ \E found \in SearchMessages(req, req.limit) :
         Goto([req EXCEPT !.hits = found], "summaries")

GrepSummaries ==
    /\ At({"regex", "full_text"}, "summaries")
    /\ \E found \in SearchSummaries(req, req.limit) : Reply(req.hits \cup found)
    /\ UNCHANGED page

GrepVerbatim ==
    /\ At({"verbatim"}, "start")
    /\ \E found \in VerbatimRows(req) : Reply(found)
    /\ UNCHANGED page

\* fts_search of _run_hybrid_lcm_grep: the search...
FtsSearch ==
    /\ At({"hybrid"}, "start")
    /\ \E found \in SearchSummaries(req, req.limit * Wide) :
         Goto([req EXCEPT !.ids = found], "hydrate")

\* ... and the second statement, which loads the rows found.
FtsHydrate ==
    /\ At({"hybrid"}, "hydrate")
    /\ Goto([req EXCEPT !.hits = OfKinds(req, req.ids \cap Visible), !.ids = {}], "embed")

\* run_semantic_search up to its await; hybrid goes on without it when the
\* infrastructure is missing or the provider fails, except for the key.
EmbedQuery ==
    /\ At({"hybrid", "semantic"}, IF req.tool = "hybrid" THEN "embed" ELSE "start")
    /\ Goto(req, "knn")

EmbedFails ==
    /\ At({"hybrid", "semantic"}, IF req.tool = "hybrid" THEN "embed" ELSE "start")
    /\ \/ req.tool = "hybrid" /\ Goto(req, "pack")
       \/ Reply({}) /\ UNCHANGED page

Knn ==
    /\ At({"hybrid", "semantic"}, "knn")
    /\ Goto([req EXCEPT !.ids = SearchSimilar(req, req.limit)], "join")

\* The join with summaries, where the filters are.
SemJoin(q) == Nearest({s \in q.ids \cap Visible : Narrowed(q, s)}, q.limit)

Join ==
    /\ At({"hybrid", "semantic"}, "join")
    /\ \/ /\ req.tool = "semantic"
          /\ Reply(SemJoin(req)) /\ UNCHANGED page
       \/ /\ req.tool = "hybrid"
          /\ Goto([req EXCEPT !.hits = @ \cup SemJoin(req), !.ids = {}], "pack")

\* Mutant of Pack: an oversize candidate is left out without a word.
PackSilently ==
    /\ At({"hybrid"}, "pack")
    /\ Goto([req EXCEPT !.ids = req.hits \ Oversize], "rerank")

\* The candidates packed until the budget of the rerank call is spent, without
\* those above it by themselves; rerank_pack_truncated tells.
Pack ==
    /\ At({"hybrid"}, "pack")
    /\ \E kept \in SUBSET (req.hits \ Oversize) :
         Goto([req EXCEPT !.ids = kept, !.packed = (kept = req.hits)], "rerank")

\* The reranker's order, or the fused ranking of all candidates when it fails
\* or nothing was packed; an authentication error ends the call.
Rerank ==
    /\ At({"hybrid"}, "rerank")
    /\ \/ \E top \in AnyOf(req.ids, req.limit) : Reply(top)
       \/ \E top \in AnyOf(req.hits, req.limit) : Reply(top)
       \/ Reply({})
    /\ UNCHANGED page

-----------------------------------------------------------------------------
\* Mutant of Targeted: suppressed summaries can be described.
TargetedHidden(q) == q.id \in (Sums \cap rows) \cup Files

\* _resolve_target, and the target is in a conversation of the scope.
Targeted(q) == q.id \in (Sums \cap Visible) \cup Files

TargetConv(q) == IF q.id \in Files THEN FileConv[q.id] ELSE ConvOf[q.id]

DescribeTarget ==
    /\ At({"describe"}, "start")
    /\ IF Targeted(req) /\ (req.all \/ TargetConv(req) \in req.scope)
       THEN IF req.id \in Files THEN Reply({req.id}) /\ UNCHANGED page
            ELSE Goto([req EXCEPT !.hits = {req.id}], "links")
       ELSE Reply({}) /\ UNCHANGED page

\* get_summary_children and get_summary_parents
Children(s) == {l[1] : l \in {k \in Links : k[2] = s}} \cap Visible
Parents(s) == {l[2] : l \in {k \in Links : k[1] = s}} \cap Visible

\* get_summary_subtree, which walks the links whether suppressed or not.
Subtree(s) ==
    LET Above(S) == S \cup {l[1] : l \in {k \in Links : k[2] \in S}}
    IN  Above(Above({s})) \cap Visible

\* _emit_summary's manifest and links...
DescribeLinks ==
    /\ At({"describe"}, "links")
    /\ Goto([req EXCEPT !.hits = @ \cup Subtree(req.id) \cup Parents(req.id),
                        !.ids = Children(req.id)], "rows")

\* ... _fetch_children_rows, for some of the children already named ...
DescribeRows ==
    /\ At({"describe"}, "rows")
    /\ Goto([req EXCEPT !.hits = @ \cup req.ids, !.ids = {}],
            IF req.id \in Leaves THEN "count" ELSE "done")

VisibleSources(l) == Sources[l] \cap Visible

\* ... _count_source_messages ...
DescribeCount ==
    /\ At({"describe"}, "count")
    /\ Goto([req EXCEPT !.count = Cardinality(VisibleSources(req.id))], "fetch")

\* How many of S come before m in the order of created_at.
Rank(S, m) == Cardinality({k \in S : Age[k] < Age[m]})

\* The window of _fetch_source_messages: LIMIT and OFFSET.
Window(q) ==
    LET S == VisibleSources(q.id)
    IN  {m \in S : Rank(S, m) \in q.offset .. q.offset + q.limit - 1}

\* Mutant of Remaining: the range label's offset, which starts at one.
RemainingFromOne(q, got) == q.count - (q.offset + 1 + Cardinality(got))

\* What the pagination hint says is left.
Remaining(q, got) == q.count - (q.offset + Cardinality(got))

\* ... _fetch_source_messages and the answer with its pagination hint.
DescribeFetch ==
    /\ At({"describe"}, "fetch")
    /\ LET got == Window(req)
           earlier == IF req.offset = 0 \/ page = NoPage \/ page.leaf # req.id
                      THEN [leaf |-> req.id, shown |-> {}, cut |-> FALSE] ELSE page
       IN  /\ Reply(req.hits \cup got)
           /\ page' = IF got = {} THEN page
                      ELSE [leaf |-> req.id, next |-> req.offset + Cardinality(got),
                            shown |-> earlier.shown \cup got,
                            cut |-> earlier.cut \/ req.gone # dead,
                            left |-> Remaining(req, got)]

DescribeDone ==
    /\ At({"describe"}, "done")
    /\ Reply(req.hits)
    /\ UNCHANGED page

-----------------------------------------------------------------------------
\* VISIBLE_MENTIONS_CTE: mentions in summaries that are not suppressed.
VisibleMentions(e) == Mentions[e] \cap extracted \cap Visible

\* handle_lcm_search_entities: one aggregate over the visible mentions.
SearchEntities ==
    /\ At({"search_entities"}, "start")
    /\ Reply(IF req.id \in Entities THEN VisibleMentions(req.id) ELSE {})
    /\ UNCHANGED page

\* handle_lcm_get_entity: the same aggregate, then the mention list.
GetEntity ==
    /\ At({"get_entity"}, "start")
    /\ IF req.id \in Entities /\ VisibleMentions(req.id) # {}
       THEN Goto([req EXCEPT !.hits = VisibleMentions(req.id)], "mentions")
       ELSE Reply({}) /\ UNCHANGED page

GetMentions ==
    /\ At({"get_entity"}, "mentions")
    /\ Reply(req.hits \cup Newest(VisibleMentions(req.id), req.limit))
    /\ UNCHANGED page

Next ==
    \/ \E x \in Rows : WriteRow(x)
    \/ \E s \in Sums : Embed(s)
    \/ \E l \in Leaves : Extract(l)
    \/ \E L \in SUBSET Leaves : Purge(L)
    \/ \E c \in Convs : OpenConversation(c)
    \/ Delivered
    \/ Grep \/ Describe \/ EntityCall
    \/ GrepMessages \/ GrepSummaries \/ GrepVerbatim
    \/ FtsSearch \/ FtsHydrate \/ EmbedQuery \/ EmbedFails \/ Knn \/ Join \/ Pack \/ Rerank
    \/ DescribeTarget \/ DescribeLinks \/ DescribeRows \/ DescribeCount \/ DescribeFetch
    \/ DescribeDone
    \/ SearchEntities \/ GetEntity \/ GetMentions

Spec == Init /\ [][Next]_vars

-----------------------------------------------------------------------------
(***************************************************************************)
(* Properties.                                                             *)
(***************************************************************************)
Answered == ans # NoAnswer

\* Whatever the tool and however a purge falls between its statements, an
\* answer shows no summary, message or mention that had been purged when the
\* call came in: no index, link or cached id brings it back.
NothingBuried == Answered => ans.shown \cap ans.q.gone = {}

\* A conversation of session k: it has the key, or k for its session id, or the
\* key of one that has.
OfSession(k, c) ==
    \/ KeyOf[c] = k \/ SidOf[c] = k
    \/ KeyOf[c] # NoKey /\ \E d \in Convs : SidOf[d] = k /\ KeyOf[d] = KeyOf[c]

\* A conversation that session k cannot do without: it has the key, or the
\* session id where no key comes into it.
Belongs(k, c) ==
    \/ KeyOf[c] = k
    \/ SidOf[c] = k /\ \A d \in convs : KeyOf[d] # k /\ (SidOf[d] = k => KeyOf[d] = NoKey)

\* Mode semantic without a key: the empty list of keys is no filter.
Unrestricted(q) == q.tool = "semantic" /\ q.keys = {}

\* A search of the current session answers from that session and no other, and an
\* answer of mode regex or verbatim that is not full has reached all of its
\* segments, archived ones too: it shows every match that was there before the
\* call and has not been purged, though rows are written, purged and segments
\* opened between the statements.  A call with conversationId is about that
\* conversation, in every mode but semantic.
\*
\* Left out: mode semantic of a session without a key, which answers from all
\* conversations (grep.py:1409), and mode semantic with conversationId, which
\* answers from all of its key; the tool promises "Physical conversation ID to
\* search within. If omitted, defaults to the current session family"
\* (grep.py:225-229).
ScopeHonoured ==
    Answered /\ ~ans.q.all /\ ans.q.tool \in Greps \cup {"describe"} =>
        LET q == ans.q
        IN  /\ \A x \in ans.shown \cap Rows :
                 /\ q.tool # "semantic" => ConvOf[x] \in q.scope
                 /\ q.who # NoKey /\ ~Unrestricted(q) => OfSession(q.who, ConvOf[x])
            /\ q.who # NoKey /\ q.tool \in {"regex", "verbatim"}
                   /\ Cardinality(ans.shown) < q.limit =>
                 \A x \in Visible \cap Textual \cap q.whole :
                     Age[x] >= q.since /\ Belongs(q.who, ConvOf[x]) => x \in ans.shown

\* The summaries the keyword arm of q may have had to choose from.
Candidates(q) ==
    {s \in Sums \cap Textual \cap (rows \ q.gone) : InScope(q, s) /\ Age[s] >= q.since}

\* A hybrid answer that is not full and does not say that candidates were left
\* out of the reranking holds every matching summary that was written and
\* indexed before the call and is still visible, whichever arm or provider call
\* failed: degrading never hides what the keyword search alone would find.
\* (The keyword arm itself stops after Wide times the limit: nothing is said when
\* there were more matches than that, the ones purged since the call included.)
HybridHonest ==
    Answered /\ ans.q.tool = "hybrid" /\ ans.shown # {} /\ ans.q.packed
        /\ Cardinality(ans.shown) < ans.q.limit =>
        LET found == {s \in Readable(ans.q, Sums) \cap Textual \cap ans.q.whole :
                          ans.q.kinds # {} => s \in ans.q.kinds}
        IN  Cardinality(Candidates(ans.q)) <= ans.q.limit * Wide => found \subseteq ans.shown

\* An agent that follows the pagination hints through the messages of a leaf
\* until nothing is said to be left has seen every visible one, unless a purge
\* took some of them away meanwhile and shifted the offsets.
PagesComplete ==
    page # NoPage /\ page.left <= 0 /\ ~page.cut =>
        VisibleSources(page.leaf) \subseteq page.shown

=============================================================================
