------------------------------ MODULE Assembly ------------------------------
(***************************************************************************)
(* What the model sees of a conversation: a host message is stored as      *)
(* message_parts rows (engine/ingest.py), the context items are read back  *)
(* as runtime messages, cut to a token budget, stripped of tool calls      *)
(* whose results were cut, cleaned and repaired (assembler.py,             *)
(* transcript_repair.py), and preassemble (engine/assemble.py) answers     *)
(* with the result or with the host's own list.                            *)
(*                                                                         *)
(* A block is its type and its tool id; texts are "text" or "blank".  A    *)
(* message's ordinal is its place in the context.  Rows written by the     *)
(* engine carry no raw block; rows of an imported lossless-claw database   *)
(* do.  The stop reason of a message is not stored, so the branch of the   *)
(* repair for turns that stopped in error is out of reach from here.       *)
(***************************************************************************)
EXTENDS Integers, SequencesExt, FiniteSetsExt, Functions

CONSTANTS
    Messages,    \* messages the host may produce
    Imported,    \* messages of an imported database
    MaxItems,    \* bound: context items, and messages of the host
    Budgets,     \* token budgets of the requests
    TailCounts,  \* settings of fresh_tail_count
    TailCaps,    \* settings of fresh_tail_max_tokens, NoCap included
    NoCap,       \* no fresh_tail_max_tokens
    CallIds,     \* tool call ids
    NoCallId     \* no tool call id

Roles == {"user", "assistant", "system", "tool", "toolResult"}
CallTypes == {"toolCall", "tool_use", "function_call"}
ToolRawTypes == CallTypes \union {"tool_result"}
BlockTypes == ToolRawTypes \cup {"text", "blank", "thinking", "none"}

\* toolu_lcm_{part_id}: the id made for a part, here by its message's ordinal
\* in the context and its place in the message.
SyntheticId(o, i) == <<"toolu_lcm", o, i>>
BlockIds == CallIds \cup {NoCallId} \cup {SyntheticId(o, i) : o \in Nat, i \in Nat}
Blocks == [type : BlockTypes, id : BlockIds]
HostBlocks == [type : BlockTypes, id : CallIds \cup {NoCallId}]

\* A str content is one block, a list content any number; a message without
\* any text may cost no token.
HostMessages ==
    [role : Roles, form : {"str", "list"}, blocks : Seq(HostBlocks), id : CallIds \cup {NoCallId},
     calls : SUBSET CallIds, size : Nat]

ASSUME AssemblyAssumption ==
    /\ MaxItems \in Nat \ {0}
    /\ Budgets \subseteq Nat /\ TailCounts \subseteq Nat
    /\ NoCap \in TailCaps /\ TailCaps \ {NoCap} \subseteq Nat
    /\ Messages \cup Imported \subseteq HostMessages
    /\ \A m \in Messages \cup Imported : m.form = "str" => m.blocks # << >>

VARIABLES
    ctx,   \* the context items of the conversation, in ordinal order
    live,  \* the host's message list
    reply  \* the last answer, or NoReply

assemblyVars == <<ctx, live, reply>>

NoBlock == [type |-> "none", id |-> NoCallId]
NoReply == [path |-> "none", msgs |-> << >>, inp |-> << >>, kept |-> {}]

\* The blocks, parts or calls of s at the places I, in their order.
Pick(s, I) ==
    [k \in 1..Cardinality(I) |-> s[CHOOSE i \in I : Cardinality({j \in I : j < i}) = k - 1]]
Map(op(_), s) == [i \in DOMAIN s |-> op(s[i])]
Ids(blocks, types) == {b.id : b \in {c \in Range(blocks) : c.type \in types}} \ {NoCallId}

-----------------------------------------------------------------------------
(* Storing a message. *)

\* One part per block of a list content; the block itself is not kept, and a
\* text is kept only when it is the block's "text".
BlockPart(m, b) ==
    [type |-> IF b.type \in ToolRawTypes THEN "tool" ELSE "text",
     text |-> IF b.type = "text" THEN "text" ELSE "blank",
     id   |-> IF b.id # NoCallId THEN b.id ELSE m.id,
     raw  |-> NoBlock]

\* _build_message_parts reads the content only: the calls of an
\* OpenAI-shaped turn (m.calls) are in no part.
MessageParts(m) ==
    IF m.form = "str"
    THEN <<[type |-> "text", text |-> m.blocks[1].type, id |-> m.id, raw |-> NoBlock]>>
    ELSE Map(LAMBDA b : BlockPart(m, b), m.blocks)

\* lossless-claw's parts keep the block as metadata.raw and its type.
ImportedParts(m) ==
    Map(LAMBDA b : [BlockPart(m, b) EXCEPT !.raw = b], m.blocks)

MessageRow(m, parts) ==
    [kind |-> "message", role |-> m.role, parts |-> parts, tokens |-> m.size,
     text |-> m.form = "str" /\ m.blocks[1].type = "text"]

SummaryRow == [kind |-> "summary", role |-> "user", parts |-> << >>, tokens |-> 1,
               text |-> TRUE]

-----------------------------------------------------------------------------
(* Reading it back. *)

\* The runtime role of a row; rows keep the host's role as originalRole.
ToRuntimeRole(row) == CASE row.role \in {"tool", "toolResult"} -> "toolResult"
                        [] row.role = "system" -> "user"
                        [] OTHER -> row.role

\* Of the fields a part may hold its id in, the first that is set.
PickToolCallId(parts) ==
    LET held == {i \in DOMAIN parts : parts[i].id # NoCallId}
    IN  IF held = {} THEN NoCallId ELSE parts[Min(held)].id

\* A call block keeps its type when the row says it.  When the row has no id
\* a function_call goes without, and any other call gets the id made for it.
ToolCallBlock(part, made) ==
    LET type == IF part.raw.type \in CallTypes THEN part.raw.type ELSE "toolCall"
    IN  [type |-> type,
         id   |-> IF part.id = NoCallId /\ type # "function_call" THEN made ELSE part.id]

ToolResultBlock(part) == [type |-> "tool_result", id |-> part.id]

\* A tool part is read back as a result in a toolResult message only: the
\* tool_result block of a user message comes back as a call.
BlockFromPart(row, part, made) ==
    CASE part.raw # NoBlock /\ part.raw.type \notin ToolRawTypes -> part.raw
      [] part.type = "tool" /\ row.role = "toolResult" -> ToolResultBlock(part)
      [] part.type = "tool" /\ row.role # "toolResult" -> ToolCallBlock(part, made)
      [] OTHER -> [type |-> part.text, id |-> NoCallId]

\* The content of a message without parts is its plain text.
ContentFromParts(row, o) ==
    IF row.parts = << >>
    THEN <<[type |-> "text", id |-> NoCallId]>>
    ELSE [i \in DOMAIN row.parts |-> BlockFromPart(row, row.parts[i], SyntheticId(o, i))]

\* A tool result whose id was lost is shown as an assistant turn.
ResolvedItem(items, o) ==
    LET row == items[o]
        own == ToRuntimeRole(row)
        id  == IF own = "toolResult" THEN PickToolCallId(row.parts) ELSE NoCallId
    IN  [ord |-> o, tokens |-> row.tokens, isMessage |-> row.kind = "message",
         role |-> IF own = "toolResult" /\ id = NoCallId THEN "assistant" ELSE own,
         id |-> id, blocks |-> ContentFromParts(row, o), synthetic |-> FALSE]

\* An assistant row with neither text nor parts resolves to nothing.
Resolvable(row) == ~(row.role = "assistant" /\ ~row.text /\ row.parts = << >>)

ResolveItems(items) ==
    [o \in {o \in DOMAIN items : Resolvable(items[o])} |-> ResolvedItem(items, o)]

-----------------------------------------------------------------------------
(* Cutting to the budget.  Items are a function of their ordinals. *)

Cost(items, ords) == MapThenSumSet(LAMBDA o : items[o].tokens, ords)

\* Past every ordinal: nothing is protected.
EmptyFreshTailOrdinal == MaxItems + 1

RawMessages(resolved) == {o \in DOMAIN resolved : resolved[o].isMessage}
UpFrom(ords, o) == {p \in ords : p >= o}

\* The tail may start at o: it has at most count messages, and the cap holds.
TailFromExclusive(resolved, o, count, cap) ==
    LET newer == UpFrom(RawMessages(resolved), o)
    IN  Cardinality(newer) <= count /\ (cap = NoCap \/ Cost(resolved, newer) <= cap)

\* The tail may start at o: it has at most count messages, and keeps to the
\* cap unless o is the newest message.
TailFrom(resolved, o, count, cap) ==
    LET newer == UpFrom(RawMessages(resolved), o)
    IN  /\ Cardinality(newer) <= count
        /\ newer = {o} \/ cap = NoCap \/ Cost(resolved, newer) <= cap

\* The smallest ordinal of the fresh tail.
FreshTailOrdinal(resolved, count, cap) ==
    LET starts == {o \in RawMessages(resolved) : TailFrom(resolved, o, count, cap)}
    IN  IF starts = {} THEN EmptyFreshTailOrdinal ELSE Min(starts)

\* score_relevance, cut down to whether an item shares terms with the prompt;
\* ties go to the newer item.
MoreRelevant(relevant, a, b) ==
    \/ a \in relevant /\ b \notin relevant
    \/ (a \in relevant <=> b \in relevant) /\ a > b

LeastRelevant(relevant, S) ==
    CHOOSE o \in S : \A p \in S \ {o} : MoreRelevant(relevant, p, o)

\* Prompt-aware: from the most relevant item on, an item is kept when it fits
\* with what was kept before it, and passed over when it does not.
KeepRelevant(resolved, evictable, remaining, relevant) ==
    LET kept[S \in SUBSET evictable] ==
            IF S = {} THEN {}
            ELSE LET o == LeastRelevant(relevant, S)
                     before == kept[S \ {o}]
                 IN  IF Cost(resolved, before \cup {o}) <= remaining
                     THEN before \cup {o} ELSE before
    IN  kept[evictable]

\* Chronological: the newest items, stopping at the first that does not fit.
KeepNewest(resolved, evictable, remaining) ==
    {o \in evictable : Cost(resolved, UpFrom(evictable, o)) <= remaining}

\* budget_walk: the evictable items that are kept.  The fresh tail is paid
\* for first, and is kept even when it exceeds the budget alone.
BudgetWalk(resolved, evictable, tail, inp) ==
    LET remaining == Max({0, inp.budget - Cost(resolved, tail)})
    IN  CASE Cost(resolved, evictable) <= remaining -> evictable
          [] Cost(resolved, evictable) > remaining /\ inp.searchable ->
                KeepRelevant(resolved, evictable, remaining, inp.relevant)
          [] OTHER -> KeepNewest(resolved, evictable, remaining)

-----------------------------------------------------------------------------
(* Stripping, cleaning and repairing. *)

\* The ordinals at which a result for an id stands among the items.
ResultOrds(items, id) == {o \in DOMAIN items : items[o].id = id}

CallKeptIfEverAnswered(b, ord, selected, resolved, boundary) ==
    \/ b.type \notin CallTypes \/ b.id = NoCallId
    \/ \E o \in ResultOrds(resolved, b.id) : o > ord
    \/ ord >= boundary /\ ResultOrds(resolved, b.id) = {}

\* filter_non_fresh_assistant_tool_calls, one block: a call stays when a
\* selected result comes later, or when it is at or above the boundary and
\* has no result in the whole context.
CallKept(b, ord, selected, resolved, boundary) ==
    \/ b.type \notin CallTypes \/ b.id = NoCallId
    \/ \E o \in ResultOrds(selected, b.id) : o > ord
    \/ ord >= boundary /\ ResultOrds(resolved, b.id) = {}

Assistants(items) == {o \in DOMAIN items : items[o].role = "assistant"}

\* The items with assistant turns cut down to some of their blocks.
Trimmed(items, places) ==
    [o \in DOMAIN items |->
        IF o \in Assistants(items)
        THEN [items[o] EXCEPT !.blocks = Pick(items[o].blocks, places[o])] ELSE items[o]]

\* A turn that loses every block goes with them.
FilterCalls(selected, resolved, boundary) ==
    LET stays == [o \in Assistants(selected) |->
                     {i \in DOMAIN selected[o].blocks :
                         CallKept(selected[o].blocks[i], o, selected, resolved, boundary)}]
        gone == {o \in Assistants(selected) : stays[o] = {}}
    IN  Restrict(Trimmed(selected, stays), DOMAIN selected \ gone)

\* Blank texts go; then an assistant turn that is empty or thinks only goes.
CleanAssistants(items) ==
    LET stays == [o \in Assistants(items) |->
                     {i \in DOMAIN items[o].blocks : items[o].blocks[i].type # "blank"}]
        gone == {o \in Assistants(items) :
                   \A i \in stays[o] : items[o].blocks[i].type = "thinking"}
    IN  Restrict(Trimmed(items, stays), DOMAIN items \ gone)

\* The places of the blocks of msg that have one of these types.
Typed(msg, types) == {i \in DOMAIN msg.blocks : msg.blocks[i].type \in types}

\* One function call followed by reasoning: the reasoning moves to the front.
HoistReasoning(msg) ==
    LET think == Typed(msg, {"thinking"})
        calls == Typed(msg, CallTypes)
        late  == \E i \in calls, j \in think : i < j
        one   == Cardinality(Typed(msg, {"function_call"})) = 1
    IN  IF think \cup calls = DOMAIN msg.blocks /\ late /\ one
        THEN [msg EXCEPT !.blocks = Pick(msg.blocks, think) \o Pick(msg.blocks, calls)]
        ELSE msg

\* The ids an assistant turn calls, in order.
ToolCalls(msg) ==
    LET named == {i \in Typed(msg, CallTypes) : msg.blocks[i].id # NoCallId}
    IN  Map(LAMBDA b : b.id, Pick(msg.blocks, named))

MissingResult(id) ==
    [ord |-> 0, tokens |-> 0, isMessage |-> FALSE, role |-> "toolResult", id |-> id,
     blocks |-> <<[type |-> "text", id |-> NoCallId]>>, synthetic |-> TRUE]

\* What follows the turn at o, up to the next assistant turn.
Span(msgs, o) ==
    {p \in DOMAIN msgs : p > o /\ \A q \in Assistants(msgs) : q > o => q > p}

\* The result for an id in the span of its turn, or a synthetic one.
ResultFor(msgs, o, id) ==
    LET at == {p \in Span(msgs, o) : msgs[p].role = "toolResult" /\ msgs[p].id = id}
    IN  IF at = {} THEN MissingResult(id) ELSE msgs[Min(at)]

\* The ids that have a result, or a synthetic one, before the turn at o.
Seen(msgs, o) == UNION {Range(ToolCalls(msgs[t])) : t \in {q \in Assistants(msgs) : q < o}}

PushResultAlways(ids, seen) == ids

\* One result per id over the whole transcript: the ids that get theirs now.
PushResult(ids, seen) ==
    Pick(ids, {k \in DOMAIN ids : ids[k] \notin seen /\ \A j \in 1..(k - 1) : ids[j] # ids[k]})

\* What an item becomes: an assistant turn takes its results along, in the
\* order of its calls, other results are dropped, the rest stays in place.
Repaired(msgs, o) ==
    CASE msgs[o].role = "assistant" ->
            <<HoistReasoning(msgs[o])>>
            \o Map(LAMBDA id : ResultFor(msgs, o, id),
                   PushResult(ToolCalls(msgs[o]), Seen(msgs, o)))
      [] msgs[o].role = "toolResult" -> << >>
      [] OTHER -> <<msgs[o]>>

\* sanitize_tool_use_result_pairing, for messages with ordinals up to n.
SanitizePairing(msgs, n) ==
    FlattenSeq([o \in 1..n |-> IF o \in DOMAIN msgs THEN Repaired(msgs, o) ELSE << >>])

\* ContextAssembler.assemble.
AssembleItems(items, inp) ==
    LET resolved == ResolveItems(items)
        boundary == FreshTailOrdinal(resolved, inp.tail, inp.cap)
        tail     == UpFrom(DOMAIN resolved, boundary)
        kept     == BudgetWalk(resolved, DOMAIN resolved \ tail, tail, inp) \cup tail
        filtered == FilterCalls(Restrict(resolved, kept), resolved, boundary)
    IN  [path |-> "assembled", msgs |-> SanitizePairing(CleanAssistants(filtered), Len(items)),
         inp |-> [inp EXCEPT !.relevant = {}], kept |-> kept]

\* The host's list without the assistant turns at its end.
SafeFallback(msgs, inp) ==
    LET n == Max({0} \union {i \in DOMAIN msgs : msgs[i].role # "assistant"})
    IN  [path |-> "fallback", inp |-> inp, kept |-> {},
         msgs |-> Map(LAMBDA o : [ord |-> o, tokens |-> 0, isMessage |-> TRUE,
                                  role |-> msgs[o].role, id |-> msgs[o].id,
                                  blocks |-> msgs[o].blocks, synthetic |-> FALSE],
                      [o \in 1..n |-> o])]

-----------------------------------------------------------------------------
(* The system. *)

\* An imported conversation has one message here.
AssemblyInit ==
    /\ ctx \in {<< >>} \union {<<MessageRow(m, ImportedParts(m))>> : m \in Imported}
    /\ live = << >>
    /\ reply = NoReply

\* A message of the host is ingested.
Ingest(m) ==
    /\ Len(live) < MaxItems /\ Len(ctx) < MaxItems
    /\ ctx' = Append(ctx, MessageRow(m, MessageParts(m)))
    /\ live' = Append(live, m)
    /\ reply' = NoReply

\* A leaf pass replaces the oldest n messages by their summary, whatever
\* calls and results they hold.
CompactOldest(n) ==
    /\ n \in 1..Len(ctx) /\ \A o \in 1..n : ctx[o].kind = "message"
    /\ ctx' = <<SummaryRow>> \o SubSeq(ctx, n + 1, Len(ctx))
    /\ reply' = NoReply /\ UNCHANGED live

\* A request changes nothing, so one answer per context is enough.
Assemble(inp) ==
    /\ reply = NoReply /\ ctx # << >>
    /\ reply' = AssembleItems(ctx, inp)
    /\ UNCHANGED <<ctx, live>>

\* preassemble asks without a prompt, and falls back to the host's list when
\* there is no context, when raw context trails the host's list, and when the
\* result is empty or has no user turn.
Preassemble(inp) ==
    LET out == AssembleItems(ctx, inp)
        raw == \A o \in DOMAIN ctx : ctx[o].kind = "message"
    IN  /\ reply = NoReply
        /\ reply' = IF \/ ctx = << >>
                       \/ raw /\ Len(ctx) < Len(live)
                       \/ live # << >> /\ \A m \in Range(out.msgs) : m.role # "user"
                      THEN SafeFallback(live, inp) ELSE out
        /\ UNCHANGED <<ctx, live>>

Inputs(searchable) ==
    [budget : Budgets, tail : TailCounts, cap : TailCaps, searchable : {searchable},
     relevant : IF searchable THEN SUBSET (1..Len(ctx)) ELSE {{}}]

AssemblyNext ==
    \/ \E m \in Messages : Ingest(m)
    \/ \E n \in 1..MaxItems : CompactOldest(n)
    \/ \E inp \in Inputs(TRUE) : Assemble(inp)
    \/ \E inp \in Inputs(FALSE) : Preassemble(inp)

AssemblySpec == AssemblyInit /\ [][AssemblyNext]_assemblyVars

-----------------------------------------------------------------------------
(* Properties. *)

Assembled == reply.path = "assembled"

\* The id is called by one block of the assembled transcript only.
CalledOnce(id) ==
    Cardinality(UNION {{<<i, j>> : j \in {k \in Typed(reply.msgs[i], CallTypes) :
                                            reply.msgs[i].blocks[k].id = id}} :
                       i \in Assistants(reply.msgs)}) = 1

\* The turn whose run of results position i is in.
TurnOf(i) == Max({0} \union {j \in 1..(i - 1) : reply.msgs[j].role # "toolResult"})

\* Whatever was evicted, stripped or compacted, the transcript pairs: every
\* result stands in the run right after the assistant turn that calls it, no
\* id is answered twice, and every call of an id called once is answered
\* (transcript_repair.py: "Anthropic ... reject transcripts where assistant
\* tool calls are not immediately followed by matching tool results").
Paired ==
    Assembled =>
    /\ \A i \in DOMAIN reply.msgs : reply.msgs[i].role = "toolResult" =>
          /\ TurnOf(i) # 0 /\ reply.msgs[TurnOf(i)].role = "assistant"
          /\ reply.msgs[i].id \in Ids(reply.msgs[TurnOf(i)].blocks, CallTypes)
          /\ \A k \in DOMAIN reply.msgs :
                k # i /\ reply.msgs[k].role = "toolResult" => reply.msgs[k].id # reply.msgs[i].id
    /\ \A i \in DOMAIN reply.msgs : reply.msgs[i].role = "assistant" =>
          \A id \in Ids(reply.msgs[i].blocks, CallTypes) : CalledOnce(id) =>
             \E k \in DOMAIN reply.msgs : /\ reply.msgs[k].role = "toolResult"
                                        /\ reply.msgs[k].id = id /\ TurnOf(k) = i

\* No call is answered with "missing tool result in session history" while
\* the context's one result for it stands in the call's own span: evicting
\* the result takes the call with it.
NoFalseMissing ==
    Assembled => \A i \in DOMAIN reply.msgs : reply.msgs[i].synthetic =>
        LET call == reply.msgs[TurnOf(i)].ord
        IN  ~\E o \in (call + 1)..Len(ctx) :
                /\ ResultOrds(ResolveItems(ctx), reply.msgs[i].id) = {o}
                /\ \A q \in (call + 1)..(o - 1) : ResolvedItem(ctx, q).role # "assistant"

\* What is selected fits the budget unless the fresh tail alone exceeds it,
\* and then nothing that costs a token is selected but the fresh tail; the
\* newest message is always in the tail (budget_walk,
\* resolve_fresh_tail_ordinal).
WithinBudget ==
    Assembled =>
    LET resolved == ResolveItems(ctx)
        boundary == FreshTailOrdinal(resolved, reply.inp.tail, reply.inp.cap)
    IN  /\ Cost(resolved, reply.kept) > reply.inp.budget =>
              \A o \in reply.kept : o < boundary => resolved[o].tokens = 0
        /\ RawMessages(resolved) # {} /\ reply.inp.tail > 0 =>
              Max(RawMessages(resolved)) \in reply.kept
=============================================================================
