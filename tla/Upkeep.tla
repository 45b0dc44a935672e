------------------------------- MODULE Upkeep -------------------------------
(***************************************************************************)
(* The upkeep of one LCM database by the processes that share it:          *)
(* opening it and running the migration ladder (db/migration.py, which     *)
(* also backfills depths, metadata and session keys), finding or creating  *)
(* conversations, writing summaries, merging session keys                  *)
(* (operator/reconcile.py), deleting whole conversations                   *)
(* (doctor/cleaners.py) and rewriting broken summaries (doctor/apply.py).  *)
(* A transaction is one step.  A content is "sound", "marked" (it carries  *)
(* a doctor marker) or "tainted" (rewritten from a source that carried     *)
(* one); an index maps a summary to the content it was built from.         *)
(***************************************************************************)
EXTENDS Summarizer, FiniteSetsExt, SequencesExt

CONSTANTS Proc,       \* processes
          Leaf, Condensed, \* summaries of a database found on disk
          Later,      \* leaf summaries written afterwards
          Home,       \* the conversation of the former
          Legacies,   \* the databases found: [conv, kids, marked]
          CallerKeys, \* session keys callers pass
          NumConv,    \* bound: conversations
          Fts5, Trigram, \* what the SQLite build offers
          MaxOps      \* bound: operator and caller requests

Convs == 1..NumConv
Summaries == Leaf \cup Condensed \cup Later
Key(kind, n) == [kind |-> kind, n |-> n]
NullKey == Key("null", 0)
NoKey == Key("empty", 0)
LegacyKey(c) == Key("legacy", c)

\* Callers strip a session key and pass NULL for an empty one.
ASSUME UpkeepAssumption ==
    /\ Home \in Convs
    /\ Fts5 \in BOOLEAN /\ Trigram \in BOOLEAN
    /\ IsFiniteSet(Leaf) /\ IsFiniteSet(Condensed) /\ IsFiniteSet(Later)
    /\ Leaf \cap Condensed = {} /\ Later \cap (Leaf \cup Condensed) = {}
    /\ NumConv \in Nat \ {0} /\ MaxOps \in Nat
    /\ {NullKey, NoKey} \cap CallerKeys = {}

\* A summary's sources were written before it, and it was condensed once: the
\* pass takes its sources out of the context.
Grown(kids) ==
    /\ kids \in [Condensed -> SUBSET (Leaf \cup Condensed)]
    /\ \A s, t \in Condensed : s # t => kids[s] \cap kids[t] = {}
    /\ \E age \in [Leaf \cup Condensed -> 1 .. Cardinality(Leaf \cup Condensed)] :
          \A s \in Condensed : \A k \in kids[s] : age[k] < age[s]

\* A database found has the conversation its summaries belong to.
ASSUME LegacyAssumption ==
    \A legacy \in Legacies :
        /\ Grown(legacy.kids)
        /\ DOMAIN legacy.conv \subseteq Convs /\ Home \in DOMAIN legacy.conv
        /\ \A c \in DOMAIN legacy.conv : legacy.conv[c] \in
              [live : {TRUE}, sid : Nat, key : CallerKeys \cup {NullKey},
               active : BOOLEAN, brief : BOOLEAN]

VARIABLES db,    \* the committed database
          pc,    \* state of each process
          want,  \* get_or_create_conversation between its lookups and its INSERT
          clean, \* an operator's doctor clean: the scan shown, the backup written
          doc,   \* the doctor apply pass under way
          ops

upkeepVars == <<db, pc, want, clean, doc, ops>>

NoConv == [live |-> FALSE, sid |-> 0, key |-> NullKey, active |-> FALSE, brief |-> FALSE]
NoSummary == [live |-> FALSE, conv |-> Home, depth |-> 0, count |-> 0,
              content |-> "sound", key |-> NoKey]
NoWant == [sid |-> 0, key |-> NullKey]
IdleDoc == [proc |-> "none", todo |-> <<>>, over |-> <<>>, skipped |-> {}]
IdleClean == [proc |-> "none", seen |-> {}, backup |-> {}]

LiveSummaries(d) == {s \in Summaries : d.summ[s].live}
LiveConvs(d) == {c \in Convs : d.conv[c].live}
SummariesOf(d, c) == {s \in LiveSummaries(d) : d.summ[s].conv = c}

\* f with v at x.
Put(f, x, v) == [y \in DOMAIN f \cup {x} |-> IF y = x THEN v ELSE f[y]]

-----------------------------------------------------------------------------
(* The migration ladder.  Every step takes the database to the next one.   *)

\* CREATE TABLE IF NOT EXISTS for the twelve core tables.
EnsureCoreTables(d) == [d EXCEPT !.tables = @ \cup {"core"}]

\* Columns added with their defaults: the depth is 0, the session key ''.
ApplyStructuralColumnProbes(d) ==
    IF "v41" \in d.columns THEN d
    ELSE [d EXCEPT !.columns = @ \cup {"v41"},
                   !.summ = [s \in Summaries |-> IF d.summ[s].live
                       THEN [d.summ[s] EXCEPT !.depth = 0, !.count = 0, !.key = NoKey]
                       ELSE d.summ[s]]]

\* A standalone index is dropped, created and seeded with every row, unless
\* it is there and current.
ShouldRecreate(d, name) == name \notin d.tables
SeededIndex(d) == [s \in LiveSummaries(d) |-> d.summ[s].content]
EnsureStandaloneFts(d, name) ==
    IF ~ShouldRecreate(d, name) THEN d
    ELSE IF name = "fts" THEN [d EXCEPT !.tables = @ \cup {"fts"}, !.fts = SeededIndex(d)]
    ELSE [d EXCEPT !.tables = @ \cup {"cjk"}, !.cjk = SeededIndex(d)]
EnsureFts5Tables(d) ==
    LET dropped == [d EXCEPT !.tables = @ \ {"cjk"}, !.cjk = <<>>]
        base == EnsureStandaloneFts(IF Trigram THEN d ELSE dropped, "fts")
    IN  IF ~Fts5 THEN d
        ELSE IF Trigram THEN EnsureStandaloneFts(base, "cjk") ELSE base

\* A cache table with the old tier CHECK is dropped, its rows with it.
WidenTierCheck(d) == IF d.cache = "narrow" THEN [d EXCEPT !.cache = "none"] ELSE d
EnsureV41Tables(d) ==
    LET w == WidenTierCheck(d)
    IN  [w EXCEPT !.tables = @ \cup {"v41"},
                  !.cache = IF @ = "none" THEN "empty" ELSE @]

\* Every message without an identity hash gets one, in chunks by message id.
BackfillMessageIdentityHashes(d) == [d EXCEPT !.unhashed = 0]

\* Leaves are 0 deep; a condensed summary is one deeper than the deepest of
\* its (already resolved) sources, 1 without sources; what a sweep without
\* progress leaves over is 1.
Resolved(d, c, found) ==
    {s \in SummariesOf(d, c) \cap Condensed : d.kids[s] \subseteq DOMAIN found}
Sweep(d, c, found) ==
    [s \in DOMAIN found \cup Resolved(d, c, found) |->
        IF s \in DOMAIN found THEN found[s]
        ELSE 1 + Max({0} \cup {found[k] : k \in d.kids[s]})]

\* Mutant of Depths: one sweep only.
DepthsOneSweep(d, c) ==
    LET once == Sweep(d, c, [s \in SummariesOf(d, c) \ Condensed |-> 0])
    IN  [s \in SummariesOf(d, c) |-> IF s \in DOMAIN once THEN once[s] ELSE 1]

\* Sweeps until nothing more is resolved; what never is gets depth 1.
Depths(d, c) ==
    LET sweeps[n \in 0 .. Cardinality(Condensed)] ==
            IF n = 0 THEN [s \in SummariesOf(d, c) \ Condensed |-> 0]
            ELSE Sweep(d, c, sweeps[n - 1])
        last == sweeps[Cardinality(Condensed)]
    IN  [s \in SummariesOf(d, c) |-> IF s \in DOMAIN last THEN last[s] ELSE 1]
BackfillSummaryDepths(d) ==
    [d EXCEPT !.summ = [s \in Summaries |->
        IF d.summ[s].live THEN [d.summ[s] EXCEPT !.depth = Depths(d, d.summ[s].conv)[s]]
        ELSE d.summ[s]]]

\* Summaries in an order of their depths (created_at and ordinals, which
\* order equals, are left out).
ByDepth(d, S) ==
    CHOOSE order \in [1 .. Cardinality(S) -> S] :
        /\ IsInjective(order)
        /\ \A i, j \in DOMAIN order : i < j => d.summ[order[i]].depth <= d.summ[order[j]].depth

\* descendant_count, shallow summaries first: each source counts itself and
\* what was already counted for it.
Descendants(d, s, counted) ==
    IF s \notin Condensed THEN 0
    ELSE MapThenSumSet(LAMBDA k : counted[k] + 1, d.kids[s] \cap DOMAIN counted)
BackfillSummaryMetadata(d) ==
    LET ordered == ByDepth(d, LiveSummaries(d))
        counts[n \in 0 .. Cardinality(LiveSummaries(d))] ==
            IF n = 0 THEN <<>>
            ELSE Put(counts[n - 1], ordered[n], Descendants(d, ordered[n], counts[n - 1]))
        counted == counts[Cardinality(LiveSummaries(d))]
    IN  [d EXCEPT !.summ = [s \in Summaries |->
            IF d.summ[s].live THEN [d.summ[s] EXCEPT !.count = counted[s]] ELSE d.summ[s]]]

\* Tool ids, names and inputs are copied out of the metadata of parts that
\* have none.
BackfillToolCallColumns(d) == [d EXCEPT !.parts = "filled"]

\* A versioned step runs unless the ledger has it, and is entered there.
RunVersioned(done, name, d) ==
    IF name \in d.ledger THEN d ELSE [done EXCEPT !.ledger = @ \cup {name}]

\* A conversation without a session key gets a key of its own, with an audit
\* row; then summaries without one get their conversation's.
BackfillConversationSessionKeys(d) ==
    LET null == {c \in LiveConvs(d) : d.conv[c].key = NullKey}
    IN  [d EXCEPT !.audit = [c \in Convs |->
                      IF c \in null THEN Append(d.audit[c], LegacyKey(c)) ELSE d.audit[c]],
                  !.conv = [c \in Convs |->
                      IF c \in null THEN [d.conv[c] EXCEPT !.key = LegacyKey(c)]
                      ELSE d.conv[c]]]
BackfillSummarySessionKeys(d) ==
    [d EXCEPT !.summ = [s \in Summaries |->
        IF d.summ[s].live /\ d.summ[s].key = NoKey
        THEN [d.summ[s] EXCEPT !.key = d.conv[d.summ[s].conv].key] ELSE d.summ[s]]]

RunVersionedBackfills(d) ==
    LET hashed == BackfillMessageIdentityHashes(d)
        deep == RunVersioned(BackfillSummaryDepths(hashed), "backfillSummaryDepths", hashed)
        meta == RunVersioned(BackfillSummaryMetadata(deep), "backfillSummaryMetadata", deep)
        tools == RunVersioned(BackfillToolCallColumns(meta), "backfillToolCallColumns", meta)
    IN  BackfillSummarySessionKeys(BackfillConversationSessionKeys(tools))

\* A default prompt is written for every lookup key that has none.
SeedDefaultPrompts(d) == [d EXCEPT !.prompts = TRUE]

\* run_lcm_migrations, one BEGIN EXCLUSIVE ... COMMIT.
Migrated(d) ==
    SeedDefaultPrompts(RunVersionedBackfills(EnsureV41Tables(EnsureFts5Tables(
        ApplyStructuralColumnProbes(EnsureCoreTables(d))))))

-----------------------------------------------------------------------------
(* Processes.                                                              *)

\* on_session_start: the connection is opened and registered.
OpenLcmDb(p) ==
    /\ pc[p] = "closed"
    /\ pc' = [pc EXCEPT ![p] = "open"]
    /\ UNCHANGED <<db, want, clean, doc, ops>>

RunLcmMigrations(p) ==
    /\ pc[p] = "open"
    /\ db' = Migrated(db)
    /\ pc' = [pc EXCEPT ![p] = "ready"]
    /\ UNCHANGED <<want, clean, doc, ops>>

\* A step of the ladder raises: ROLLBACK, and the connection is closed.
MigrationFails(p) ==
    /\ pc[p] = "open"
    /\ pc' = [pc EXCEPT ![p] = "closed"]
    /\ UNCHANGED <<db, want, clean, doc, ops>>

\* on_session_end, or the process dies: what it had in memory is gone.
CloseLcmDb(p) ==
    /\ pc[p] = "ready"
    /\ ops < MaxOps /\ ops' = ops + 1
    /\ pc' = [pc EXCEPT ![p] = "closed"]
    /\ want' = [want EXCEPT ![p] = NoWant]
    /\ clean' = IF clean.proc = p THEN IdleClean ELSE clean
    /\ doc' = IF doc.proc = p THEN IdleDoc ELSE doc
    /\ UNCHANGED db

Request(p) == pc[p] = "ready" /\ want[p] = NoWant /\ ops < MaxOps /\ ops' = ops + 1

-----------------------------------------------------------------------------
(* Conversations and summaries.                                            *)

ActiveWith(d, k) == {c \in LiveConvs(d) : d.conv[c].active /\ d.conv[c].key = k}

\* get_conversation_by_session_id: active ones first, then the newest.
BySessionId(d, sid) ==
    LET all == {c \in LiveConvs(d) : d.conv[c].sid = sid}
        active == {c \in all : d.conv[c].active}
    IN  IF active # {} THEN {Max(active)} ELSE IF all # {} THEN {Max(all)} ELSE {}

\* get_or_create_conversation up to its INSERT: by key, else by session id.
\* An active conversation without a key takes the caller's.
GetConversation(p, sid, k) ==
    /\ Request(p)
    /\ IF k # NullKey /\ ActiveWith(db, k) # {}
       THEN /\ db' = [db EXCEPT !.conv = [c \in Convs |->
                         IF c \in ActiveWith(db, k) THEN [db.conv[c] EXCEPT !.sid = sid]
                         ELSE db.conv[c]]]
            /\ UNCHANGED want
       ELSE LET found == BySessionId(db, sid)
                fill == {c \in found : db.conv[c].active /\ db.conv[c].key = NullKey}
            IN  IF found # {} /\ k = NullKey THEN UNCHANGED <<db, want>>
                ELSE IF fill # {}
                THEN /\ db' = [db EXCEPT !.conv = [c \in Convs |->
                                   IF c \in fill THEN [db.conv[c] EXCEPT !.key = k]
                                   ELSE db.conv[c]]]
                     /\ UNCHANGED want
                ELSE /\ want' = [want EXCEPT ![p] = [sid |-> sid, key |-> k]]
                     /\ UNCHANGED db
    /\ UNCHANGED <<pc, clean, doc>>

\* create_conversation: the partial UNIQUE index refuses a second active
\* conversation of a key, and the one that won is used.
CreateConversation(p) ==
    /\ want[p] # NoWant
    /\ LET k == want[p].key
       IN  IF k # NullKey /\ ActiveWith(db, k) # {} THEN UNCHANGED db
           ELSE /\ db.next \in Convs
                /\ db' = [db EXCEPT !.next = @ + 1, !.conv[db.next] =
                       [live |-> TRUE, sid |-> want[p].sid, key |-> k, active |-> TRUE,
                        brief |-> FALSE]]
    /\ want' = [want EXCEPT ![p] = NoWant]
    /\ UNCHANGED <<pc, clean, doc, ops>>

ArchiveConversation(p, c) ==
    /\ Request(p)
    /\ db.conv[c].live /\ db.conv[c].active
    /\ db' = [db EXCEPT !.conv[c].active = FALSE]
    /\ UNCHANGED <<pc, want, clean, doc>>

\* insert_summary: the key is its conversation's at that moment, '' when
\* that has none; a leaf is 0 deep; the indexes follow.
InsertSummary(p, s, c, content) ==
    /\ Request(p)
    /\ s \notin db.born /\ db.conv[c].live
    /\ LET key == IF db.conv[c].key = NullKey THEN NoKey ELSE db.conv[c].key
           With(index, name) == IF name \in db.tables THEN Put(index, s, content) ELSE index
       IN  db' = [db EXCEPT !.born = @ \cup {s},
                            !.summ[s] = [live |-> TRUE, conv |-> c, depth |-> 0,
                                         count |-> 0, content |-> content, key |-> key],
                            !.fts = With(@, "fts"), !.cjk = With(@, "cjk")]
    /\ UNCHANGED <<pc, want, clean, doc>>

-----------------------------------------------------------------------------
(* Reconciling session keys.                                               *)

\* Conversations, summaries and the audit move together, unless the target
\* would have two active conversations.
ReconciledConversations(d, from, to) ==
    [c \in Convs |-> IF d.conv[c].live /\ d.conv[c].key \in from
                     THEN [d.conv[c] EXCEPT !.key = to] ELSE d.conv[c]]
ReconciledSummariesNever(d, from, to) == d.summ
ReconciledSummaries(d, from, to) ==
    [s \in Summaries |-> IF d.summ[s].live /\ d.summ[s].key \in from
                         THEN [d.summ[s] EXCEPT !.key = to] ELSE d.summ[s]]
ReconciledAudit(d, from, to) ==
    [c \in Convs |-> IF d.conv[c].live /\ d.conv[c].key \in from
                     THEN Append(d.audit[c], to) ELSE d.audit[c]]
ActiveConflict(d, from, to) ==
    MapThenSumSet(LAMBDA k : Cardinality(ActiveWith(d, k)), from)
        + Cardinality(ActiveWith(d, to)) > 1

ReconcileSessionKeys(p, from, to) ==
    /\ Request(p)
    /\ ~ActiveConflict(db, from, to)
    /\ db' = [db EXCEPT !.conv = ReconciledConversations(db, from, to),
                        !.summ = ReconciledSummaries(db, from, to),
                        !.audit = ReconciledAudit(db, from, to)]
    /\ UNCHANGED <<pc, want, clean, doc>>

-----------------------------------------------------------------------------
(* Doctor cleaners.                                                        *)

\* archived_subagents, cron_sessions and null_subagent_context.
MatchesCleaner(r) ==
    \/ ~r.active /\ r.key.kind = "subagent"
    \/ r.key.kind = "cron"
    \/ r.key = NullKey /\ ~r.active /\ r.brief
MatchedConversations(d) == {c \in LiveConvs(d) : MatchesCleaner(d.conv[c])}

\* The conversations apply_doctor_cleaners stages: matched again inside its
\* transaction, whatever the scan had shown.
StagedConversations(d) == MatchedConversations(d)

ScanDoctorCleaners(p) ==
    /\ Request(p)
    /\ clean = IdleClean
    /\ clean' = [proc |-> p, seen |-> MatchedConversations(db), backup |-> {}]
    /\ UNCHANGED <<db, pc, want, doc>>

\* VACUUM INTO, on its own and before the transaction.
WriteDatabaseBackup(p) ==
    /\ pc[p] = "ready" /\ clean.proc = p /\ clean.seen # {} /\ clean.backup = {}
    /\ clean' = [clean EXCEPT !.backup = LiveConvs(db)]
    /\ UNCHANGED <<db, pc, want, doc, ops>>

\* Lineage, context and index rows first, then the conversations, whose
\* messages, summaries and audit rows go by ON DELETE CASCADE.
Without(f, gone) == [x \in DOMAIN f \ gone |-> f[x]]
DeleteCandidates(d, staged) ==
    LET gone == {s \in LiveSummaries(d) : d.summ[s].conv \in staged}
    IN  [d EXCEPT !.kids = [s \in Condensed |-> IF s \in gone THEN {} ELSE @[s] \ gone],
                  !.fts = Without(@, gone), !.cjk = Without(@, gone),
                  !.summ = [s \in Summaries |-> IF s \in gone THEN NoSummary ELSE @[s]],
                  !.audit = [c \in Convs |-> IF c \in staged THEN <<>> ELSE @[c]],
                  !.conv = [c \in Convs |-> IF c \in staged THEN NoConv ELSE @[c]]]

ApplyDoctorCleaners(p) ==
    /\ pc[p] = "ready" /\ clean.proc = p /\ clean.backup # {}
    /\ db' = DeleteCandidates(db, StagedConversations(db))
    /\ clean' = IdleClean
    /\ UNCHANGED <<pc, want, doc, ops>>

-----------------------------------------------------------------------------
(* Doctor apply.                                                           *)

DetectDoctorMarker(content) == content = "marked"
LoadDoctorTargets(d, c) == {s \in SummariesOf(d, c) : DetectDoctorMarker(d.summ[s].content)}
IsCondensedTarget(d, s) == ~(d.summ[s].depth = 0 \/ s \notin Condensed)

\* Leaves first, then condensed summaries by depth.  (The order among leaves
\* only changes the earlier summary shown to the summarizer.)
OrderDoctorTargetsCondensedFirst(d, targets) ==
    SetToSortSeq(targets, LAMBDA a, b : IsCondensedTarget(d, a) /\ ~IsCondensedTarget(d, b))
OrderDoctorTargets(d, targets) == ByDepth(d, targets)

DoctorStart(p, c) ==
    /\ Request(p)
    /\ doc = IdleDoc
    /\ LoadDoctorTargets(db, c) # {}
    /\ doc' = [proc |-> p, todo |-> OrderDoctorTargets(db, LoadDoctorTargets(db, c)),
               over |-> <<>>, skipped |-> {}]
    /\ UNCHANGED <<db, pc, want, clean>>

\* The contents a condensed summary is rewritten from: what this pass wrote
\* for a source, else what the database holds.
SourceContents(d, s, over) ==
    {IF k \in DOMAIN over THEN over[k] ELSE d.summ[k].content :
        k \in d.kids[s] \cap LiveSummaries(d)}
\* The text the summarizer answers with, given how it ended.
Rewritten(d, s, over, outcome) ==
    IF outcome # "text" THEN outcome
    ELSE IF IsCondensedTarget(d, s) /\ SourceContents(d, s, over) \cap {"marked", "tainted"} # {}
         THEN "tainted" ELSE "sound"
HasSource(d, s) ==
    /\ d.summ[s].live
    /\ IF IsCondensedTarget(d, s) THEN d.kids[s] # {} ELSE s \notin Condensed

DoctorNext(over, skipped) ==
    doc' = [doc EXCEPT !.todo = Tail(@), !.over = over, !.skipped = skipped]

\* Whichever SummarizerDeps the engine carries.
DoctorOutcomes == UNION {SummarizeOutcomes(readings) : readings \in {Readings, HermesReadings}}

\* An answer is used unless it raised or is a fallback again.
Usable(outcome) == outcome # "auth" /\ ~DetectDoctorMarker(outcome)

\* The summarizer rewrites the next target ...
DoctorRewrites(p) ==
    /\ pc[p] = "ready" /\ doc.proc = p /\ doc.todo # <<>>
    /\ \E outcome \in DoctorOutcomes :
        LET s == Head(doc.todo)
        IN  /\ HasSource(db, s)
            /\ Usable(outcome)
            /\ DoctorNext(Put(doc.over, s, Rewritten(db, s, doc.over, outcome)), doc.skipped)
    /\ UNCHANGED <<db, pc, want, clean, ops>>

\* ... or there is nothing to rewrite it from, or no usable answer.
DoctorSkips(p) ==
    /\ pc[p] = "ready" /\ doc.proc = p /\ doc.todo # <<>>
    /\ HasSource(db, Head(doc.todo)) => \E outcome \in DoctorOutcomes : ~Usable(outcome)
    /\ DoctorNext(doc.over, doc.skipped \cup {Head(doc.todo)})
    /\ UNCHANGED <<db, pc, want, clean, ops>>

\* Every rewritten summary, and its row in summaries_fts, in one transaction:
\* an index row that is missing is inserted.
UpdateSummaryFts(d, over) ==
    IF "fts" \notin d.tables THEN d.fts
    ELSE [s \in DOMAIN d.fts \cup DOMAIN over |->
             IF s \in DOMAIN over THEN over[s] ELSE d.fts[s]]
DoctorWrites(p) ==
    /\ pc[p] = "ready" /\ doc.proc = p /\ doc.todo = <<>>
    /\ db' = [db EXCEPT !.summ = [s \in Summaries |->
                            IF s \in DOMAIN doc.over /\ db.summ[s].live
                            THEN [db.summ[s] EXCEPT !.content = doc.over[s]]
                            ELSE db.summ[s]],
                        !.fts = UpdateSummaryFts(db, doc.over)]
    /\ doc' = IdleDoc
    /\ UNCHANGED <<pc, want, clean, ops>>

-----------------------------------------------------------------------------
\* A database written before v4.1: no session keys, no depths, no indexes.
Found(legacy) ==
    [tables |-> {"core"}, columns |-> {}, cache |-> "narrow", unhashed |-> 1,
     ledger |-> {}, prompts |-> FALSE, parts |-> "bare", born |-> {},
     next |-> 1 + Max(DOMAIN legacy.conv), fts |-> <<>>, cjk |-> <<>>,
     audit |-> [c \in Convs |-> <<>>],
     conv |-> [c \in Convs |-> IF c \in DOMAIN legacy.conv THEN legacy.conv[c] ELSE NoConv],
     kids |-> legacy.kids,
     summ |-> [s \in Summaries |-> IF s \in Later THEN NoSummary
                 ELSE [live |-> TRUE, conv |-> Home, depth |-> 0, count |-> 0,
                       content |-> IF s \in legacy.marked THEN "marked" ELSE "sound",
                       key |-> NoKey]]]

UpkeepInit ==
    /\ \E legacy \in Legacies : db = Found(legacy)
    /\ pc = [p \in Proc |-> "closed"]
    /\ want = [p \in Proc |-> NoWant]
    /\ clean = IdleClean
    /\ doc = IdleDoc
    /\ ops = 0

KeysInUse(d) == {d.conv[c].key : c \in LiveConvs(d)} \ {NullKey}

UpkeepNext ==
    \E p \in Proc :
        \/ OpenLcmDb(p) \/ RunLcmMigrations(p) \/ MigrationFails(p) \/ CloseLcmDb(p)
        \/ \E sid \in 1..2, k \in CallerKeys \cup {NullKey} : GetConversation(p, sid, k)
        \/ CreateConversation(p)
        \/ \E c \in Convs : ArchiveConversation(p, c) \/ DoctorStart(p, c)
        \/ \E s \in Later, c \in Convs, m \in {"sound", "marked"} : InsertSummary(p, s, c, m)
        \/ \E from \in (SUBSET KeysInUse(db)) \ {{}}, to \in CallerKeys :
               ReconcileSessionKeys(p, from, to)
        \/ ScanDoctorCleaners(p) \/ WriteDatabaseBackup(p) \/ ApplyDoctorCleaners(p)
        \/ DoctorRewrites(p) \/ DoctorSkips(p) \/ DoctorWrites(p)

UpkeepSpec == UpkeepInit /\ [][UpkeepNext]_upkeepVars

-----------------------------------------------------------------------------
(* Properties.                                                             *)

\* A database some process has migrated.
Current == db.ledger # {}

\* Reference: the longest chain of sources below a summary, and the number
\* of summaries below it.
Height(kids) ==
    LET h[s \in Summaries] ==
            IF s \notin Condensed THEN 0 ELSE 1 + Max({0} \cup {h[k] : k \in kids[s]})
    IN  h
Below(kids) ==
    LET b[s \in Summaries] ==
            IF s \notin Condensed THEN {} ELSE kids[s] \cup UNION {b[k] : k \in kids[s]}
    IN  b

(***************************************************************************)
(* DerivedExact: once a process has run the ladder, the depth of every     *)
(* summary is the height of the tree under it and descendant_count the     *)
(* number of summaries in it, whatever the shape of the database found     *)
(* (_backfill_summary_depths, _backfill_summary_metadata).                 *)
(***************************************************************************)
DerivedExact ==
    Current => \A s \in LiveSummaries(db) :
        /\ db.summ[s].depth = Height(db.kids)[s]
        /\ db.summ[s].count = Cardinality(Below(db.kids)[s])

(***************************************************************************)
(* KeysFollow: a summary's session key is '' or its conversation's,        *)
(* through every order of inserts, late keys, reconciles, restarts and     *)
(* cleaner runs of several processes; and in a conversation that was ever  *)
(* re-keyed by an operator or a migration the last audit row names the key *)
(* it has (reconcile.py, _backfill_*_session_keys, insert_summary).        *)
(***************************************************************************)
KeysFollow ==
    /\ \A s \in LiveSummaries(db) : db.summ[s].key \in {NoKey, db.conv[db.summ[s].conv].key}
    /\ \A c \in LiveConvs(db) : db.audit[c] # <<>> => Last(db.audit[c]) = db.conv[c].key

(***************************************************************************)
(* RepairSound: a repair is never itself a fallback, and a summary the     *)
(* doctor rewrites carries marker text of a source only if that source     *)
(* could not be repaired in the same pass: leaves come before condensed    *)
(* summaries and shallow ones before deep ones, and a source's new text is *)
(* used before it is written; and what summaries_fts holds for a summary   *)
(* is its text, across migrations, inserts, repairs and deletions          *)
(* (_order_doctor_targets, _build_condensed_source_text,                   *)
(* _update_summary_fts, summarize at the end of its chain).                *)
(***************************************************************************)
RepairSound ==
    /\ \A s \in DOMAIN doc.over :
          /\ ~DetectDoctorMarker(doc.over[s])
          /\ db.summ[s].live /\ doc.over[s] = "tainted" =>
              \E k \in db.kids[s] :
                  \/ k \in doc.skipped
                  \/ db.summ[k].content = "tainted"
                  \/ k \in DOMAIN doc.over /\ doc.over[k] = "tainted"
    /\ \A s \in DOMAIN db.fts \cap LiveSummaries(db) : db.fts[s] = db.summ[s].content
=============================================================================
