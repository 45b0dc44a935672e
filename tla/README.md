# A TLA+ specification of lossless-hermes

lossless-hermes keeps every message of an agent's conversation in SQLite and
shows the model a bounded context: old messages are folded into summaries,
summaries into deeper summaries, and each can be expanded again. This directory
specifies the parts of it that are hard to get right (several threads, hooks and
processes over the same rows), model-checks them with TLC and proves what
matters most with TLAPS.

## 1. The system

| Component | State | Operations | Interacts with |
|---|---|---|---|
| worker lock (`concurrency/`) | one row per job kind in `lcm_worker_lock`, a heartbeat task per holder | acquire, heartbeat, release, force release | backfill, extraction and the other jobs of several processes |
| transaction helpers (`transaction_mutex.py`, `store/`) | open transaction and savepoints of a connection, lock per connection, depth per thread | BEGIN or SAVEPOINT, COMMIT or RELEASE, rollback | every writer |
| session lock registry (`engine/session_locks.py`) | dictionary session -> (lock, refcount) | acquire, release, prune | ingest, assembly |
| ingest (`engine/ingest.py`, `ingest_guard.py`, `large_files.py`) | process-local cursor per session, set of reconciled sessions, files of payloads | the `post_llm_call` and `handle_tool_call` hooks, reconciliation, payload guard | host, conversation store, assembly (resets the cursor) |
| compaction (`compaction.py`) | local variables of a sweep | `compact_full_sweep`, `compact_until_under`, leaf and condensed passes | summary store, summariser |
| summariser (`summarize.py`) | none; a chain of providers | summarise with retries, fallbacks and a marked truncation | compaction, doctor |
| stores (`store/`) | messages, summaries, links, `context_items`, indexes | statements and transactions | everything |
| purge, prune (`operator/purge.py`, `prune.py`) | none of their own | the suppression cascade, one transaction | summaries, context items, messages, vectors, synthesis cache |
| integrity (`integrity.py`) | none | scan, repair plan | the rows compaction writes |
| assembly (`engine/assemble.py`, `assembler.py`, `transcript_repair.py`) | caches of the last assembly | `preassemble`: replaces the host's live list; budget walk, pairing of tool calls, repair | stores, ingest cursor |
| embeddings (`embeddings/`, `voyage/`) | vectors, their meta rows, suppression mirror | backfill tick, semantic and hybrid search | worker lock, purge, provider |
| extraction (`extraction/`) | queue of leaves, entities, mentions | extraction tick | worker lock, LLM |
| synthesis (`synthesis/`, `tools/synthesize_around.py`) | cache rows with leaf references, audit rows, prompts | select, latch, dispatch, store, invalidate | purge, LLM |
| reading tools (`tools/grep.py`, `describe.py`, entity tools) | none | sequences of statements | stores, search, purge |
| tool dispatch and compaction control (`plugin/`, `tools/compact.py`, `engine/circuit_breaker.py`) | token cache, per-window counter, breaker, each under a lock of its own | gated tool calls, `lcm_compact`, responses of the model | compaction, summariser |
| orchestrator, autostart loops (`operator/`) | schedules, strike counters | ticks, stop, force release | worker lock |
| upkeep (`db/migration.py`, `doctor/`, `operator/reconcile.py`) | ledger of migration steps, audit of keys, backups | migrate, reconcile keys, clean, repair | stores, summariser |
| configuration, commands, importer, evaluation, recall policy | settings, reports | parse, render, score | stores |

What is hard: the LLM call in the middle of a pass, with no transaction open,
while ingestion and purges go on; cursors that live in the process and rows that
outlive it; leases that run out under a live holder; hooks that fire twice;
locks that are pruned while someone waits for them; tools whose answer is put
together from several statements; transcripts that must pair calls with results
whatever was cut. `PROJECT.json` lists the hazards one by one, at the line where
they bite, with the properties that cover them.

## 2. Modules

| Module | Models | Used by |
|---|---|---|
| `LockTable` | the lock row and the four SQL statements on it | `WorkerLock`, `Backfill`, `Extraction` |
| `WorkerLock` | `run_with_heartbeat` in several processes, crashes, the clock, `force_release_lock` | `MCWorkerLock`, `DatabaseLocksProofs` |
| `Transactions` | the three transaction helpers on connections of several threads and processes | `MCTransactions`, `DatabaseLocksProofs` |
| `SessionLocks` | `SessionLockRegistry` (the synchronous half) | `MCSessionLocks`, `SessionProofs` |
| `ContextDag` | rows of one conversation as operators: append, range replacement, chunk selection, fresh tail, purge cascade | `Integrity` |
| `Integrity` | the checks of `IntegrityChecker` and the removals of its repair plan, as operators over those rows | `Compaction` |
| `Compaction` | a sweep and the rounds around it, against `Ingest`, `Purge` and `SoftPrune` | `MCCompaction`, `CompactionProofs` |
| `ContextLog` | what the context promises: append, merge neighbours, forget | refined by `Compaction` |
| `Ingest` | the diff-ingest hooks, reconciliation, payload guard, restarts, substitution, session lifecycle | `MCIngest`, `EngineProofs` |
| `Assembly` | message parts, budget walk, stripping and repair of tool calls, `preassemble`'s answer | `MCAssembly`, `SessionProofs` |
| `Voyage` | retries, error kinds and answers of the embedding client | `Backfill` |
| `Backfill` | the embedding tick and its autostart loop, in several processes, against purge and deletion | `MCBackfill`, `MaintenanceProofs` |
| `Extraction` | the entity tick, its extractor and its autostart loop, in several processes, against purge and deletion | `MCExtraction`, `ExtractionProofs` |
| `Synthesis` | `lcm_synthesize_around` and the dispatcher with its cache, audit rows and prompts, against purge | `MCSynthesis`, `SessionProofs` |
| `Reads` | `lcm_grep`, `lcm_describe`, the entity tools, semantic and hybrid search, statement by statement | `MCReads`, `ReadsProofs` |
| `Summarizer` | the provider chain of `LcmSummarizer` as operators | `Upkeep` |
| `Upkeep` | migration ladder, session keys, cleaners, doctor, by several processes | `MCUpkeep`, `MaintenanceProofs` |
| `CompactControl` | the token gate, `lcm_compact` with its cap, the circuit breaker around `LCMEngine.compact` | `MCCompactControl`, `EngineProofs` |

### WorkerLock

`row` is the row of one kind (statements never cross kinds). Time is relative:
`left` ticks until `expires_at`. `acquire_lock` is two actions because its two
statements are autocommitted separately; `_heartbeat_loop` runs beside the body;
a worker may stall for any time because `Tick` is always enabled. `lease` and
`evicted` are history variables: how long the last acquire or heartbeat promised
the lock for, and whom an operator forced out. `LeaseExclusive` is the exclusion
the table can give.

### Transactions

An actor is a thread, `Conn` says which connection it uses. `conn[c].frames` is
BEGIN and the savepoints above it, each with the rows inserted under it; `calls[a]`
is the stack of helpers a thread is in, with the rows each answers for. A helper
decides on entry between BEGIN and SAVEPOINT: the stores by `in_transaction`
(`EnterStore`), `with_database_transaction` by the depth of its thread
(`EnterMutex`, `EnterMutexFails`), and everything nested is `EnterNested`. The
operation reads the last number and inserts the next (`Read`, `Insert`), or
raises (`OperationRaises`). `EndFails` is a COMMIT or RELEASE that fails; which
helpers then roll back is `UndoesFailedEnd`. SQLite is external: snapshots and a
single writer with a write-ahead log, readers that block COMMIT with a rollback
journal; statements after which SQLite rolls back by itself (disk full) are left
out. `fate` is what the callers were told of each row. `lapsed` is a history
variable: a COMMIT of `ConversationStore` failed and left its transaction open, or
the BEGIN of a thread that shares its connection timed out and left its depth
behind. Both are steps of the model, and until the first of them everything is
claimed. The other modules take a transaction as one step: `AllOrNothing` is what
entitles them to.

### SessionLocks

Lock objects have identities (`LockIds`) so that a session can change its lock:
`SessionExclusive` would fail as soon as pruning dropped a record in use. An
object is reused only when nobody refers to it. `GiveUp` is the interrupted wait
whose `finally` clause still counts itself out: a count it missed would keep the
record for ever, which `IdleBounded` would show. Nothing is said of when a waiter is
served: `threading.Lock` promises no order.

### ContextDag, Integrity, Compaction, ContextLog

Contents are token counts; ids are positions. `ctx` maps ordinals to items, with
gaps where a purge deleted. A pass is three steps: select and read (`LeafSelect`,
`CondSelect`, `CondRead`), the LLM call (any step of the others may come here),
and the commit (`LeafCommit`, `CondCommit`), which replaces the ordinals
remembered before the call. `Abort` is any other exception or a crash. One
compactor per conversation is assumed, as ADR 018 prescribes. `Purge` and
`SoftPrune` share the cascade and differ in what they select. The refinement
`ImplementsContextLog` maps the context to the set of message sets its items
cover: whatever the interleaving, a step appends a message, merges neighbours or
forgets purged ones. `ScanClean` runs the system's own checker on every state.

### Ingest

A message is a role with a text, which other messages may repeat, and a kind; its
`id` is known to the properties only. `skip` messages are the ones the role gate and
the failed-empty-assistant gate drop, `big` ones have a payload that the guard moves
to a file (`WriteFile`), records (`RecordFile`, `RecordFails`) and replaces by a
reference, a `stub`. The walk of the reconciliation compares what the code compares
(`Identity`: role and content), so a repeated text may pass for the row in its
place. The session lock covers exactly what the code's `with` block covers; the
reconciliation before it and the reset after a substitution are separate steps.
`adrift` is a history variable: a cursor was written from outside the lock under a
caller in flight or over a newer value, or the host replayed a whole list that the
rows are no record of. The host (external) appends messages, replays its transcript
after a restart or delivers only what comes next, and adopts the list `preassemble`
returns. `SessionEnd` and `SessionStart` close and open the stores; the cursor
survives them.

### Assembly

A transcript is built message by message, each stored as the parts
`_build_message_parts` makes of it; databases imported from lossless-claw have
shapes the engine does not write, and are initial states. `Assemble` and
`Preassemble` then compute the whole answer: read back (`ResolveItems`), cut
(`FreshTailOrdinal` and the eviction), strip calls whose result was cut
(`CallKept`), drop empty messages, and repair the pairing (`Repaired`, per item: an
assistant turn takes the results of its span along that no earlier turn took).
Between these steps the items are a function of their ordinals, which the code's
lists stay sorted by. A block is a type and a tool id, a size a number of tokens.
A call stored without an id gets one made for its part (`SyntheticId`), except a
`function_call`, which goes without (`ToolCallBlock`).

### Backfill, Voyage, Extraction

Both jobs take the lock row of `LockTable` and then alternate heartbeats with
calls of minutes (Voyage, an LLM), so a lease may run out in any of them. Every
SQL statement or transaction is a step, because the other processes commit in
between. A tick's local variables are `tick[w]`. `Account` is what
`_run_one_tick` does with the result; `Due` and `StopLoop` are the worker loop.
Workers outside `Looping` are the manual ticks of `/lcm worker tick`. `Backfill`
checks the lock again after the call and `Extraction` does not: there, idempotent
rows (`Fresh`) stand in for exclusion. `Backfill` makes one timing assumption,
`WriteTime`: less than a clock tick (a TTL's part) passes between the re-check and
the `BEGIN IMMEDIATE` that follows it. `Voyage` gives the outcomes a request can
have after its retries, from the replies of its attempts; an answer is only
accepted when it has as many vectors as documents, in their order. A selection
is a set of leaves, which are numbered in the order they were written: the next
batch or item is computed from the set (`PackBatches`, `Oldest`). In `Extraction`
the entries of an answer that are stored (`Record`) are a set too: a surface named
twice is one mention, its `mention_id` being computed from it. An extractor's
answer is a list of entries, other text, an object without text or a refusal
before the call; only the third counts as an attempt.

### Synthesis

Statements are autocommitted, so each is a step of the call that runs it: select
the leaves, look the row up, insert it (`INSERT OR IGNORE` is the latch),
dispatch with one audit row per pass (single, best-of-n with its judge, the
verification), write the text, insert the references one by one. A text is the
set of leaves it was made of, which makes "served the wrong text" visible.
`unseen` and `tainted` are history variables: leaves gone before a call's
selection, and rows or calls that a purge, a fault or a replaced prompt met in
flight.

### Reads

A tool call is a query record that its statements fill in; `ans` is what is
returned. Between any two statements another connection may write rows, embed, purge
or open the next segment of a session. The five modes of `lcm_grep` go different
ways: the two store searches, verbatim, semantic (`EmbedQuery`, `Knn`, `Join`) and
hybrid (both arms, `Pack`, `Rerank`), each with its failure. `Pack` keeps any set of
candidates that are not oversize: where the code stops at the cumulative budget
depends on token counts and on the ranking, which are abstracted. The messages of a
leaf are a set ordered by `created_at` (`Age`); a page is the messages whose `Rank`
lies between OFFSET and OFFSET plus LIMIT, and `Clamped` is the hard cap on OFFSET.
Links and sources stay in a conversation (`OneConversation`): compaction, which
writes them, works on one conversation at a time.

### Upkeep, Summarizer

A transaction is one step over the committed database `db`; backups, approvals and
rewrites that happen between transactions are steps of their own. A content is
sound, marked (it carries a doctor marker) or tainted (made from a marked source).
`RunLcmMigrations` is the ladder in its one `BEGIN EXCLUSIVE`. `Summarizer` computes
what the chain of providers returns for every combination of their outcomes,
duplicates in the chain and direct credentials included. The loops whose accumulator
is a map (the sweeps, the counts) are recursive functions of the number of turns,
and a map with one more entry is written out (`Put`), so that proofs can unfold
them.

### CompactControl

A tool call is a thread that goes from lock to lock: a gated tool reads the cache
(`GateRead`), decides on the copy (`GateRefuse`, `GatePass`) and adds its result
(`ToolResult`); `lcm_compact` passes its floor (`CompactRefuse`), the cap
(`CompactAttempt`, `CompactCapped`), the breaker (`Admit`, `ShortCircuit`), the
compaction itself (`CoreSuccess`, `CoreAuthFailure`, `CoreRaise`) and clears the
cache (`NoteSuccessfulCompact`). The two kinds see different figures, as in the
code: the gate all tokens of the last response over the window, `lcm_compact` the
uncached prompt over 75 percent of it. `_execute_compaction_core` is a hook that
the repository does not fill in; it may do whatever its contract allows. The
`except` clause of `run_with_token_gate` is left out: `_dispatch_tool_call` turns
every failure into a text. Histories: `seen` (tokens the agent received), `basis`
(whether a response or a compaction came last), `attempts`, `trips`.

## 3. Runs

| Run | Checks | Bounds and why they suffice |
|---|---|---|
| `MCWorkerLock` | exclusion within leases, live rows kept, the lock is never stuck, theft is noticed | 2 workers, TTL 3: takeover, late release, late heartbeat and the operator's two-step release all happen; the safety part is proved for any number |
| `MCSessionLocks` | exclusion, idle records bounded | 3 threads, 3 sessions, 4 lock objects, mark 1: pruning with one record in use and two idle |
| `MCCompaction` | nothing unreachable, nothing purged in the context, the checker's scan is clean, the sweep's accounts, the refinement of `ContextLog` | 4 messages of 1 or 2 tokens, 4 summaries of 1 token: two leaves condensed, a condensed summary condensed alone under the hard fan-out, a chunk that one item fills, summaries as large as their sources |
| `MCIngest` | order and uniqueness of rows, honest cursor, references resolve, every message stored | 2 hooks, 3 messages (one that may be dropped, one with a payload, one that repeats the first one's text), any 2 of restart with a replay, restart with a delta, failure, substitution, reset and ending |
| `MCAssembly` | calls and results pair, no false "missing", budget kept | 4 items of 16 message shapes, calls without an id among them, sizes 0 to 2, 8 settings of budget, tail and cap: an id used twice, a result cut from its call, a tail over its cap, an item that costs nothing |
| `MCBackfill` | vectors match meta rows, suppression mirror, nothing embedded twice, corpus drained | 2 processes, 2 leaves of which Voyage always rejects one, 2 attempts per request, 1 stall, 1 fault, 1 manual tick, 2 strikes: a takeover during a Voyage call, all kinds of stop |
| `MCExtraction` | entities, counts and mentions agree, every item settled | 2 processes, 2 leaves of which one always fails, 2 surfaces of one entity and a malformed entry, 2 attempts, 1 stall, 2 faults |
| `MCSynthesis` | one builder per key, the text served is the one asked for, purges reach the cache | 2 calls of the tool, or a direct dispatch of each tier; 2 leaves, 2 prompt versions, 1 crash or database error |
| `MCReads` | nothing purged shown, scope honoured, hybrid answers honest, pages complete | 3 conversations (a session of two segments and a keyed one), 4 messages, 3 leaves of which two share a message, a condensed summary, limits 1, 2 and 3, OFFSET capped at 1: every mode, an oversize candidate, a leaf written and a segment opened during the call |
| `MCUpkeep` | derived columns exact, keys follow, repairs sound | 2 processes, 3 shapes of a legacy graph of 4 summaries, 3 conversations, 4 requests |
| `MCCompactControl` | the cache is exact, the cap holds, back-off in an outage, no stale refusal | 2 calls, window of 8 tokens, cap 2, threshold 2, cooldown 2, 4 attempts within 4 instants: two failures, a probe that fails and another admission; the safety part is proved for any number |
| `MCTransactions` | all or nothing, no UNIQUE race | 2 threads that share a connection through `with_database_transaction`, a second process that also has `ConversationStore`, a third that reads with `SummaryStore`, nested 2 deep, 3 rows, both journal modes, statements that time out, a process may end anywhere: a wait for the lock, a stale snapshot, a COMMIT that a reader blocks, a nested failure that is caught, a crash between RELEASE and COMMIT; what follows a lapse is not explored |

Deadlock is not checked where the bounds stop the system (messages, summaries,
requests); it is checked for the two lock modules.

Fairness. `WorkerLock`: time passes; the event loop of a live process runs the
heartbeat task; idle workers try again (autostart loops); a process does not crash
forever. Nothing is assumed of bodies: they may run for ever. `Ingest`: hooks go on
once called, and are called every turn; mishaps are not fair. `Backfill` and
`Extraction`: a worker goes on, calls end, the clock goes on and the autostart loop
ticks again; stalls past a lease, faults and manual ticks are finitely many
(`MaxStalls`, `MaxFaults`, `MaxManual`): a job whose every call outlasts its lease
gets nowhere, in the code as in the model.

### What the properties exclude

Some properties have a hypothesis because the code does not give more:

* `AllOrNothing` and `NoUniqueRace` suppose what the code relies on: `with_transaction`
  of the stores has one thread per connection (ADR 018) and no store operation starts a
  repair. They end with two failures that the code does not prevent (`lapsed`).
  `with_database_transaction` sets the depth of the thread before BEGIN and clears it in
  a `finally` clause that only guards what follows BEGIN (`transaction_mutex.py:186`):
  when BEGIN IMMEDIATE times out, the next call of the thread takes itself for nested
  and opens a savepoint without the lock. (With one thread per connection that is
  harmless, the savepoint starting and ending a transaction of its own: no lapse.)
  And COMMIT is outside the `try` of `ConversationStore.with_transaction`
  (`store/conversation.py:516`): with the rollback journal that
  `_apply_wal_with_fallback` chooses on network file systems, a reader in another
  process can make it fail; the transaction stays open, every later call nests in
  it and returns normally, and closing the connection loses them all. The run takes
  both steps; without `~lapsed` in the properties and in `MCNext`, TLC shows what they
  lead to. `with_database_transaction` then commits what it finds open (line 181) where
  its docstring says it raises.
* The host passes tool calls beside the content, in `tool_calls`;
  `_build_message_parts` stores only the content (`engine/ingest.py:371`), so the
  assembled transcript has a tool result without its call, and the repair drops it,
  also from the fresh tail that "is always included" (`assembler.py:1861`).
  `NoFalseMissing` and `Paired` speak of the calls that were stored.
* When the fresh tail uses up the budget, `budget_walk` still keeps evictable items
  of 0 tokens in its prompt-aware and chronological modes, whose docstring says that
  they "emit `[]`" then (`assembler.py:1876`). `WithinBudget` therefore says that
  what is kept outside of such a tail costs nothing.
* `compaction.py:886` defines an `LcmProviderAuthError` of its own; the one that the
  summariser raises is not caught by the passes and ends a sweep as any other
  exception. `Compaction` has both endings.
* A holder stalled past its TTL overlaps with its successor until its next
  heartbeat; the soak window the docstring of `worker_lock.py` relies on is used
  by no code. `LeaseExclusive` speaks of leases.
* A purge during the LLM call of a condensed pass leaves the purged text in a new,
  unflagged summary. `SuppressedNotInContext` speaks of the purged rows.
* A message whose payload was moved out never matches its row again, so a restart
  ingests it and everything after it a second time; two first calls may
  reconcile at once; a batch may be in flight when the list is substituted
  (`adrift`).
* The walk of `_reconcile_ingest_cursor` compares only role and content
  (`engine/ingest.py:1009-1019`). After a reset the rows stay, and after a restart the
  host may deliver only what comes next: a message of such a list that repeats, in its
  place, what an older row holds counts as replayed and is never stored, where the
  comment (lines 1021-1027) says that a delta which happens to repeat content is
  persisted. The model has these steps; `CursorHonest` grants that loss and no other.
* A failed message of a batch in which another was stored is passed
  by the cursor for good (`spent.failures`). `preassemble` may replace the list
  before its last messages were ingested (`spent.subs`).
* Leaves that share a batch with one that Voyage always rejects are rejected with
  it every time (the run gives that leaf its own batch). An extraction whose
  transaction always fails is never counted as an attempt; an answer that cannot
  be parsed completes the leaf with no entities.
* A cached text of a call that was in flight at a purge keeps the purged leaf, and
  a row whose builder died stays "building" (`tainted`): the janitor that the
  tool's hint promises does not exist.
* A purge between two pages of `lcm_describe` shifts the offsets (`page.cut`).
* Mode `semantic` of `lcm_grep` goes beyond its scope: the empty list of keys of a
  session without one is no filter (`tools/grep.py:1409`), so that it answers from every
  conversation, and with `conversationId` it answers from all conversations of that
  one's key. The schema says "Physical conversation ID to search within. If omitted,
  defaults to the current session family" (lines 225-229), and the answer names that
  conversation as its scope (line 1448). `ScopeHonoured` excludes these two cases
  (`Unrestricted`, and `q.who` for calls about a session) and claims the session for
  every other call.
* That a search reaches all segments of the session is claimed of the modes `regex` and
  `verbatim` when the answer is not full. In mode `full_text` the fallback filters after
  its LIMIT, and `semantic` and `hybrid` rank. The bound of 10,000 rows on what a regex
  scans (`store/conversation.py:1512`, `store/summary.py:533`) is not modelled.
* The keyword arm of a hybrid search stops at a multiple of the limit. `HybridHonest`
  says nothing when more summaries matched than that (`Candidates`), counted as they
  were at the call: a purge that comes later does not bring back what was cut off.
* In `CompactControl` a half-open breaker admits every caller; a gated call may be
  refused and sent to `lcm_compact` while that answers "below floor"; and after a
  compaction the cache has no entry until the next response, however many results
  come in between: `accumulate_tool_result_tokens` skips a session without one
  (`plugin/token_state.py:264`), where the docstring of `note_successful_compact`
  expects the tap to recreate it (`plugin/token_state.py:372`).

## 4. Proofs

The theorems of the eight proof modules hold for every value of the constants, from
the assumptions named in the modules they extend: `TTLAssumption`,
`GuardAssumption`, `RegistryAssumption`, `CompactControlAssumption`,
`CompactionAssumption`, `BackfillAssumption`, `ExtractionAssumption`,
`SynthesisAssumption`, `ReadsAssumption`, `OneConversation`,
`TransactionsAssumption`, `IngestAssumption`, `FreeAssumption`, `UpkeepAssumption`,
`LegacyAssumption`, `LayersAssumption`, `AssemblyAssumption`. TLC evaluates all of
them in the runs, and `MCDisciplined`, the hypothesis of the theorems about
`Transactions`. The bounds of the runs (messages, faults, stalls) are constants as
well, so the theorems hold for every bound. Each inductive invariant was first
checked with TLC on the instance of the run.

| Module | Theorems (run property) |
|---|---|
| `DatabaseLocksProofs` | `TypeCorrect`, `LeaseOwnsRow`, `Exclusion` (`LeaseExclusive`), `LiveRowKept` (`LiveRowKeptFromOthers`); `TransactionsAtomic` (`AllOrNothing`), `NoSeqTaken` (`NoUniqueRace`) |
| `EngineProofs` | `TypeCorrect`, `CacheCorrect` (`CacheExact`), `RefusalsFresh` (`NoStaleRefusal`), `LateSuccessOnly`, `BackoffHolds` (`OutageBackoff`), `CapHolds` (`AttemptsBounded`); `IngestOrder` (`StoredInOrder`), `IngestCursor` (`CursorHonest`), `IngestReferences` (`StubsResolve`) |
| `CompactionProofs` | `PassStaysCurrent`, `SuppressedStaysOut` (`SuppressedNotInContext`), `EverythingReachable` (`NothingUnreachable`), `CompactionImplementsLog` (`ImplementsContextLog`); `ScanInvariant`, `ScanStaysClean` (`ScanClean`); `SweepInvariant`, `SweepAccounted` (`SweepAccounts`) |
| `MaintenanceProofs` | `TypeCorrect`, `VecAndMetaTogether` (`VecMatchesMeta`), `SuppressionMirrored` (`MirrorExact`), `EmbeddedOnce` (`WrittenOnce`); `KeysFollowed` (`KeysFollow`), `DerivedColumns` (`DerivedExact`), `RepairsSound` (`RepairSound`) |
| `ExtractionProofs` | `CountsExact` (`CountsMatch`) |
| `SessionProofs` | `LocksTyped`, `Exclusion` (`SessionExclusive`), `NoRecordLost`, `RegistryBounded` (`IdleBounded`); `OneBuilderPerKey` (`SingleFlight`), `ServedTextsExact` (`ServedExact`), `PurgeReaches` (`PurgeReachesCache`); `AssemblyInvariant`, `AssemblyPaired` (`Paired`), `AssemblyNoFalseMissing` (`NoFalseMissing`), `AssemblyWithinBudget` (`WithinBudget`) |
| `ReadsProofs` | `PurgedStaysHidden` (`NothingBuried`), `AnswersInScope` (`ScopeHonoured`), `DegradingHidesNothing` (`HybridHonest`), `PagingComplete` (`PagesComplete`) |
| `OrdinalFacts` | lemmas only: least elements, places in an order, sums over finite sets, used by `CompactionProofs`, `SessionProofs` and `MaintenanceProofs` |

* Worker lock. `LeaseExclusive` follows from `LeaseMatchesRow`: a worker within
  its lease owns the row and the row runs out exactly when the lease does. That
  is not inductive: a worker that waits between its two acquire statements, or
  whose heartbeat task outlives its lease, must be known not to hold a lease at
  all, and an expired row must be the only one the GC can delete. The
  strengthening adds these facts per program counter. `LeaseMatchesRow` itself is
  proved (`LeaseOwnsRow`) and left out of the run, which checks its consequences.
* Transactions. `TxInv` ties the stack of open helper calls of a thread to the
  frames of its connection, one BEGIN or SAVEPOINT for each (`Owned`), says that the
  stored rows and the rows of the frames up to any savepoint are numbered without a
  gap, and that only the connection with the write lock has any pending (`Sequenced`),
  and where the rows of an id are for each answer its caller may have had (`Fated`).
  The theorems carry the hypothesis `Disciplined`, which is how this repository uses
  the helpers: threads that share a connection begin with `with_database_transaction`,
  and no store operation begins a repair. Without it they do not hold: a store's helper
  that finds the transaction of another thread open on its connection joins it with a
  savepoint, and is rolled back with it. Nothing is supposed of journals, readers or
  timeouts: the inductive invariant is `lapsed \/ TxInv`, so the theorems hold up to
  the first COMMIT or BEGIN that fails as described in section 3.
* Ingest. `IngestInv` is about what lies ahead of the cursor and behind it. Every
  message ahead is newer than every row (`Fresh`), which is why appending keeps the
  order; every message behind that gets a row is passed (`Honest`): it has a row or, in
  a list begun anew, repeats the one in its place (`Passed`). In a list that was not
  begun anew, what the walk matches by its content is the message itself: every row is
  a message of the list and the oldest messages are the stored ones (`Genuine`), so a
  message without a row would leave fewer messages before it than there are rows up to
  its place (`PlacedStored`, a count). A cursor that is not
  set counts as the position its reconciliation will find, and the walk of
  `_reconcile_ingest_cursor` passes every message that the rows replay (`WalkFresh`),
  so that no induction over the list is needed. The references rest on a separate
  part (`Referred`): a stub anywhere has its `large_files` row, and the file a guard
  has in hand is nobody's yet.
* Session keys (`Upkeep`). `KeysInv` holds of every database that a step writes: an id
  to be given out names no row and has no audit trail (`IdsFresh`, `AuditKeys`), and a
  live summary's key is '' or its live conversation's and then not NULL
  (`SummaryKeys`). Most steps of the migration ladder, the doctor and the cleaner
  touch other tables (`SameKeys`); the two key backfills, the re-keying and the
  deletion are where it could break.
* Derived columns and repairs (`Upkeep`). `DataInv` adds to `KeysInv` what the trees of
  summaries look like and what the doctor has in hand. The trees a database is found
  with are those compaction grows (`Grown`: a source is older than what is made from
  it and is condensed once); the summaries of the database found are all there or all
  deleted (`Rooted`), and a database is either one that no process has migrated (`Raw`)
  or one whose columns are exact (`Laddered`). Each sweep of `_backfill_summary_depths`
  settles at least one more condensed summary as long as one is open, so that as many
  sweeps as there are condensed summaries give every one its height. In the order by
  depth a source then stands before what is made from it, so that its count is there
  when it is added (`Descendants`), and the trees below two sources are disjoint. The
  doctor tries its targets in the same order: a marked source was tried or comes
  earlier (`Queued`), a target is rewritten once (`Distinct`), and a tainted text can be
  traced to a source (`RewritesGood`), for which the chain of the summarizer is shown
  to end in a text, a refusal or the marked fallback, however long it is.
* Session locks. Exclusion needs that all users of a session share the lock
  object the dictionary has now (`RecordsKept`), which needs that a refcount
  equals the number of users, so that pruning at zero hurts nobody; the theorem
  about idle records (`RegistryBounded`) needs the same count. These and the type
  invariant are proved and not run again.
* Compaction control. `Measured` adds to `CacheExact` that a compaction leaves no
  entry until the next response, so that a view read in between knows no budget:
  this is why no such view is refused. `Guarded` adds to `AdmittedBeforeOpening`
  what each state of the breaker means (closed: below the threshold; otherwise
  `open_since` is the time of the last opening; half open: cooled down since),
  from which `OutageBackoff` follows at the one step that admits. `Windowed` adds
  to `AttemptsBounded` that every attempt so far was made by the end of the
  counter's window, so that the one that opens the next window is alone in it.
* Compaction. A commit replaces ordinals read before the LLM call, so what must be
  known is what ingestion and purges can have done to them: `PassCurrent` says that
  what is left in the range is what the pass read, that the items around it cover
  older and newer messages than its sources do, and that the newest message lies
  above it, so no new item can fall into it. It rests on `Links` (a link runs to an
  older row), `Covers` (what a summary covers follows from its links) and `InOrder`
  (the items, in the order of ordinals, cover messages in their order, without
  overlap and none suppressed). The lemmas are about rows as values: what the
  resequencing, the range replacement, the chunk selection and the cascade do to
  them. `SuppressedNotInContext` and `NothingUnreachable` are read off the
  invariant. For the refinement each kind of step is mapped: a commit is a merge of
  neighbours (or changes nothing when a single item is folded), a purge or prune
  removes its messages, an ingested message is appended, every other step stutters.
  `ScanClean` rests on `ScanInv`: every summary has lineage and covers something, so
  that no two items can be equal and yet in order; a visible one is an item or a
  source, because what a commit takes out of the range becomes its parents.
  `SweepAccounts` rests on `SweepInv`: while nobody else wrote, the remembered range
  is exactly the chunk and the sources are its items (`Untouched`), which makes
  `running - removed + t` the count of the rows after the commit.
* Sums of token counts. `MapThenSumSet` takes the elements of a set in an order of
  its own. `Adds` (in `OrdinalFacts`) unfolds its recursion over the subsets of the
  set, and the lemmas (the sum does not depend on the order, is kept by renaming the
  elements, adds up over disjoint sets) are proved with a counterexample of least
  cardinality, for which no induction theorem with an operator parameter is needed.
  They serve the sweep's accounts and the budget walk.
* Assembly. The invariant over steps, `AssemblyInv`, is small: the context holds
  rows, and an assembled answer is what `AssembleItems` makes of the rows that are
  there now, for some request. The work is in the lemmas on what that function
  returns, for lists of any length. The repaired transcript is the concatenation of
  one piece per item; `Layout` gives the offset at which each piece starts, and
  `Turns` says what the pieces are: a turn, the results it takes, and nothing else
  that is a result. `Paired` is read off it, since a turn takes an id only when no
  earlier one did and takes it once (`PushedOnce`). Stripping removes blocks and
  whole assistant turns and nothing else (`Thins`), so a result in the span of a call
  is still in it afterwards, and a call whose one result was evicted is gone, which is
  `NoFalseMissing`. `WithinBudget` follows the recursion of the prompt-aware walk
  (`KeptExist`, `KeepRelevantFits`) and the sums. `Layout` and the walk's recursion
  are again handled with a least counterexample.
* Backfill. `MirrorInv` adds to the two table invariants that what a tick selected
  is live or was purged or deleted since. `OnceInv` says who may write: a tick
  between its re-check and its write holds the lock (`WriteTime`); what the holder
  still has to write is unwritten, which its own SELECT made true and which a late
  worker, without the lock, cannot undo; and a written leaf has its meta row until
  it is deleted, so no SELECT finds it again.
* Extraction. Here the lock does not exclude, so the argument is about rows: a
  commit counts exactly the mentions that `INSERT OR IGNORE` took, and they are new
  to the deleted mentions as well, because those belong to leaves that are gone, on
  which an INSERT violates a foreign key (`DroppedGone`). Counting needs that all
  these sets are finite.
* Synthesis. One invariant for the three properties: a call that builds owns a row
  of its key (`Latch`, `RowsUnique`), so a row's fingerprint is what its call
  selected (`ReadyExact`); only finished calls are referred to (`RefsServed`), so a
  purge takes no row from under a call that still builds; a call that no purge
  overtook finds its leaves live when it records its references (`FlightLive`), so
  they are complete (`Reached`).
* Reads. The invariant follows the call to its answer. Every id it holds between two
  statements was visible when read (`Unburied`); every id that no later statement
  filters is in scope (`InBounds`), which for links needs `OneConversation`; the scope
  resolved for a session holds its conversations only, and all that it cannot do without
  (`Resolved`), because a key in use has an active conversation (`ConvsTyped`); a regex
  or verbatim search that is not full has found all there is (`Thorough`, `NewestFull`:
  LIMIT cuts nothing off); the
  keyword arm has all it could find unless it was cut off (`Complete`); and the pages
  seen so far are the first ones of what is visible, for which ranks are shown to be
  dense (`PageSeen`).

Only model-checked:

* All liveness properties (`LockNeverStuck`, `TheftNoticed`, `EventuallyStored`,
  `Drained`, `EventuallySettled`): fairness is out of this
  prover's reach.

Every invariant of the runs is stated by a theorem. `Transactions`' hold under
`Disciplined`, see above; the other theorems have no hypothesis but the assumptions.

## 5. Not modelled

* Threads that share a connection through `with_transaction` of the stores, which
  has no lock: `Transactions` can express it (`Conn`, `Opens`), and nothing holds.
* The back-off of `should_compress`: `compress()` is a passthrough in this version.
* `tools/expand.py` and its recursion guard have no caller; telemetry and
  maintenance rows are written and never read back by the engine.
* Two doctor passes over one database at once; rows inserted between a cleaner's
  backup and its transaction; the importer's copy of a database whose `-wal` file
  holds committed rows.
* Formatting, prompts, scores of search ranking, configuration parsing,
  evaluation statistics, file and network I/O.

`PROJECT.json` gives the reason per component.

## 6. Plan

What would extend the project next: the recursion guard of `tools/expand.py` once it
has a caller, two doctor passes over one database, and the liveness properties when the
prover handles fairness.
