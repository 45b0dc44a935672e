------------------------------- MODULE Ingest -------------------------------
(***************************************************************************)
(* The diff-ingest path of one session (engine/ingest.py): threads that    *)
(* run _do_ingest_history_diff, for the post_llm_call hook and for         *)
(* handle_tool_call, over snapshots of the host's growing message list;    *)
(* the process-local cursor they share; its reconciliation with the store  *)
(* after a restart; the payload guard, which moves a payload to a file and *)
(* a large_files row before the message is stored (engine/ingest_guard.py, *)
(* large_files.py); and preassemble (engine/assemble.py), which replaces   *)
(* the live list and resets the cursor.                                    *)
(*                                                                         *)
(* A message is a role with a text, which other messages may repeat, and a *)
(* kind: "skip" is what the role gate and the failed-empty-assistant gate  *)
(* drop, "big" carries a payload the guard moves out, "stub" is what such  *)
(* a message looks like afterwards, with the file it refers to, "gist" is  *)
(* a rendered summary.  Its id, the order in which the host made it, is    *)
(* known to the properties only.  A message is stored in one transaction.  *)
(* The session lock covers the batch and the cursor's advance;             *)
(* reconciliation and the reset after a substitution happen outside it.    *)
(***************************************************************************)
EXTENDS Integers, Sequences, SequencesExt, FiniteSets, FiniteSetsExt, Functions

CONSTANTS
    Callers,       \* threads that may run the ingest hook
    Texts,         \* roles with texts
    Turns,         \* the texts and kinds each message the host produces may be
                   \* of; as many messages as it has elements
    MaxMishaps     \* bound: restarts, failures, substitutions, resets and
                   \* endings of the session, taken together

ASSUME IngestAssumption ==
    /\ Turns \in Seq(SUBSET [text : Texts, kind : {"plain", "big", "skip"}])
    /\ MaxMishaps \in Nat

VARIABLES
    hist,        \* the host's live message list
    made,        \* messages the host has produced
    open,        \* the stores are there (on_session_start ran)
    db,          \* the messages rows, by seq
    folded,      \* rows of db that a summary stands for in context_items
    blobs,       \* files of the large-files directory
    large,       \* files that have a large_files row
    cursor,      \* _last_seen_message_idx, or Unset
    reconciled,  \* the session is in _ingest_cursor_reconciled
    lock,        \* holder of the session lock, or Free
    pc,          \* where each caller is
    snap,        \* each caller's snapshot of the history
    found,       \* cursor value a caller's reconciliation computed, or Unset
    idx,         \* next position of a caller's batch
    file,        \* file a caller's guard has written, or NoFile
    got,         \* a caller's batch has stored something (ingested > 0)
    pre,         \* list preassemble is about to return, or NoList
    spent,       \* mishaps so far, by kind
    adrift       \* history: a cursor was written from outside the lock under a
                 \* caller in flight, or over a value set meanwhile, or the host
                 \* replayed a whole list that the rows are no record of

store == <<db, folded, blobs, large>>
caller == <<pc, snap, found, idx, file, got>>
ingestVars == <<hist, made, open, store, cursor, reconciled, lock, caller, pre, spent, adrift>>

Unset == -1
NoFile == 0
Free == "free"
NoList == << >>

ASSUME FreeAssumption == Free \notin Callers

Gist == [id |-> 0, text |-> "gist", kind |-> "gist", file |-> NoFile]

IngestInit ==
    /\ hist = << >> /\ made = 0 /\ open = TRUE
    /\ db = << >> /\ folded = 0 /\ blobs = {} /\ large = {}
    /\ cursor = Unset /\ reconciled = FALSE /\ lock = Free
    /\ pc = [c \in Callers |-> "idle"]
    /\ snap = [c \in Callers |-> << >>]
    /\ found = [c \in Callers |-> Unset]
    /\ idx = [c \in Callers |-> 0]
    /\ file = [c \in Callers |-> NoFile]
    /\ got = [c \in Callers |-> FALSE]
    /\ pre = NoList
    /\ spent = [restarts |-> 0, failures |-> 0, deltas |-> 0, subs |-> 0,
              resets |-> 0, ends |-> 0]
    /\ adrift = FALSE

\* One more mishap of a kind, within the bound; none once the rows and the list
\* have come apart, after which nothing is claimed of them.
MishapLeft == ~adrift /\ FoldFunction(+, 0, spent) < MaxMishaps

Mishap(kind) ==
    /\ MishapLeft
    /\ spent' = [spent EXCEPT ![kind] = @ + 1]

-----------------------------------------------------------------------------
\* _has_persistable_role and not _is_failed_empty_assistant.
Persistable(e) == e.kind # "skip"

\* A text of the message, at any depth of its content or tool calls, is a data
\* URI or a long base64 run: _protect_value finds something to move out.
CarriesPayload(e) == e.kind = "big"

\* generate_file_id and _write_atomic: a file of a new name, whole or not at all.
NewFile == 1 + Max({0} \cup blobs \cup large)

\* LargeFileManager.read finds the row and the file.
ReadsBack(f) == f \in large /\ f \in blobs

\* .get(session_id, 0)
Cursor == IF cursor = Unset THEN 0 ELSE cursor

\* A row holds the message.
Stored(e) == \E i \in 1 .. Len(db) : db[i].id = e.id

\* Messages among the first i of a history that are ever stored: the walk's
\* matched when each of them was matched.
Kept(h, i) == Cardinality({j \in 1 .. i : Persistable(h[j])})

\* (db_role, content): all that the walk compares.
Identity(e) == <<e.text, e.kind, e.file>>

\* They have the identities of the first of the stored rows, in order.
Replays(h, i, stored) ==
    \A j \in 1 .. i : Persistable(h[j]) =>
        Kept(h, j) <= Len(stored) /\ Identity(stored[Kept(h, j)]) = Identity(h[j])

\* The positions the walk passes: it stops at a mismatch, and once every stored
\* row is matched.
Walked(h, stored) ==
    {i \in 1 .. Len(h) : Replays(h, i, stored) /\ Kept(h, i - 1) < Len(stored)}

\* Mutants of ReplayCursor: the gate on replay evidence is missing; the last
\* matched message is not counted.
ReplayCursorUngated(h, stored) == IF stored = << >> THEN Unset ELSE Len(h)

ReplayCursorShort(h, stored) ==
    LET walked == Walked(h, stored)
    IN  IF walked = {} \/ Kept(h, Max(walked)) = 0 THEN Unset ELSE Max(walked) - 1

\* _reconcile_ingest_cursor's walk: how far the history replays the stored
\* rows, messages that are never stored included.  Unset when no row is matched.
ReplayCursor(h, stored) ==
    LET walked == Walked(h, stored)
    IN  IF walked = {} \/ Kept(h, Max(walked)) = 0 THEN Unset ELSE Max(walked)

\* The locals of a call go.
Return(c) ==
    /\ pc' = [pc EXCEPT ![c] = "idle"]
    /\ snap' = [snap EXCEPT ![c] = << >>]
    /\ found' = [found EXCEPT ![c] = Unset]
    /\ idx' = [idx EXCEPT ![c] = 0]
    /\ file' = [file EXCEPT ![c] = NoFile]
    /\ got' = [got EXCEPT ![c] = FALSE]

-----------------------------------------------------------------------------
(***************************************************************************)
(* The host.                                                               *)
(***************************************************************************)
NewMessage(m) ==
    /\ pre = NoList /\ open
    /\ made < Len(Turns) /\ m \in Turns[made + 1]
    /\ made' = made + 1
    /\ hist' = Append(hist, [id |-> made + 1, text |-> m.text, kind |-> m.kind,
                             file |-> NoFile])
    /\ UNCHANGED <<open, store, cursor, reconciled, lock, caller, pre, spent, adrift>>

\* The first i messages of the list are the first rows themselves.
Records(i) ==
    \A j \in 1 .. i : Persistable(hist[j]) =>
        Kept(hist, j) <= Len(db) /\ db[Kept(hist, j)] = hist[j]

\* The rows are what became of the list, as far as they go: what the host
\* replays after a restart can be matched with them.
Recorded ==
    \E i \in 0 .. Len(hist) :
        Records(i) /\ (i = Len(hist) \/ Kept(hist, i) = Len(db))

\* The process dies and comes back: only rows, files and the host's transcript
\* survive.  The host replays its transcript or delivers only what comes next.
Restart ==
    /\ \/ Mishap("restarts") /\ hist' = hist /\ adrift' = (adrift \/ ~Recorded)
       \/ Mishap("deltas") /\ hist' = << >> /\ UNCHANGED adrift
    /\ cursor' = Unset /\ reconciled' = FALSE /\ lock' = Free
    /\ pc' = [c \in Callers |-> "idle"]
    /\ snap' = [c \in Callers |-> << >>]
    /\ found' = [c \in Callers |-> Unset]
    /\ idx' = [c \in Callers |-> 0]
    /\ file' = [c \in Callers |-> NoFile]
    /\ got' = [c \in Callers |-> FALSE]
    /\ pre' = NoList
    /\ open' = TRUE
    /\ UNCHANGED <<made, store>>

\* Between two turns of the host.
BetweenTurns == pre = NoList /\ \A c \in Callers : pc[c] = "idle"

\* on_session_reset: the host starts an empty conversation.
SessionReset ==
    /\ BetweenTurns
    /\ Mishap("resets")
    /\ hist' = << >>
    /\ cursor' = Unset /\ reconciled' = FALSE
    /\ UNCHANGED <<made, open, store, lock, caller, pre, adrift>>

\* on_session_end: the connection and the stores go; the cursor stays.
SessionEnd ==
    /\ BetweenTurns
    /\ open
    /\ Mishap("ends")
    /\ open' = FALSE
    /\ UNCHANGED <<hist, made, store, cursor, reconciled, lock, caller, pre, adrift>>

\* on_session_start: without effect when the database is open.
SessionStart ==
    /\ ~open
    /\ open' = TRUE
    /\ UNCHANGED <<hist, made, store, cursor, reconciled, lock, caller, pre, spent, adrift>>

-----------------------------------------------------------------------------
(***************************************************************************)
(* _do_ingest_history_diff, run by caller c.                               *)
(***************************************************************************)

\* Past the early returns: there are stores and a list.  (The session is one that
\* no pattern ignores.)
Accepted == open /\ hist # << >>

\* The hook fires with a copy of the list.
Call(c) ==
    /\ pc[c] = "idle"
    /\ Accepted
    /\ snap' = [snap EXCEPT ![c] = hist]
    /\ pc' = [pc EXCEPT ![c] = IF reconciled THEN "check" ELSE "read"]
    /\ UNCHANGED <<hist, made, open, store, cursor, reconciled, lock, found, idx, file, got,
                   pre, spent, adrift>>

\* _reconcile_ingest_cursor up to its read of the rows: nothing to find when
\* the cursor is set already.
ReconcileRead(c) ==
    /\ pc[c] = "read"
    /\ found' = [found EXCEPT ![c] =
                    IF cursor # Unset THEN Unset ELSE ReplayCursor(snap[c], db)]
    /\ pc' = [pc EXCEPT ![c] = "write"]
    /\ UNCHANGED <<hist, made, open, store, cursor, reconciled, lock, snap, idx, file, got,
                   pre, spent, adrift>>

\* Its assignment, without the session lock, and the caller's mark.
ReconcileWrite(c) ==
    /\ pc[c] = "write"
    /\ cursor' = IF found[c] = Unset THEN cursor ELSE found[c]
    /\ adrift' = (adrift \/ (found[c] # Unset /\ cursor # Unset))
    /\ reconciled' = TRUE
    /\ pc' = [pc EXCEPT ![c] = "check"]
    /\ UNCHANGED <<hist, made, open, store, lock, snap, found, idx, file, got, pre, spent>>

\* The check before the lock is taken.
NothingNew(c) ==
    /\ pc[c] = "check"
    /\ Cursor >= Len(snap[c])
    /\ Return(c)
    /\ UNCHANGED <<hist, made, open, store, cursor, reconciled, lock, pre, spent, adrift>>

SomethingNew(c) ==
    /\ pc[c] = "check"
    /\ Cursor < Len(snap[c])
    /\ pc' = [pc EXCEPT ![c] = "wait"]
    /\ UNCHANGED <<hist, made, open, store, cursor, reconciled, lock, snap, found, idx, file,
                   got, pre, spent, adrift>>

\* The lock is got and the cursor read again: the batch starts there...
StartBatch(c) ==
    /\ pc[c] = "wait"
    /\ lock = Free
    /\ Cursor < Len(snap[c])
    /\ lock' = c
    /\ idx' = [idx EXCEPT ![c] = Cursor + 1]
    /\ pc' = [pc EXCEPT ![c] = "batch"]
    /\ UNCHANGED <<hist, made, open, store, cursor, reconciled, snap, found, file, got,
                   pre, spent, adrift>>

\* ... unless another caller advanced it meanwhile.
AlreadyDone(c) ==
    /\ pc[c] = "wait"
    /\ lock = Free
    /\ Cursor >= Len(snap[c])
    /\ Return(c)
    /\ UNCHANGED <<hist, made, open, store, cursor, reconciled, lock, pre, spent, adrift>>

\* The message a caller's batch has come to.
Current(c) == snap[c][idx[c]]
InBatch(c) == pc[c] \in {"batch", "filed", "guarded"} /\ idx[c] <= Len(snap[c])

\* The payload guard writes the file.  (When it cannot, the payload stays.)
WriteFile(c) ==
    /\ InBatch(c)
    /\ pc[c] = "batch" /\ CarriesPayload(Current(c))
    /\ blobs' = blobs \cup {NewFile}
    /\ file' = [file EXCEPT ![c] = NewFile]
    /\ pc' = [pc EXCEPT ![c] = "filed"]
    /\ UNCHANGED <<hist, made, open, db, folded, large, cursor, reconciled, lock, snap,
                   found, idx, got, pre, spent, adrift>>

\* The large_files row is committed, and the guard returns a reference.
RecordFile(c) ==
    /\ pc[c] = "filed"
    /\ large' = large \cup {file[c]}
    /\ pc' = [pc EXCEPT ![c] = "guarded"]
    /\ UNCHANGED <<hist, made, open, db, folded, blobs, cursor, reconciled, lock, snap,
                   found, idx, file, got, pre, spent, adrift>>

\* Mutant of RecordFails: the reference is made all the same.
RecordFailsReferred(c) ==
    /\ pc[c] = "filed"
    /\ blobs' = blobs \ {file[c]}
    /\ pc' = [pc EXCEPT ![c] = "guarded"]
    /\ UNCHANGED <<hist, made, open, db, folded, large, cursor, reconciled, lock, snap,
                   found, idx, file, got, pre, spent, adrift>>

\* The row cannot be written: the file is removed and the payload stays inline.
RecordFails(c) ==
    /\ pc[c] = "filed"
    /\ blobs' = blobs \ {file[c]}
    /\ file' = [file EXCEPT ![c] = NoFile]
    /\ pc' = [pc EXCEPT ![c] = "guarded"]
    /\ UNCHANGED <<hist, made, open, db, folded, large, cursor, reconciled, lock, snap,
                   found, idx, got, pre, spent, adrift>>

\* What the guard left of a message.
AfterGuard(c) ==
    IF file[c] = NoFile THEN Current(c)
    ELSE [Current(c) EXCEPT !.kind = "stub", !.file = file[c]]

NextMessage(c) ==
    /\ pc' = [pc EXCEPT ![c] = "batch"]
    /\ file' = [file EXCEPT ![c] = NoFile]
    /\ idx' = [idx EXCEPT ![c] = @ + 1]

\* _ingest_single for the next message of the batch: its transaction.
IngestOne(c) ==
    /\ InBatch(c) /\ pc[c] # "filed"
    /\ IF Persistable(Current(c))
       THEN /\ db' = Append(db, AfterGuard(c))
            /\ got' = [got EXCEPT ![c] = TRUE]
       ELSE UNCHANGED <<db, got>>
    /\ NextMessage(c)
    /\ UNCHANGED <<hist, made, open, folded, blobs, large, cursor, reconciled, lock, snap,
                   found, pre, spent, adrift>>

\* The transaction rolls back, by an exception that _ingest_batch logs or by
\* the UNIQUE(conversation_id, seq) race that _persist reports as not stored.
IngestFails(c) ==
    /\ InBatch(c) /\ pc[c] # "filed"
    /\ Persistable(Current(c))
    /\ Mishap("failures")
    /\ NextMessage(c)
    /\ UNCHANGED <<hist, made, open, store, cursor, reconciled, lock, snap, found, got,
                   pre, adrift>>

\* Mutant of FinishBatch: the lock is kept when nothing was stored.
FinishBatchKeepingLock(c) ==
    /\ pc[c] = "batch"
    /\ idx[c] > Len(snap[c])
    /\ cursor' = IF got[c] THEN Len(snap[c]) ELSE cursor
    /\ lock' = IF got[c] THEN Free ELSE lock
    /\ Return(c)
    /\ UNCHANGED <<hist, made, open, store, reconciled, pre, spent, adrift>>

\* The batch is over: the cursor moves past all of it when anything was stored.
FinishBatch(c) ==
    /\ pc[c] = "batch"
    /\ idx[c] > Len(snap[c])
    /\ cursor' = IF got[c] THEN Len(snap[c]) ELSE cursor
    /\ lock' = Free
    /\ Return(c)
    /\ UNCHANGED <<hist, made, open, store, reconciled, pre, spent, adrift>>

-----------------------------------------------------------------------------
(***************************************************************************)
(* Substitution.                                                           *)
(***************************************************************************)

\* A leaf pass of Compaction, seen from here: the oldest rows of the context
\* are replaced by a summary; the newest row is in the fresh tail.  (Without a
\* substitution to come it would make no difference.)
Fold ==
    /\ MishapLeft
    /\ \E n \in folded + 1 .. Len(db) - 1 : folded' = n
    /\ UNCHANGED <<hist, made, open, db, blobs, large, cursor, reconciled, lock, caller, pre,
                   spent, adrift>>

\* What the assembler makes of the context items.
Assembled ==
    IF folded > 0 THEN <<Gist>> \o SubSeq(db, folded + 1, Len(db)) ELSE db

\* _assemble_locked's fallbacks: no items, or raw items that trail the list.
Substitutable == db # << >> /\ (folded > 0 \/ Len(db) >= Len(hist))

\* _assemble_with_signal: a substitution under the session lock; otherwise, or when
\* assembling raises, the list comes back as it is, without the signal.
AssembleWithSignal ==
    /\ lock = Free
    /\ open /\ Substitutable
    /\ pre' = Assembled

\* preassemble up to the return of _assemble_with_signal.  (A list that comes out
\* as it went in makes no difference, nor does one that falls back.)
Assemble ==
    /\ pre = NoList
    /\ Assembled # hist
    /\ AssembleWithSignal
    /\ Mishap("subs")
    /\ UNCHANGED <<hist, made, open, store, cursor, reconciled, lock, caller, adrift>>

\* _reset_ingest_cursor_after_compaction, without the lock, and the host's
\* messages = preassemble(messages).
Substitute ==
    /\ pre # NoList
    /\ hist' = pre
    /\ cursor' = Len(pre)
    /\ pre' = NoList
    /\ adrift' = (adrift \/ \E c \in Callers : pc[c] # "idle")
    /\ UNCHANGED <<made, open, store, reconciled, lock, caller, spent>>

-----------------------------------------------------------------------------
CallerStep(c) ==
    \/ Call(c) \/ ReconcileRead(c) \/ ReconcileWrite(c)
    \/ NothingNew(c) \/ SomethingNew(c) \/ StartBatch(c) \/ AlreadyDone(c)
    \/ WriteFile(c) \/ RecordFile(c) \/ RecordFails(c)
    \/ IngestOne(c) \/ FinishBatch(c)

IngestNext ==
    \/ \E m \in UNION Range(Turns) : NewMessage(m)
    \/ Restart \/ SessionReset \/ SessionEnd \/ SessionStart
    \/ \E c \in Callers : CallerStep(c) \/ IngestFails(c)
    \/ Fold \/ Assemble \/ Substitute

IngestSpec == IngestInit /\ [][IngestNext]_ingestVars

\* The host calls the hooks on every turn, and a hook that runs goes on to its
\* end; nothing is assumed of the mishaps.
Fairness == \A c \in Callers : WF_ingestVars(CallerStep(c))

LiveSpec == IngestSpec /\ Fairness

-----------------------------------------------------------------------------
(***************************************************************************)
(* Properties.                                                             *)
(***************************************************************************)
\* Safety, for the re-read of the cursor under the session lock, the
\* reconciliation after a restart and the reset after a substitution.  As long
\* as no cursor was written under a caller in flight and no unmatched list was
\* replayed, the rows are the conversation in its order, each message once and
\* never a rendered summary.
StoredInOrder ==
    ~adrift => \A i \in 1 .. Len(db) :
                  /\ db[i] # Gist
                  /\ \A j \in 1 .. i - 1 : db[j].id < db[i].id

\* The list is no longer the conversation from its beginning: a reset or a restart
\* began a new one, or a substitution replaced it.
Relisted == spent.resets + spent.deltas + spent.subs > 0

\* The row in the place of message i of the list has its role and content.
Repeats(i) == Kept(hist, i) <= Len(db) /\ Identity(db[Kept(hist, i)]) = Identity(hist[i])

\* Safety, for the cursor's advance, for the replay-evidence gate and for the
\* reset to len(result).  The cursor never runs ahead of the rows, unless a
\* transaction failed: a message of the live list it has passed is stored or of
\* a kind that never is.  In a list that began anew the walk may also have passed
\* a message that repeats, in its place, what an older row holds: such a message
\* is lost, although the comment in _reconcile_ingest_cursor says that a delta
\* which happens to repeat content is persisted, but none of another content is.
CursorHonest ==
    ~adrift /\ spent.failures = 0 =>
              \A i \in 1 .. Len(hist) :
                 i <= Cursor /\ Persistable(hist[i]) /\ hist[i] # Gist
                     => Stored(hist[i]) \/ (Relisted /\ Repeats(i))

\* Safety, for the order of file, large_files row and message, and for the
\* cleanup when one of them fails.  Through crashes between any two of them, a
\* stored reference has its row and its file, and no two refer to one file.
StubsResolve ==
    /\ \A f \in large : ReadsBack(f)
    /\ \A i \in 1 .. Len(db) :
          db[i].kind = "stub" =>
              /\ ReadsBack(db[i].file)
              /\ \A j \in 1 .. i - 1 :
                    db[j].file = db[i].file => adrift /\ db[j].id = db[i].id

\* Liveness, for the diff against the cursor.  Again and again every message the
\* host produced is stored, through restarts in the middle of a batch, races of
\* the hooks and endings of the session, unless the session stays closed or a
\* transaction failed or the list was replaced.
EventuallyStored ==
    []<>(\/ \A i \in 1 .. Len(hist) : Persistable(hist[i]) => Stored(hist[i])
         \/ ~open
         \/ spent.failures + spent.subs + spent.resets + spent.deltas > 0)
=============================================================================
