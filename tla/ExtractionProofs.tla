--------------------------- MODULE ExtractionProofs ---------------------------
(***************************************************************************)
(* Proofs about Extraction: the occurrence counts agree with the mentions  *)
(* for any number of workers, leaves and surfaces, whatever the extractor  *)
(* answers and however often a leaf is extracted.                          *)
(*                                                                         *)
(* CountsMatch is not inductive.  A commit adds the mentions INSERT OR     *)
(* IGNORE took to the counts, so they must be new to the deleted mentions  *)
(* as well: those belong to leaves that are gone, on which every INSERT    *)
(* violates a foreign key.  And counting needs finite sets: the answers    *)
(* are lists, so every commit adds finitely many mentions.                 *)
(***************************************************************************)
EXTENDS Extraction, FiniteSetTheorems, TLAPS

-----------------------------------------------------------------------------
(***************************************************************************)
(* The inductive invariant.                                                *)
(***************************************************************************)
\* A tick past its SELECT works on a leaf, and an answer is a finite list.
IsTick(t) ==
    /\ DOMAIN t = {"pc", "items", "found", "lost", "raised"}
    /\ t.items \subseteq Leaves
    /\ IsFiniteSet(t.found)
    /\ t.pc \in {"beat", "extract", "commit"} => t.items # {}

TicksTyped ==
    /\ DOMAIN tick = Workers
    /\ \A w \in Workers : IsTick(tick[w])

LeavesTyped == leaf \in [Leaves -> {"absent", "live", "suppressed", "deleted"}]

\* Every mention ever recorded.
Recorded == mentions \cup dropped

MentionsTyped ==
    /\ IsFiniteSet(Recorded)
    /\ \A m \in Recorded : m[2] \in Leaves
    /\ \A m \in Recorded : m[1] \in DOMAIN count

\* Only a deleted leaf has lost its mentions, and it has none left.
DroppedGone ==
    /\ \A m \in dropped : leaf[m[2]] = "deleted"
    /\ \A m \in mentions : leaf[m[2]] # "deleted"

Counted ==
    /\ IsFiniteSet(DOMAIN count)
    /\ registry = Cardinality(DOMAIN count)
    /\ \A e \in DOMAIN count : count[e] = Cardinality(MentionsOf(Recorded, e))
    /\ \A e \in DOMAIN count : MentionsOf(Recorded, e) # {}

IInv == TicksTyped /\ LeavesTyped /\ MentionsTyped /\ DroppedGone /\ Counted

-----------------------------------------------------------------------------
(***************************************************************************)
(* Lemmas.                                                                 *)
(***************************************************************************)

\* A non-empty set of leaves has an oldest.
LEMMA OldestIn ==
    ASSUME NEW S, S \subseteq Nat, S # {}
    PROVE  Min(S) \in S /\ \A y \in S : Min(S) <= y
<1>1. PICK x \in S : \A y \in S : ~(<<y, x>> \in OpToRel(<, Nat))
    BY NatLessThanWellFounded, WFMin
<1>2. ASSUME NEW y \in S PROVE x <= y
    <2>1. y < x => <<y, x>> \in Nat \X Nat /\ <<y, x>>[1] < <<y, x>>[2]
        OBVIOUS
    <2>2. y < x => <<y, x>> \in OpToRel(<, Nat)
        BY <2>1, Zenon DEF OpToRel
    <2>3. ~(y < x) /\ x \in Nat /\ y \in Nat
        BY <1>1, <2>2
    <2> QED
        BY <2>3
<1> QED
    BY <1>2 DEF Min

\* The image of a finite set.
LEMMA ImageFinite ==
    ASSUME NEW S, IsFiniteSet(S), NEW T, NEW f \in [S -> T],
           \A t \in T : \E s \in S : f[s] = t
    PROVE  IsFiniteSet(T)
<1>1. f \in Surjection(S, T)
    BY DEF Surjection
<1> QED
    BY <1>1, FS_Surjection

\* The mentions of e in U are those in S and those in T.
AddUp(S, T, U, e) ==
    /\ Cardinality(MentionsOf(S, e)) \in Nat
    /\ Cardinality(MentionsOf(U, e)) =
           Cardinality(MentionsOf(S, e)) + Cardinality(MentionsOf(T, e))

\* Counting mentions that are new.
LEMMA CountNew ==
    ASSUME NEW S, IsFiniteSet(S), NEW T, IsFiniteSet(T), \A x \in T : x \notin S,
           NEW U, U = S \cup T, NEW e
    PROVE  AddUp(S, T, U, e)
<1> DEFINE A == MentionsOf(S, e)
           B == MentionsOf(T, e)
<1>1. A \subseteq S /\ B \subseteq T
    BY DEF MentionsOf
<1>2. IsFiniteSet(A) /\ IsFiniteSet(B)
    BY <1>1, FS_Subset
<1>3. A \cap B = {} /\ MentionsOf(U, e) = A \cup B
    BY <1>1 DEF MentionsOf
<1>4. Cardinality(A) \in Nat /\ Cardinality(B) \in Nat
    BY <1>2, FS_CardinalityType
<1>5. Cardinality(A \cup B) = Cardinality(A) + Cardinality(B) - Cardinality(A \cap B)
    BY <1>2, FS_Union
<1> HIDE DEF A, B
<1>6. Cardinality(A \cap B) = 0
    BY <1>3, FS_EmptySet
<1>7. Cardinality(A \cup B) = Cardinality(A) + Cardinality(B)
    BY <1>4, <1>5, <1>6
<1>8. Cardinality(MentionsOf(U, e)) = Cardinality(A) + Cardinality(B)
    BY <1>3, <1>7, Zenon
<1> QED
    BY <1>4, <1>8 DEF A, B, AddUp

\* What a tick looks like after its current leaf, and when it leaves.
LEMMA TickAfter ==
    ASSUME NEW t, IsTick(t)
    PROVE  /\ IsTick(NextItem(t))
           /\ IsTick(Leave(t))
           /\ IsTick(Leave([t EXCEPT !.lost = TRUE]))
           /\ IsTick(Leave([t EXCEPT !.raised = TRUE]))
<1>1. IsFiniteSet({})
    BY FS_EmptySet
<1>2. IsTick(NextItem(t))
    BY <1>1 DEF IsTick, NextItem
<1>3. IsTick(Leave(t))
    BY <1>1 DEF IsTick, Leave
<1>4. IsTick(Leave([t EXCEPT !.lost = TRUE]))
    BY <1>1 DEF IsTick, Leave
<1>5. IsTick(Leave([t EXCEPT !.raised = TRUE]))
    BY <1>1 DEF IsTick, Leave
<1> QED
    BY <1>2, <1>3, <1>4, <1>5

-----------------------------------------------------------------------------
(***************************************************************************)
(* The steps.                                                              *)
(***************************************************************************)

\* A database nothing was extracted from.
LEMMA InvInit == Init => IInv
<1> SUFFICES ASSUME Init PROVE IInv
    OBVIOUS
<1>1. /\ leaf = [d \in Leaves |-> "absent"]
      /\ DOMAIN count = {} /\ registry = 0 /\ mentions = {} /\ dropped = {}
      /\ tick = [w \in Workers |-> NoTick]
    BY DEF Init
<1>2. IsTick(NoTick)
    BY FS_EmptySet DEF NoTick, IsTick
<1>3. TicksTyped
    BY <1>1, <1>2 DEF TicksTyped
<1>4. LeavesTyped
    BY <1>1 DEF LeavesTyped
<1>5. MentionsTyped /\ DroppedGone
    BY <1>1, FS_EmptySet DEF MentionsTyped, DroppedGone, Recorded
<1>6. Counted
    BY <1>1, FS_EmptySet DEF Counted
<1> QED
    BY <1>3, <1>4, <1>5, <1>6 DEF IInv

\* A step of w that writes neither a leaf nor a mention.
LEMMA TickStep ==
    ASSUME IInv, UNCHANGED <<leaf, graph>>, NEW w \in Workers, NEW t,
           tick' = [tick EXCEPT ![w] = t], IsTick(t)
    PROVE  IInv'
<1>1. TicksTyped'
    BY DEF IInv, TicksTyped
<1>2. LeavesTyped' /\ MentionsTyped' /\ DroppedGone' /\ Counted'
    BY DEF IInv, graph, LeavesTyped, MentionsTyped, DroppedGone, Counted, Recorded
<1> QED
    BY <1>1, <1>2 DEF IInv

\* A step that concerns neither ticks nor the graph.
LEMMA OtherStep ==
    ASSUME IInv, UNCHANGED <<leaf, graph, tick>>
    PROVE  IInv'
BY DEF IInv, graph, TicksTyped, LeavesTyped, MentionsTyped, DroppedGone, Counted, Recorded

\* A leaf comes into being or is suppressed.
LEMMA LeafStep ==
    ASSUME IInv, UNCHANGED <<graph, tick>>, NEW d \in Leaves,
           leaf[d] # "deleted", NEW l \in {"live", "suppressed"},
           leaf' = [leaf EXCEPT ![d] = l]
    PROVE  IInv'
<1>1. TicksTyped' /\ MentionsTyped' /\ Counted'
    BY DEF IInv, graph, TicksTyped, MentionsTyped, Counted, Recorded
<1>2. LeavesTyped'
    BY DEF IInv, LeavesTyped
<1>3. \A x \in Leaves : (leaf'[x] = "deleted") <=> (leaf[x] = "deleted")
    BY DEF IInv, LeavesTyped
<1>4. DroppedGone'
    BY <1>3 DEF IInv, graph, MentionsTyped, Recorded, DroppedGone
<1> QED
    BY <1>1, <1>2, <1>4 DEF IInv

\* A conversation is deleted: its mentions go, what was recorded stays counted.
LEMMA DeleteKeeps ==
    ASSUME IInv, NEW d \in Leaves, Delete(d)
    PROVE  IInv'
<1>1. /\ leaf' = [leaf EXCEPT ![d] = "deleted"]
      /\ mentions' = {m \in mentions : m[2] # d}
      /\ dropped' = dropped \cup {m \in mentions : m[2] = d}
      /\ count' = count /\ registry' = registry /\ tick' = tick
    BY DEF Delete
<1>2. Recorded' = Recorded
    BY <1>1 DEF Recorded
<1>3. TicksTyped' /\ MentionsTyped' /\ Counted'
    BY <1>1, <1>2 DEF IInv, TicksTyped, MentionsTyped, Counted
<1>4. LeavesTyped' /\ leaf'[d] = "deleted" /\ \A x \in Leaves : x # d => leaf'[x] = leaf[x]
    BY <1>1 DEF IInv, LeavesTyped
<1>5. \A m \in Recorded : m[2] \in Leaves
    BY DEF IInv, MentionsTyped
<1>6. \A m \in dropped' : leaf'[m[2]] = "deleted"
    BY <1>1, <1>4, <1>5 DEF IInv, DroppedGone, Recorded
<1>7. \A m \in mentions' : leaf'[m[2]] # "deleted"
    BY <1>1, <1>4, <1>5 DEF IInv, DroppedGone, Recorded
<1> QED
    BY <1>3, <1>4, <1>6, <1>7 DEF IInv, DroppedGone

\* The surfaces of one leaf are recorded, whatever was extracted from it before.
LEMMA RecordKeeps ==
    ASSUME IInv, NEW d \in Leaves, NEW ok, IsFiniteSet(ok),
           leaf[d] = "deleted" => ok = {}, Record(d, ok), UNCHANGED <<leaf, dropped>>
    PROVE  MentionsTyped' /\ DroppedGone' /\ Counted'
<1> DEFINE all == {<<Canonical[s], d, s>> : s \in ok}
           new == Fresh(all)
           known == DOMAIN count
           found == Resolved(ok)
           fresh == found \ known
<1>1. /\ count' = [e \in known \cup found |->
                     (IF e \in known THEN count[e] ELSE 0) + Cardinality(MentionsOf(new, e))]
      /\ registry' = registry + Cardinality(fresh)
      /\ mentions' = mentions \cup new
    BY DEF Record
<1>2. /\ IsFiniteSet(Recorded)
      /\ \A m \in Recorded : m[2] \in Leaves
      /\ \A m \in Recorded : m[1] \in known
    BY DEF IInv, MentionsTyped
<1>3. /\ \A m \in dropped : leaf[m[2]] = "deleted"
      /\ \A m \in mentions : leaf[m[2]] # "deleted"
    BY DEF IInv, DroppedGone
<1>4. /\ IsFiniteSet(known)
      /\ registry = Cardinality(known)
      /\ \A e \in known : count[e] = Cardinality(MentionsOf(Recorded, e))
      /\ \A e \in known : MentionsOf(Recorded, e) # {}
    BY DEF IInv, Counted
<1>5. /\ new \subseteq all
      /\ new \cap mentions = {}
      /\ \A m \in new : m[2] = d /\ m[1] \in found /\ leaf[d] # "deleted"
      /\ \A e \in fresh : MentionsOf(new, e) # {}
    <2>1. new = all \ mentions
        BY DEF Fresh
    <2>2. ASSUME NEW m \in all PROVE m[2] = d /\ m[1] \in found /\ leaf[d] # "deleted"
        BY DEF Resolved
    <2>3. ASSUME NEW e \in fresh PROVE MentionsOf(new, e) # {}
        <3>1. PICK s \in ok : e = Canonical[s]
            BY DEF Resolved
        <3>2. <<e, d, s>> \in all /\ <<e, d, s>>[1] = e
            BY <3>1
        <3>3. <<e, d, s>> \notin mentions
            BY <1>2, <3>2 DEF Recorded
        <3>4. <<e, d, s>> \in new
            BY <2>1, <3>2, <3>3
        <3> QED
            BY <3>2, <3>4 DEF MentionsOf
    <2> QED
        BY <2>1, <2>2, <2>3
<1>6. IsFiniteSet(new) /\ IsFiniteSet(found) /\ IsFiniteSet(fresh)
    <2>1. IsFiniteSet(all)
        <3> DEFINE f == [s \in ok |-> <<Canonical[s], d, s>>]
        <3>1. f \in [ok -> all] /\ \A t \in all : \E s \in ok : f[s] = t
            OBVIOUS
        <3> QED
            BY <3>1, ImageFinite
    <2>2. IsFiniteSet(found)
        <3> DEFINE f == [s \in ok |-> Canonical[s]]
        <3>1. f \in [ok -> found] /\ \A t \in found : \E s \in ok : f[s] = t
            BY DEF Resolved
        <3> QED
            BY <3>1, ImageFinite
    <2>3. IsFiniteSet(new)
        <3> HIDE DEF all, new
        <3> QED
            BY <1>5, <2>1, FS_Subset
    <2> HIDE DEF found, known
    <2>4. IsFiniteSet(fresh)
        BY <2>2, FS_Difference
    <2> QED
        BY <2>2, <2>3, <2>4
<1> HIDE DEF all, new, known, found
<1>7. Recorded' = Recorded \cup new /\ Recorded \cap new = {}
    BY <1>1, <1>3, <1>5 DEF Recorded
<1>8. IsFiniteSet(Recorded')
    BY <1>2, <1>6, <1>7, FS_Union
<1>9. DOMAIN count' = known \cup found
    BY <1>1
<1>10. MentionsTyped'
    BY <1>2, <1>5, <1>7, <1>8, <1>9 DEF MentionsTyped
<1>11. DroppedGone'
    BY <1>1, <1>3, <1>5 DEF DroppedGone
<1>12. ASSUME NEW e \in known \cup found
       PROVE  /\ count'[e] = Cardinality(MentionsOf(Recorded', e))
              /\ MentionsOf(Recorded', e) # {}
    <2>1. /\ Cardinality(MentionsOf(Recorded, e)) \in Nat
          /\ Cardinality(MentionsOf(Recorded', e)) =
                 Cardinality(MentionsOf(Recorded, e)) + Cardinality(MentionsOf(new, e))
        <3>1. /\ IsFiniteSet(Recorded)
              /\ IsFiniteSet(new)
              /\ \A x \in new : x \notin Recorded
              /\ Recorded' = Recorded \cup new
            BY <1>2, <1>6, <1>7
        <3>2. AddUp(Recorded, new, Recorded', e)
            BY <3>1, CountNew
        <3> QED
            BY <3>2 DEF AddUp
    <2>2. count'[e] = (IF e \in known THEN count[e] ELSE 0) + Cardinality(MentionsOf(new, e))
        BY <1>1
    <2>3. CASE e \in known
        <3>1. MentionsOf(Recorded, e) \subseteq MentionsOf(Recorded', e)
            BY <1>7 DEF MentionsOf
        <3>2. count[e] = Cardinality(MentionsOf(Recorded, e)) /\ MentionsOf(Recorded, e) # {}
            BY <1>4, <2>3
        <3> QED
            BY <1>7, <2>1, <2>2, <2>3, <3>1, <3>2
    <2>4. CASE e \notin known
        <3>1. MentionsOf(Recorded, e) = {}
            BY <1>2, <2>4 DEF MentionsOf
        <3>2. Cardinality(MentionsOf(Recorded, e)) = 0
            BY <3>1, FS_EmptySet
        <3>3. MentionsOf(new, e) # {} /\ MentionsOf(new, e) \subseteq MentionsOf(Recorded', e)
            BY <1>5, <1>7, <2>4 DEF MentionsOf
        <3> QED
            BY <1>7, <2>1, <2>2, <2>4, <3>2, <3>3
    <2> QED
        BY <2>3, <2>4
<1>13. IsFiniteSet(known \cup found) /\ registry' = Cardinality(known \cup found)
    <2>1. known \cup found = known \cup fresh /\ known \cap fresh = {}
        OBVIOUS
    <2> HIDE DEF fresh
    <2>2. Cardinality(known) \in Nat /\ Cardinality(fresh) \in Nat
        BY <1>4, <1>6, FS_CardinalityType
    <2>3. /\ IsFiniteSet(known \cup fresh)
          /\ Cardinality(known \cup fresh) =
                 Cardinality(known) + Cardinality(fresh) - Cardinality(known \cap fresh)
        BY <1>4, <1>6, FS_Union
    <2>4. Cardinality(known \cap fresh) = 0
        BY <2>1, FS_EmptySet
    <2>5. registry' = Cardinality(known \cup fresh)
        BY <1>1, <1>4, <2>2, <2>3, <2>4
    <2> QED
        BY <2>1, <2>3, <2>5, Zenon
<1>14. Counted'
    BY <1>9, <1>12, <1>13 DEF Counted
<1> QED
    BY <1>10, <1>11, <1>14

\* The transaction of one leaf.
LEMMA CommitKeeps ==
    ASSUME IInv, NEW w \in Workers, Commit(w)
    PROVE  IInv'
<1>1. PICK failing \in SUBSET tick[w].found :
          /\ leaf[Item(w)] = "deleted" => failing = tick[w].found
          /\ Record(Item(w), tick[w].found \ failing)
    BY DEF Commit
<1>2. leaf' = leaf /\ dropped' = dropped /\ tick' = [tick EXCEPT ![w] = NextItem(tick[w])]
    BY DEF Commit
<1>3. IsTick(tick[w]) /\ tick[w].pc = "commit"
    BY DEF IInv, TicksTyped, Commit
<1>4. Item(w) \in Leaves
    <2>1. tick[w].items \subseteq Nat /\ tick[w].items # {}
        BY <1>3, ExtractionAssumption DEF IsTick
    <2> QED
        BY <1>3, <2>1, OldestIn DEF Item, IsTick
<1>5. IsFiniteSet(tick[w].found \ failing)
    BY <1>3, FS_Difference DEF IsTick
<1>6. MentionsTyped' /\ DroppedGone' /\ Counted'
    BY <1>1, <1>2, <1>4, <1>5, RecordKeeps
<1>7. TicksTyped'
    BY <1>2, <1>3, TickAfter DEF IInv, TicksTyped
<1>8. LeavesTyped'
    BY <1>2 DEF IInv, LeavesTyped
<1> QED
    BY <1>6, <1>7, <1>8 DEF IInv

\* The SELECT takes leaves, and at least one when some are pending.
LEMMA SelectTakes ==
    ASSUME Pending # {}
    PROVE  Oldest(Pending) \subseteq Leaves /\ Oldest(Pending) # {}
<1>1. Pending \subseteq Leaves /\ Pending \subseteq Nat
    BY ExtractionAssumption DEF Pending
<1> DEFINE first == Min(Pending)
<1>2. first \in Pending /\ \A e \in Pending : first <= e
    BY <1>1, OldestIn
<1> HIDE DEF first
<1>3. {e \in Pending : e < first} = {}
    <2>1. ASSUME NEW e \in Pending PROVE ~(e < first)
        BY <1>1, <1>2
    <2> QED
        BY <2>1
<1>4. Cardinality({e \in Pending : e < first}) < PerTickLimit
    <2>1. Cardinality({e \in Pending : e < first}) = 0
        BY <1>3, FS_EmptySet
    <2> QED
        BY <2>1, ExtractionAssumption
<1> QED
    BY <1>1, <1>2, <1>4 DEF Oldest

\* What the extractor returns is finite.
LEMMA ExtractedFinite ==
    ASSUME NEW d \in Leaves, NEW S \in Extracted(d)
    PROVE  IsFiniteSet(S)
<1>1. PICK a \in Answers(d) : S = ParseResponse(a)
    BY DEF Extracted
<1>2. CASE \E T \in Outputs[d] : a = Answer("list", T)
    <2>1. PICK T \in Outputs[d] : a = Answer("list", T)
        BY <1>2
    <2>2. S = T \ Malformed
        BY <1>1, <2>1 DEF ParseResponse, Answer
    <2>3. IsFiniteSet(T)
        BY ExtractionAssumption
    <2> QED
        BY <2>2, <2>3, FS_Difference
<1>3. CASE \E k \in {"prose", "silent", "refused"} : a = Answer(k, {})
    BY <1>1, <1>3, FS_EmptySet DEF ParseResponse, Answer
<1> QED
    BY <1>2, <1>3 DEF Answers

\* A step of a worker.
LEMMA WorkerKeeps ==
    ASSUME IInv, NEW w \in Workers, WorkerStep(w)
    PROVE  IInv'
<1> DEFINE t == tick[w]
<1>1. DOMAIN tick = Workers /\ IsTick(t)
    BY DEF IInv, TicksTyped
<1>2. IsTick(NoTick) /\ IsTick([NoTick EXCEPT !.pc = "insert"])
    BY FS_EmptySet DEF NoTick, IsTick
<1>3. CASE StartTick(w)
    BY <1>2, <1>3, TickStep DEF StartTick
<1>4. CASE AcquireOk(w)
    <2>1. tick' = [tick EXCEPT ![w] = [t EXCEPT !.pc = "select"]]
        BY <1>4 DEF AcquireOk
    <2>2. IsTick([t EXCEPT !.pc = "select"])
        BY <1>1 DEF IsTick
    <2> QED
        BY <1>4, <2>1, <2>2, TickStep DEF AcquireOk
<1>5. CASE AcquireRefused(w)
    <2>1. tick' = [tick EXCEPT ![w] = [t EXCEPT !.pc = "account", !.lost = TRUE]]
        BY <1>1, <1>5 DEF AcquireRefused
    <2>2. IsTick([t EXCEPT !.pc = "account", !.lost = TRUE])
        BY <1>1 DEF IsTick
    <2> QED
        BY <1>5, <2>1, <2>2, TickStep DEF AcquireRefused
<1>6. CASE Select(w)
    <2> DEFINE u == IF Pending = {} THEN Leave(t)
                    ELSE [t EXCEPT !.items = Oldest(Pending), !.pc = "beat"]
    <2>1. tick' = [tick EXCEPT ![w] = u]
        BY <1>6 DEF Select
    <2>2. IsTick(u)
        <3>1. CASE Pending = {}
            BY <1>1, <3>1, TickAfter
        <3>2. CASE Pending # {}
            <4>1. Oldest(Pending) \subseteq Leaves /\ Oldest(Pending) # {}
                BY <3>2, SelectTakes
            <4> QED
                BY <1>1, <3>2, <4>1 DEF IsTick
        <3> QED
            BY <3>1, <3>2
    <2> QED
        BY <1>6, <2>1, <2>2, TickStep DEF Select
<1>7. CASE BeatOk(w)
    <2>1. tick' = [tick EXCEPT ![w] = [t EXCEPT !.pc = "extract"]]
        BY <1>7 DEF BeatOk
    <2>2. IsTick([t EXCEPT !.pc = "extract"])
        BY <1>1, <1>7 DEF IsTick, BeatOk
    <2> QED
        BY <1>7, <2>1, <2>2, TickStep DEF BeatOk
<1>8. CASE BeatLost(w)
    BY <1>1, <1>8, TickAfter, TickStep DEF BeatLost
<1>9. CASE ExtractOk(w)
    <2>1. PICK S \in Extracted(Item(w)) :
              tick' = [tick EXCEPT ![w].found = S, ![w].pc = "commit"]
        BY <1>9 DEF ExtractOk
    <2>2. t.items # {} /\ t.items \subseteq Leaves
        BY <1>1, <1>9 DEF IsTick, ExtractOk
    <2>3. Item(w) \in Leaves
        BY <2>2, ExtractionAssumption, OldestIn DEF Item
    <2>4. IsFiniteSet(S)
        BY <2>3, ExtractedFinite
    <2>5. tick' = [tick EXCEPT ![w] = [t EXCEPT !.found = S, !.pc = "commit"]]
        BY <1>1, <2>1
    <2>6. IsTick([t EXCEPT !.found = S, !.pc = "commit"])
        BY <1>1, <2>2, <2>4 DEF IsTick
    <2> QED
        BY <1>9, <2>5, <2>6, TickStep DEF ExtractOk
<1>10. CASE ExtractFails(w)
    BY <1>1, <1>10, TickAfter, TickStep DEF ExtractFails
<1>11. CASE ExtractFailsUncounted(w)
    BY <1>1, <1>11, TickAfter, TickStep DEF ExtractFailsUncounted
<1>12. CASE Commit(w)
    BY <1>12, CommitKeeps
<1>13. CASE CommitFails(w)
    BY <1>1, <1>13, TickAfter, TickStep DEF CommitFails
<1>14. CASE TickError(w)
    BY <1>1, <1>14, TickAfter, TickStep DEF TickError
<1>15. CASE Release(w)
    <2>1. tick' = [tick EXCEPT ![w] = [t EXCEPT !.pc = "account"]]
        BY <1>15 DEF Release
    <2>2. IsTick([t EXCEPT !.pc = "account"])
        BY <1>1 DEF IsTick
    <2> QED
        BY <1>15, <2>1, <2>2, TickStep DEF Release
<1>16. CASE Account(w)
    BY <1>2, <1>16, TickStep DEF Account
<1> QED
    BY <1>3, <1>4, <1>5, <1>6, <1>7, <1>8, <1>9, <1>10, <1>11, <1>12, <1>13, <1>14,
       <1>15, <1>16 DEF WorkerStep

\* Every step.
LEMMA InvStep == IInv /\ [Next]_vars => IInv'
<1> SUFFICES ASSUME IInv, [Next]_vars PROVE IInv'
    OBVIOUS
<1>1. ASSUME NEW w \in Workers, WorkerStep(w) PROVE IInv'
    BY <1>1, WorkerKeeps
<1>2. ASSUME NEW d \in Leaves, LeafInserted(d) PROVE IInv'
    BY <1>2, LeafStep DEF LeafInserted
<1>3. ASSUME NEW d \in Leaves, Purge(d) PROVE IInv'
    BY <1>3, LeafStep DEF Purge
<1>4. ASSUME NEW d \in Leaves, Delete(d) PROVE IInv'
    BY <1>4, DeleteKeeps
<1>5. CASE ClockTick
    BY <1>5, OtherStep DEF ClockTick
<1>6. CASE UNCHANGED vars
    BY <1>6, OtherStep DEF vars, graph
<1> QED
    BY <1>1, <1>2, <1>3, <1>4, <1>5, <1>6 DEF Next

\* The invariant says what CountsMatch says.
LEMMA InvCounts == IInv => CountsMatch
<1> SUFFICES ASSUME IInv PROVE CountsMatch
    OBVIOUS
<1>1. ASSUME NEW e \in DOMAIN count
      PROVE  count[e] = Cardinality(MentionsOf(mentions \cup dropped, e)) /\ count[e] > 0
    <2>1. /\ count[e] = Cardinality(MentionsOf(Recorded, e))
          /\ MentionsOf(Recorded, e) # {}
          /\ IsFiniteSet(Recorded)
        BY DEF IInv, Counted, MentionsTyped
    <2>2. IsFiniteSet(MentionsOf(Recorded, e))
        BY <2>1, FS_Subset DEF MentionsOf
    <2>3. Cardinality(MentionsOf(Recorded, e)) \in Nat \ {0}
        BY <2>1, <2>2, FS_CardinalityType, FS_EmptySet
    <2>4. count[e] > 0
        BY <2>1, <2>3
    <2> QED
        BY <2>1, <2>4 DEF Recorded
<1>2. \A m \in mentions : m[1] \in DOMAIN count /\ leaf[m[2]] # "deleted"
    BY DEF IInv, MentionsTyped, DroppedGone, Recorded
<1>3. registry = Cardinality(DOMAIN count)
    BY DEF IInv, Counted
<1> QED
    BY <1>1, <1>2, <1>3 DEF CountsMatch

-----------------------------------------------------------------------------
(***************************************************************************)
(* The theorem.                                                            *)
(***************************************************************************)

\* run_coreference_tick: occurrence_count is the number of mentions ever
\* recorded and every mention belongs to a known entity and an existing leaf,
\* for any number of processes, any answers and any interleaving with purges
\* and deletions.
THEOREM CountsExact == Spec => []CountsMatch
BY InvInit, InvStep, InvCounts, PTL DEF Spec
===============================================================================
