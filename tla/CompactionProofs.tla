-------------------------- MODULE CompactionProofs --------------------------
(***************************************************************************)
(* Proofs about Compaction: what holds of the rows in every interleaving   *)
(* of the sweep with ingestion and purges, and the refinement of           *)
(* ContextLog, for any number of messages and summaries.                   *)
(*                                                                         *)
(* The hard step is the transaction of a pass, which replaces ordinals it  *)
(* read before the LLM call.  The invariant PassCurrent says what keeps    *)
(* them good: whatever is left in the range is what the pass has read, the *)
(* items around it cover older and newer messages than its sources do, and *)
(* the newest message lies above it, so that no new item can fall into it. *)
(* The lemmas are about rows as values; then they are applied to the       *)
(* actions.  The last four sections are about sums of token counts, about  *)
(* what IntegrityChecker looks for (ScanInv) and about the accounting of   *)
(* the sweep (SweepInv).                                                   *)
(***************************************************************************)
EXTENDS Compaction, OrdinalFacts

-----------------------------------------------------------------------------
(***************************************************************************)
(* The renumbering of context_items.                                       *)
(***************************************************************************)

\* h lists the ordinals of D in their order, under new numbers.
Renumbering(h, E, D) ==
    /\ E \subseteq Nat
    /\ IsFiniteSet(E)
    /\ h \in [E -> D]
    /\ \A o \in D : \E i \in E : h[i] = o
    /\ \A i, j \in E : i < j => h[i] < h[j]

\* Resequence renumbers the items and changes nothing else.
LEMMA ResequenceRenumbers ==
    ASSUME NEW c, DOMAIN c \subseteq Nat, IsFiniteSet(DOMAIN c)
    PROVE  \E h : /\ Renumbering(h, DOMAIN Resequence(c), DOMAIN c)
                  /\ \A i \in DOMAIN Resequence(c) : Resequence(c)[i] = c[h[i]]
<1> DEFINE D == DOMAIN c
           E == 0 .. Cardinality(D) - 1
           h == [i \in E |-> CHOOSE o \in D : Place(D, o) = i]
<1>1. Resequence(c) = [i \in E |-> c[h[i]]]
    BY DEF Resequence, Place
<1>2. ASSUME NEW i \in E PROVE h[i] \in D /\ Place(D, h[i]) = i
    BY PlaceOnto
<1>3. ASSUME NEW o \in D PROVE \E i \in E : h[i] = o
    <2>1. Place(D, o) \in E /\ h[Place(D, o)] \in D /\ Place(D, h[Place(D, o)]) = Place(D, o)
        BY <1>2, PlaceFacts
    <2> DEFINE p == h[Place(D, o)]
    <2>2. p \in Nat /\ o \in Nat /\ Place(D, o) \in Int
        BY <2>1
    <2>3. ~(p < o) /\ ~(o < p)
        BY <2>1, <2>2, PlaceFacts
    <2> QED
        BY <2>1, <2>2, <2>3
<1>4. ASSUME NEW i \in E, NEW j \in E, i < j PROVE h[i] < h[j]
    <2>1. h[i] \in Nat /\ h[j] \in Nat
        BY <1>2
    <2>2. h[i] # h[j] /\ ~(h[j] < h[i])
        BY <1>2, <1>4, <2>1, PlaceFacts
    <2> QED
        BY <2>1, <2>2
<1>5. Cardinality(D) \in Nat
    BY PlaceFacts
<1>6. E \subseteq Nat /\ IsFiniteSet(E)
    BY <1>5, FS_Interval
<1>7. Renumbering(h, E, D)
    BY <1>2, <1>3, <1>4, <1>6 DEF Renumbering
<1> HIDE DEF h
<1> QED
    BY <1>1, <1>7

-----------------------------------------------------------------------------
(***************************************************************************)
(* The messages a summary covers.  Cover is a recursive function; these    *)
(* lemmas say that it has the value its equation asks for, and how it      *)
(* changes when a summary is added or suppressed.                          *)
(***************************************************************************)
Row == [depth : Nat, tokens : Nat, msgs : SUBSET Nat, parents : SUBSET Nat,
        suppressed : BOOLEAN, flagged : BOOLEAN]

\* Summaries are condensed from earlier ones.
Acyclic(ss) == \A s \in DOMAIN ss : ss[s].parents \subseteq 1 .. s - 1

\* f solves the equation of Cover on the summaries ss.
IsCover(f, ss) ==
    f = [s \in DOMAIN ss |-> ss[s].msgs \cup UNION {f[p] : p \in ss[s].parents}]

CoverOf(ss) == CHOOSE f : IsCover(f, ss)

\* Cover, as a function of the rows alone.
LEMMA CoverIsCoverOf == Cover = CoverOf(sums)
BY DEF Cover, CoverOf, IsCover, Summaries

\* There is one solution: a least summary on which two differ has parents on
\* which they agree.
LEMMA CoverUnique ==
    ASSUME NEW ss \in Seq(Row), Acyclic(ss),
           NEW f, NEW g, IsCover(f, ss), IsCover(g, ss)
    PROVE  f = g
<1> DEFINE Bad == {s \in DOMAIN ss : f[s] # g[s]}
<1>1. /\ DOMAIN f = DOMAIN ss
      /\ DOMAIN g = DOMAIN ss
      /\ f = [s \in DOMAIN f |-> f[s]]
      /\ g = [s \in DOMAIN g |-> g[s]]
    BY DEF IsCover
<1>2. ASSUME Bad # {} PROVE FALSE
    <2>0. Bad \subseteq Nat
        OBVIOUS
    <2>1. PICK s \in Bad : \A r \in Bad : s <= r
        BY <1>2, <2>0, LeastNat
    <2>2. \A p \in ss[s].parents : p \in DOMAIN ss /\ p < s /\ p \in Nat /\ s \in Nat
        BY DEF Acyclic
    <2>3. \A p \in ss[s].parents : f[p] = g[p]
        BY <2>1, <2>2
    <2>4. {f[p] : p \in ss[s].parents} = {g[p] : p \in ss[s].parents}
        BY <2>3
    <2>5. /\ f[s] = ss[s].msgs \cup UNION {f[p] : p \in ss[s].parents}
          /\ g[s] = ss[s].msgs \cup UNION {g[p] : p \in ss[s].parents}
        BY DEF IsCover
    <2> QED
        BY <2>4, <2>5
<1> QED
    BY <1>1, <1>2

\* Suppressing and flagging leave the cover as it is.
LEMMA CoverSame ==
    ASSUME NEW ss \in Seq(Row), NEW tt \in Seq(Row), Acyclic(ss),
           DOMAIN tt = DOMAIN ss,
           \A s \in DOMAIN ss : tt[s].msgs = ss[s].msgs,
           \A s \in DOMAIN ss : tt[s].parents = ss[s].parents,
           IsCover(CoverOf(ss), ss)
    PROVE  /\ IsCover(CoverOf(tt), tt)
           /\ CoverOf(tt) = CoverOf(ss)
<1>1. IsCover(CoverOf(ss), tt)
    BY DEF IsCover
<1>2. IsCover(CoverOf(tt), tt)
    BY <1>1 DEF CoverOf
<1>3. Acyclic(tt)
    BY DEF Acyclic
<1> QED
    BY <1>1, <1>2, <1>3, CoverUnique

\* A new summary covers its messages and what its parents cover; the others
\* cover what they did.
LEMMA CoverAppend ==
    ASSUME NEW ss \in Seq(Row), Acyclic(ss), NEW r \in Row,
           r.parents \subseteq 1 .. Len(ss),
           IsCover(CoverOf(ss), ss)
    PROVE  /\ Acyclic(Append(ss, r))
           /\ IsCover(CoverOf(Append(ss, r)), Append(ss, r))
           /\ \A s \in DOMAIN ss : CoverOf(Append(ss, r))[s] = CoverOf(ss)[s]
           /\ CoverOf(Append(ss, r))[Len(ss) + 1] =
                  r.msgs \cup UNION {CoverOf(ss)[p] : p \in r.parents}
<1> DEFINE tt == Append(ss, r)
           k == Len(ss)
           f == CoverOf(ss)
           new == r.msgs \cup UNION {f[p] : p \in r.parents}
           g == [s \in DOMAIN tt |-> IF s = k + 1 THEN new ELSE f[s]]
<1>1. /\ tt \in Seq(Row) /\ k \in Nat
      /\ DOMAIN ss = 1 .. k
      /\ DOMAIN tt = 1 .. k + 1
      /\ tt[k + 1] = r
      /\ \A s \in 1 .. k : tt[s] = ss[s]
    OBVIOUS
<1> HIDE DEF tt, k
<1>2. Acyclic(tt)
    <2>1. ASSUME NEW s \in 1 .. k + 1 PROVE tt[s].parents \subseteq 1 .. s - 1
        <3>1. CASE s = k + 1
            BY <1>1, <3>1 DEF k
        <3>2. CASE s # k + 1
            <4>1. s \in 1 .. k
                BY <1>1, <3>2
            <4> QED
                BY <1>1, <4>1 DEF Acyclic
        <3> QED
            BY <3>1, <3>2
    <2> QED
        BY <1>1, <2>1 DEF Acyclic
<1>3. ASSUME NEW s \in 1 .. k + 1
      PROVE  g[s] = tt[s].msgs \cup UNION {g[p] : p \in tt[s].parents}
    <2>1. \A p \in tt[s].parents : p \in 1 .. k /\ p # k + 1 /\ p \in 1 .. k + 1
        BY <1>1, <1>2 DEF Acyclic
    <2>2. \A p \in tt[s].parents : g[p] = f[p]
        BY <1>1, <2>1
    <2>3. {g[p] : p \in tt[s].parents} = {f[p] : p \in tt[s].parents}
        BY <2>2
    <2>4. CASE s = k + 1
        BY <1>1, <2>3, <2>4
    <2>5. CASE s # k + 1
        <3>1. s \in 1 .. k /\ g[s] = f[s]
            BY <1>1, <2>5
        <3>2. f[s] = ss[s].msgs \cup UNION {f[p] : p \in ss[s].parents}
            BY <1>1, <3>1 DEF IsCover
        <3> QED
            BY <1>1, <2>3, <3>1, <3>2
    <2> QED
        BY <2>4, <2>5
<1>4. g = [s \in DOMAIN tt |-> g[s]]
    OBVIOUS
<1>5. IsCover(g, tt)
    BY <1>1, <1>3, <1>4 DEF IsCover
<1>6. IsCover(CoverOf(tt), tt)
    BY <1>5 DEF CoverOf
<1>7. CoverOf(tt) = g
    BY <1>1, <1>2, <1>5, <1>6, CoverUnique
<1>8. g[k + 1] = new /\ \A s \in 1 .. k : g[s] = f[s]
    BY <1>1
<1> HIDE DEF g
<1> QED
    BY <1>1, <1>2, <1>6, <1>7, <1>8 DEF tt, k

-----------------------------------------------------------------------------
(***************************************************************************)
(* What holds of the context between the steps of the actors, for a cover  *)
(* f, n messages, summaries ss and hidden messages hid.                    *)
(***************************************************************************)
ItemCover(f, c, o) == IF c[o].type = "message" THEN {c[o].id} ELSE f[c[o].id]

\* Every item refers to a message or a summary that exists.
ItemsExist(n, ss, c) ==
    /\ DOMAIN c \subseteq Nat
    /\ IsFiniteSet(DOMAIN c)
    /\ \A o \in DOMAIN c :
           \/ \E m \in 1 .. n : c[o] = MessageItem(m)
           \/ \E s \in DOMAIN ss : c[o] = SummaryItem(s)

\* The items follow each other as the messages they cover do.
Ordered(f, c) ==
    \A o, p \in DOMAIN c :
        o < p => \A x \in ItemCover(f, c, o), y \in ItemCover(f, c, p) : x < y

\* The newest message is the last item.
NewestLast(n, c) ==
    DOMAIN c # {} =>
        \E o \in DOMAIN c : c[o] = MessageItem(n) /\ \A p \in DOMAIN c : p <= o

\* A message that is still an item is linked to no summary.
RawUnlinked(ss, c) ==
    \A o \in DOMAIN c : c[o].type = "message" =>
        \A s \in DOMAIN ss : c[o].id \notin ss[s].msgs

\* SuppressedNotInContext and NothingUnreachable, of any rows.
ItemsVisible(ss, hid, c) ==
    \A o \in DOMAIN c :
        IF c[o].type = "message" THEN c[o].id \notin hid
        ELSE ~ss[c[o].id].suppressed

Reachable(f, n, hid, c) ==
    \A m \in (1 .. n) \ hid : \E o \in DOMAIN c : m \in ItemCover(f, c, o)

Laid(f, n, ss, hid, c) ==
    /\ ItemsExist(n, ss, c)
    /\ Ordered(f, c)
    /\ NewestLast(n, c)
    /\ RawUnlinked(ss, c)
    /\ ItemsVisible(ss, hid, c)
    /\ Reachable(f, n, hid, c)

\* All this depends on the order of the items, not on their numbers.
LEMMA LaidRenumbered ==
    ASSUME NEW f, NEW n \in Nat, NEW ss, NEW hid, NEW c, NEW d, NEW h,
           Laid(f, n, ss, hid, c),
           Renumbering(h, DOMAIN d, DOMAIN c),
           \A i \in DOMAIN d : d[i] = c[h[i]]
    PROVE  Laid(f, n, ss, hid, d)
<1>1. ASSUME NEW i \in DOMAIN d
      PROVE  /\ h[i] \in DOMAIN c
             /\ h[i] \in Nat
             /\ i \in Nat
             /\ d[i] = c[h[i]]
             /\ ItemCover(f, d, i) = ItemCover(f, c, h[i])
    BY DEF Renumbering, Laid, ItemsExist, ItemCover
<1>2. ASSUME NEW o \in DOMAIN c PROVE \E i \in DOMAIN d : h[i] = o
    BY DEF Renumbering
<1>3. ASSUME NEW i \in DOMAIN d, NEW j \in DOMAIN d, i < j PROVE h[i] < h[j]
    BY <1>3 DEF Renumbering
<1>4. ItemsExist(n, ss, d)
    BY <1>1 DEF Renumbering, Laid, ItemsExist
<1>5. Ordered(f, d)
    BY <1>1, <1>3 DEF Laid, Ordered
<1>6. NewestLast(n, d)
    <2>1. SUFFICES ASSUME DOMAIN d # {} PROVE NewestLast(n, d)
        BY DEF NewestLast
    <2>2. PICK o \in DOMAIN c : c[o] = MessageItem(n) /\ \A p \in DOMAIN c : p <= o
        BY <1>1, <2>1 DEF Laid, NewestLast
    <2>3. PICK i \in DOMAIN d : h[i] = o
        BY <1>2
    <2>4. ASSUME NEW j \in DOMAIN d PROVE j <= i
        <3>1. i \in Nat /\ j \in Nat /\ h[i] \in Nat /\ h[j] \in Nat /\ h[j] <= h[i]
            BY <1>1, <2>2, <2>3
        <3> QED
            BY <1>3, <3>1
    <2> QED
        BY <1>1, <2>2, <2>3, <2>4 DEF NewestLast
<1>7. RawUnlinked(ss, d)
    BY <1>1 DEF Laid, RawUnlinked
<1>8. ItemsVisible(ss, hid, d)
    BY <1>1 DEF Laid, ItemsVisible
<1>9. Reachable(f, n, hid, d)
    <2>1. ASSUME NEW m \in (1 .. n) \ hid PROVE \E i \in DOMAIN d : m \in ItemCover(f, d, i)
        <3>1. PICK o \in DOMAIN c : m \in ItemCover(f, c, o)
            BY DEF Laid, Reachable
        <3>2. PICK i \in DOMAIN d : h[i] = o
            BY <1>2
        <3> QED
            BY <1>1, <3>1, <3>2
    <2> QED
        BY <2>1 DEF Reachable
<1> QED
    BY <1>4, <1>5, <1>6, <1>7, <1>8, <1>9 DEF Laid

-----------------------------------------------------------------------------
(***************************************************************************)
(* A pass in flight remembers the ordinals lo .. hi and will write a       *)
(* summary that covers sc.                                                 *)
(***************************************************************************)
Flight(f, n, c, lo, hi, sc) ==
    /\ lo \in Nat
    /\ hi \in Nat
    /\ lo <= hi
    /\ sc \subseteq 1 .. n
    /\ \A o \in DOMAIN c : o < lo => \A x \in ItemCover(f, c, o), y \in sc : x < y
    /\ \A o \in DOMAIN c : hi < o => \A x \in ItemCover(f, c, o), y \in sc : y < x
    /\ \A o \in DOMAIN c : lo <= o /\ o <= hi => ItemCover(f, c, o) \subseteq sc
    /\ \E o \in DOMAIN c : hi < o /\ c[o] = MessageItem(n)

\* The context as replace_context_range_with_summary leaves it, before the
\* ordinals are renumbered.
Replaced(c, lo, hi, s) ==
    [o \in (DOMAIN c \ (lo .. hi)) \cup {lo} |->
        IF o = lo THEN SummaryItem(s) ELSE c[o]]

\* The transaction of a pass keeps the context in order, whatever happened to
\* the range since it was read.
LEMMA LaidReplaced ==
    ASSUME NEW f, NEW g, NEW n \in Nat, NEW ss \in Seq(Row), NEW hid, NEW c,
           NEW lo, NEW hi, NEW sc, NEW r \in Row,
           Laid(f, n, ss, hid, c),
           Flight(f, n, c, lo, hi, sc),
           \A s \in DOMAIN ss : g[s] = f[s],
           g[Len(ss) + 1] = sc,
           r.msgs \subseteq sc, ~r.suppressed
    PROVE  Laid(g, n, Append(ss, r), hid, Replaced(c, lo, hi, Len(ss) + 1))
<1> DEFINE k == Len(ss)
           tt == Append(ss, r)
           d == Replaced(c, lo, hi, k + 1)
<1>1. /\ k \in Nat
      /\ DOMAIN ss = 1 .. k
      /\ DOMAIN tt = 1 .. k + 1
      /\ tt[k + 1] = r
      /\ \A s \in 1 .. k : tt[s] = ss[s]
    OBVIOUS
<1>2. /\ DOMAIN d = (DOMAIN c \ (lo .. hi)) \cup {lo}
      /\ d[lo] = SummaryItem(k + 1)
      /\ \A o \in DOMAIN d : o # lo => d[o] = c[o]
    BY DEF Replaced
<1>3. /\ DOMAIN c \subseteq Nat /\ lo \in Nat /\ hi \in Nat /\ lo <= hi
      /\ \A x \in sc : x \in Int
    BY DEF Laid, ItemsExist, Flight
<1> HIDE DEF k, tt, d
<1>4. ASSUME NEW o \in DOMAIN d, o # lo
      PROVE  /\ o \in DOMAIN c
             /\ o \in Nat
             /\ d[o] = c[o]
             /\ o < lo \/ hi < o
             /\ ItemCover(g, d, o) = ItemCover(f, c, o)
    <2>1. o \in DOMAIN c /\ o \in Nat /\ d[o] = c[o] /\ (o < lo \/ hi < o)
        BY <1>2, <1>3, <1>4
    <2>2. CASE \E m \in 1 .. n : c[o] = MessageItem(m)
        BY <2>1, <2>2 DEF ItemCover, MessageItem
    <2>3. CASE \E s \in DOMAIN ss : c[o] = SummaryItem(s)
        BY <2>1, <2>3 DEF ItemCover, SummaryItem
    <2> QED
        BY <2>1, <2>2, <2>3 DEF Laid, ItemsExist
<1>5. /\ lo \in DOMAIN d
      /\ d[lo].type = "summary" /\ d[lo].id = k + 1
      /\ ItemCover(g, d, lo) = sc
    BY <1>2 DEF ItemCover, SummaryItem, k
<1>6. ItemsExist(n, tt, d)
    <2>1. DOMAIN d \subseteq Nat
        BY <1>2, <1>3
    <2>2. IsFiniteSet(DOMAIN c \ (lo .. hi))
        BY FS_Subset DEF Laid, ItemsExist
    <2>3. IsFiniteSet((DOMAIN c \ (lo .. hi)) \cup {lo})
        BY <2>2, FS_AddElement
    <2>4. ASSUME NEW o \in DOMAIN d
          PROVE  \/ \E m \in 1 .. n : d[o] = MessageItem(m)
                 \/ \E s \in DOMAIN tt : d[o] = SummaryItem(s)
        <3>1. CASE o = lo
            BY <1>1, <1>2, <3>1
        <3>2. CASE o # lo
            <4>1. o \in DOMAIN c /\ d[o] = c[o] /\ \A s \in DOMAIN ss : s \in DOMAIN tt
                BY <1>1, <1>4, <3>2
            <4> QED
                BY <4>1 DEF Laid, ItemsExist
        <3> QED
            BY <3>1, <3>2
    <2> QED
        BY <1>2, <2>1, <2>3, <2>4 DEF ItemsExist
<1>7. Ordered(g, d)
    <2>1. ASSUME NEW o \in DOMAIN d, NEW p \in DOMAIN d, o < p,
                 NEW x \in ItemCover(g, d, o), NEW y \in ItemCover(g, d, p)
          PROVE  x < y
        <3>1. CASE o = lo
            <4>1. p # lo /\ p \in DOMAIN c /\ hi < p /\ y \in ItemCover(f, c, p) /\ x \in sc
                BY <1>3, <1>4, <1>5, <2>1, <3>1
            <4> QED
                BY <4>1 DEF Flight
        <3>2. CASE p = lo
            <4>1. o # lo /\ o \in DOMAIN c /\ o < lo /\ x \in ItemCover(f, c, o) /\ y \in sc
                BY <1>3, <1>4, <1>5, <2>1, <3>2
            <4> QED
                BY <4>1 DEF Flight
        <3>3. CASE o # lo /\ p # lo
            BY <1>4, <2>1, <3>3 DEF Laid, Ordered
        <3> QED
            BY <3>1, <3>2, <3>3
    <2> QED
        BY <2>1 DEF Ordered
<1>8. NewestLast(n, d)
    <2>1. PICK q \in DOMAIN c : hi < q /\ c[q] = MessageItem(n)
        BY DEF Flight
    <2>2. PICK o \in DOMAIN c : c[o] = MessageItem(n) /\ \A p \in DOMAIN c : p <= o
        BY <2>1 DEF Laid, NewestLast
    <2>3. o \in Nat /\ q \in Nat /\ q <= o
        BY <1>3, <2>2
    <2>4. o \in DOMAIN d /\ o # lo
        BY <1>2, <1>3, <2>1, <2>3
    <2>5. ASSUME NEW p \in DOMAIN d PROVE p <= o
        BY <1>3, <1>4, <2>1, <2>2, <2>3
    <2> QED
        BY <1>4, <2>2, <2>4, <2>5 DEF NewestLast
<1>9. RawUnlinked(tt, d)
    <2>1. ASSUME NEW o \in DOMAIN d, d[o].type = "message", NEW s \in DOMAIN tt
          PROVE  d[o].id \notin tt[s].msgs
        <3>1. o # lo
            BY <1>5, <2>1
        <3>2. o \in DOMAIN c /\ d[o] = c[o] /\ (o < lo \/ hi < o) /\ c[o].type = "message"
            BY <1>4, <2>1, <3>1
        <3>3. CASE s = k + 1
            <4>1. d[o].id \in ItemCover(f, c, o)
                BY <3>2 DEF ItemCover
            <4>2. d[o].id \notin sc
                <5>1. SUFFICES ASSUME d[o].id \in sc PROVE FALSE
                    OBVIOUS
                <5>2. d[o].id \in Int
                    BY <1>3, <5>1
                <5>3. d[o].id < d[o].id
                    BY <3>2, <4>1, <5>1 DEF Flight
                <5> QED
                    BY <5>2, <5>3
            <4> QED
                BY <1>1, <3>3, <4>2
        <3>4. CASE s # k + 1
            <4>1. s \in DOMAIN ss /\ tt[s] = ss[s]
                BY <1>1, <3>4
            <4> QED
                BY <3>2, <4>1 DEF Laid, RawUnlinked
        <3> QED
            BY <3>3, <3>4
    <2> QED
        BY <2>1 DEF RawUnlinked
<1>10. ItemsVisible(tt, hid, d)
    <2>1. ASSUME NEW o \in DOMAIN d
          PROVE  IF d[o].type = "message" THEN d[o].id \notin hid
                 ELSE ~tt[d[o].id].suppressed
        <3>1. CASE o = lo
            BY <1>1, <1>5, <3>1
        <3>2. CASE o # lo
            <4>1. o \in DOMAIN c /\ d[o] = c[o]
                BY <1>4, <3>2
            <4>2. c[o].type # "message" => tt[c[o].id] = ss[c[o].id]
                BY <1>1, <4>1 DEF Laid, ItemsExist, MessageItem, SummaryItem
            <4> QED
                BY <4>1, <4>2 DEF Laid, ItemsVisible
        <3> QED
            BY <3>1, <3>2
    <2> QED
        BY <2>1 DEF ItemsVisible
<1>11. Reachable(g, n, hid, d)
    <2>1. ASSUME NEW m \in (1 .. n) \ hid PROVE \E o \in DOMAIN d : m \in ItemCover(g, d, o)
        <3>1. PICK o \in DOMAIN c : m \in ItemCover(f, c, o)
            BY DEF Laid, Reachable
        <3>2. CASE lo <= o /\ o <= hi
            <4>1. m \in sc
                BY <3>1, <3>2 DEF Flight
            <4> QED
                BY <1>5, <4>1
        <3>3. CASE ~(lo <= o /\ o <= hi)
            <4>1. o \in DOMAIN d /\ o # lo
                BY <1>2, <1>3, <3>3
            <4> QED
                BY <1>4, <3>1, <4>1
        <3> QED
            BY <3>2, <3>3
    <2> QED
        BY <2>1 DEF Reachable
<1> QED
    BY <1>6, <1>7, <1>8, <1>9, <1>10, <1>11 DEF Laid, tt, d, k

-----------------------------------------------------------------------------
(***************************************************************************)
(* A new message, with and without a pass in flight.                       *)
(***************************************************************************)

\* The context d is c with one item added, after every other.
ItemAppended(c, item, d) ==
    /\ NextOrdinal(c) \in Nat
    /\ \A o \in DOMAIN c : o < NextOrdinal(c)
    /\ DOMAIN d = DOMAIN c \cup {NextOrdinal(c)}
    /\ d[NextOrdinal(c)] = item
    /\ \A o \in DOMAIN c : d[o] = c[o]

\* An item added at the end comes after every other.
LEMMA AppendItemFacts ==
    ASSUME NEW c, DOMAIN c \subseteq Nat, IsFiniteSet(DOMAIN c), NEW item
    PROVE  ItemAppended(c, item, AppendItem(c, item))
<1>1. NextOrdinal(c) \in Nat /\ \A o \in DOMAIN c : o < NextOrdinal(c)
    <2>1. CASE DOMAIN c = {}
        BY <2>1 DEF NextOrdinal
    <2>2. CASE DOMAIN c # {}
        <3>1. Max(DOMAIN c) \in Nat /\ \A o \in DOMAIN c : o <= Max(DOMAIN c)
            BY <2>2, MaxFacts
        <3>2. NextOrdinal(c) = Max(DOMAIN c) + 1
            BY <2>2 DEF NextOrdinal
        <3> QED
            BY <3>1, <3>2
    <2> QED
        BY <2>1, <2>2
<1>2. NextOrdinal(c) \notin DOMAIN c
    BY <1>1
<1> QED
    BY <1>1, <1>2 DEF AppendItem, ItemAppended

\* No item covers more than the messages there are.
LEMMA CoverWithin ==
    ASSUME NEW f, NEW n \in Nat, NEW ss, NEW c, ItemsExist(n, ss, c),
           \A s \in DOMAIN ss : f[s] \subseteq 1 .. n,
           NEW o \in DOMAIN c
    PROVE  ItemCover(f, c, o) \subseteq 1 .. n
<1>1. CASE \E m \in 1 .. n : c[o] = MessageItem(m)
    BY <1>1 DEF ItemCover, MessageItem
<1>2. CASE \E s \in DOMAIN ss : c[o] = SummaryItem(s)
    BY <1>2 DEF ItemCover, SummaryItem
<1> QED
    BY <1>1, <1>2 DEF ItemsExist

\* Ingestion puts the new message last and touches nothing else.
LEMMA LaidAppended ==
    ASSUME NEW f, NEW n \in Nat, NEW ss, NEW hid, NEW c,
           Laid(f, n, ss, hid, c),
           hid \subseteq 1 .. n,
           \A s \in DOMAIN ss : f[s] \subseteq 1 .. n,
           \A s \in DOMAIN ss : ss[s].msgs \subseteq 1 .. n
    PROVE  Laid(f, n + 1, ss, hid, AppendItem(c, MessageItem(n + 1)))
<1> DEFINE q == NextOrdinal(c)
           d == AppendItem(c, MessageItem(n + 1))
<1>1. DOMAIN c \subseteq Nat /\ IsFiniteSet(DOMAIN c)
    BY DEF Laid, ItemsExist
<1>2. /\ q \in Nat
      /\ \A o \in DOMAIN c : o < q
      /\ DOMAIN d = DOMAIN c \cup {q}
      /\ d[q] = MessageItem(n + 1)
      /\ \A o \in DOMAIN c : d[o] = c[o]
    <2>1. ItemAppended(c, MessageItem(n + 1), d)
        BY <1>1, AppendItemFacts
    <2> QED
        BY <2>1 DEF ItemAppended
<1> HIDE DEF q, d
<1>3. ASSUME NEW o \in DOMAIN c
      PROVE  /\ ItemCover(f, d, o) = ItemCover(f, c, o)
             /\ \A x \in ItemCover(f, c, o) : x \in 1 .. n
    <2>1. ItemCover(f, c, o) \subseteq 1 .. n
        BY CoverWithin DEF Laid
    <2> QED
        BY <1>2, <2>1 DEF ItemCover
<1>4. ItemCover(f, d, q) = {n + 1} /\ d[q].type = "message" /\ d[q].id = n + 1
    BY <1>2 DEF ItemCover, MessageItem
<1>5. ItemsExist(n + 1, ss, d)
    <2>1. IsFiniteSet(DOMAIN c \cup {q}) /\ DOMAIN d \subseteq Nat
        BY <1>1, <1>2, FS_AddElement
    <2>2. n + 1 \in 1 .. n + 1 /\ \A m \in 1 .. n : m \in 1 .. n + 1
        OBVIOUS
    <2> QED
        BY <1>2, <2>1, <2>2 DEF Laid, ItemsExist
<1>6. Ordered(f, d)
    <2>1. ASSUME NEW o \in DOMAIN d, NEW p \in DOMAIN d, o < p,
                 NEW x \in ItemCover(f, d, o), NEW y \in ItemCover(f, d, p)
          PROVE  x < y
        <3>1. o \in DOMAIN c
            BY <1>1, <1>2, <2>1
        <3>2. CASE p \in DOMAIN c
            BY <1>3, <2>1, <3>1, <3>2 DEF Laid, Ordered
        <3>3. CASE p = q
            BY <1>3, <1>4, <2>1, <3>1, <3>3
        <3> QED
            BY <1>2, <3>2, <3>3
    <2> QED
        BY <2>1 DEF Ordered
<1>7. NewestLast(n + 1, d)
    BY <1>1, <1>2 DEF NewestLast
<1>8. RawUnlinked(ss, d)
    <2>1. ASSUME NEW s \in DOMAIN ss PROVE n + 1 \notin ss[s].msgs
        OBVIOUS
    <2> QED
        BY <1>2, <1>4, <2>1 DEF Laid, RawUnlinked
<1>9. ItemsVisible(ss, hid, d)
    <2>1. n + 1 \notin hid
        OBVIOUS
    <2> QED
        BY <1>2, <1>4, <2>1 DEF Laid, ItemsVisible
<1>10. Reachable(f, n + 1, hid, d)
    <2>1. ASSUME NEW m \in (1 .. n + 1) \ hid PROVE \E o \in DOMAIN d : m \in ItemCover(f, d, o)
        <3>1. CASE m = n + 1
            BY <1>2, <1>4, <3>1
        <3>2. CASE m # n + 1
            <4>1. m \in (1 .. n) \ hid
                BY <3>2
            <4>2. PICK o \in DOMAIN c : m \in ItemCover(f, c, o)
                BY <4>1 DEF Laid, Reachable
            <4> QED
                BY <1>2, <1>3, <4>2
        <3> QED
            BY <3>1, <3>2
    <2> QED
        BY <2>1 DEF Reachable
<1> QED
    BY <1>5, <1>6, <1>7, <1>8, <1>9, <1>10 DEF Laid, d

\* The newest message, above the range, keeps new items off it.
LEMMA FlightAppended ==
    ASSUME NEW f, NEW n \in Nat, NEW ss, NEW c, ItemsExist(n, ss, c),
           NEW lo, NEW hi, NEW sc, Flight(f, n, c, lo, hi, sc)
    PROVE  Flight(f, n + 1, AppendItem(c, MessageItem(n + 1)), lo, hi, sc)
<1> DEFINE q == NextOrdinal(c)
           d == AppendItem(c, MessageItem(n + 1))
<1>1. DOMAIN c \subseteq Nat /\ IsFiniteSet(DOMAIN c)
    BY DEF ItemsExist
<1>2. /\ q \in Nat
      /\ \A o \in DOMAIN c : o < q
      /\ DOMAIN d = DOMAIN c \cup {q}
      /\ d[q] = MessageItem(n + 1)
      /\ \A o \in DOMAIN c : d[o] = c[o]
    <2>1. ItemAppended(c, MessageItem(n + 1), d)
        BY <1>1, AppendItemFacts
    <2> QED
        BY <2>1 DEF ItemAppended
<1> HIDE DEF q, d
<1>3. \A o \in DOMAIN c : ItemCover(f, d, o) = ItemCover(f, c, o)
    BY <1>2 DEF ItemCover
<1>4. ItemCover(f, d, q) = {n + 1}
    BY <1>2 DEF ItemCover, MessageItem
<1>5. lo \in Nat /\ hi \in Nat /\ lo <= hi /\ \A x \in sc : x \in 1 .. n
    BY DEF Flight
<1>6. hi < q /\ ~(q < lo)
    <2>1. PICK o \in DOMAIN c : hi < o
        BY DEF Flight
    <2>2. o \in Nat /\ o < q
        BY <1>1, <1>2
    <2> QED
        BY <1>2, <1>5, <2>1, <2>2
<1>7. ASSUME NEW o \in DOMAIN d
      PROVE  /\ o < lo => \A x \in ItemCover(f, d, o), y \in sc : x < y
             /\ hi < o => \A x \in ItemCover(f, d, o), y \in sc : y < x
             /\ lo <= o /\ o <= hi => ItemCover(f, d, o) \subseteq sc
    <2>1. CASE o \in DOMAIN c
        BY <1>3, <2>1 DEF Flight
    <2>2. CASE o = q
        <3>1. \A x \in ItemCover(f, d, o), y \in sc : y < x
            BY <1>4, <1>5, <2>2
        <3>2. ~(o <= hi)
            BY <1>2, <1>5, <1>6, <2>2
        <3> QED
            BY <1>6, <2>2, <3>1, <3>2
    <2> QED
        BY <1>2, <2>1, <2>2
<1>8. sc \subseteq 1 .. n + 1
    BY <1>5
<1>9. \E o \in DOMAIN d : hi < o /\ d[o] = MessageItem(n + 1)
    BY <1>2, <1>6
<1> QED
    BY <1>5, <1>7, <1>8, <1>9 DEF Flight, d

-----------------------------------------------------------------------------
(***************************************************************************)
(* The purge cascade, with and without a pass in flight.                   *)
(***************************************************************************)

\* What the first two steps of the cascade do to the rows of summaries.
LEMMA SuppressedFacts ==
    ASSUME NEW ss \in Seq(Row), NEW L
    PROVE  /\ SuppressedSummaries(ss, L) \in Seq(Row)
           /\ Len(SuppressedSummaries(ss, L)) = Len(ss)
           /\ DOMAIN SuppressedSummaries(ss, L) = DOMAIN ss
           /\ \A s \in DOMAIN ss :
                  SuppressedSummaries(ss, L)[s].msgs = ss[s].msgs
           /\ \A s \in DOMAIN ss :
                  SuppressedSummaries(ss, L)[s].parents = ss[s].parents
           /\ \A s \in DOMAIN ss :
                  SuppressedSummaries(ss, L)[s].depth = ss[s].depth
           /\ \A s \in DOMAIN ss :
                  SuppressedSummaries(ss, L)[s].suppressed <=>
                      (ss[s].suppressed \/ s \in L)
<1> DEFINE tt == SuppressedSummaries(ss, L)
<1>1. DOMAIN tt = DOMAIN ss /\ DOMAIN ss = 1 .. Len(ss) /\ Len(ss) \in Nat
    BY DEF SuppressedSummaries
<1>2. ASSUME NEW s \in DOMAIN ss
      PROVE  /\ tt[s] \in Row
             /\ tt[s].msgs = ss[s].msgs
             /\ tt[s].parents = ss[s].parents
             /\ tt[s].depth = ss[s].depth
             /\ tt[s].suppressed <=> (ss[s].suppressed \/ s \in L)
    <2>1. ss[s] \in Row
        OBVIOUS
    <2>2. tt[s] = [ss[s] EXCEPT !.suppressed = ss[s].suppressed \/ s \in L,
                                !.flagged = ss[s].flagged \/ ss[s].parents \cap L # {}]
        BY DEF SuppressedSummaries
    <2> QED
        BY <2>1, <2>2 DEF Row
<1> HIDE DEF tt
<1>3. tt \in [1 .. Len(ss) -> Row]
    <2>1. tt = [s \in DOMAIN ss |-> tt[s]]
        BY DEF tt, SuppressedSummaries
    <2> QED
        BY <1>1, <1>2, <2>1
<1>4. tt \in Seq(Row) /\ Len(tt) = Len(ss)
    BY <1>1, <1>3
<1> QED
    BY <1>1, <1>2, <1>4 DEF tt

\* No message is linked twice.
LinkedOnce(ss) ==
    \A s, t \in DOMAIN ss : s # t => ss[s].msgs \cap ss[t].msgs = {}

\* So the messages of the leaves are all hidden: no other summary keeps one.
LEMMA NewlyHiddenAll ==
    ASSUME NEW ss, LinkedOnce(ss), NEW L, L \subseteq DOMAIN ss
    PROVE  NewlyHidden(ss, L) = LinkedMessages(ss, L)
<1>1. ASSUME NEW m \in LinkedMessages(ss, L), NEW s \in DOMAIN ss,
             m \in ss[s].msgs, s \notin L
      PROVE  FALSE
    <2>1. PICK t \in L : m \in ss[t].msgs
        BY DEF LinkedMessages
    <2> QED
        BY <1>1, <2>1 DEF LinkedOnce
<1> QED
    BY <1>1 DEF NewlyHidden

\* The items that stay, and what the items that go cover.
LEMMA WithoutPurgedFacts ==
    ASSUME NEW f, NEW n \in Nat, NEW ss, NEW c, ItemsExist(n, ss, c),
           NEW L, L \subseteq DOMAIN ss,
           \A s \in L : f[s] = ss[s].msgs
    PROVE  /\ DOMAIN WithoutPurged(ss, c, L) \subseteq DOMAIN c
           /\ \A o \in DOMAIN WithoutPurged(ss, c, L) :
                  /\ WithoutPurged(ss, c, L)[o] = c[o]
                  /\ ItemCover(f, WithoutPurged(ss, c, L), o) = ItemCover(f, c, o)
                  /\ c[o].type = "message" => c[o].id \notin LinkedMessages(ss, L)
                  /\ c[o].type # "message" => c[o].id \notin L
           /\ \A o \in DOMAIN c \ DOMAIN WithoutPurged(ss, c, L) :
                  ItemCover(f, c, o) \subseteq LinkedMessages(ss, L)
           /\ \A o \in DOMAIN c, m \in 1 .. n :
                  c[o] = MessageItem(m) /\ m \notin LinkedMessages(ss, L)
                      => o \in DOMAIN WithoutPurged(ss, c, L)
<1> DEFINE d == WithoutPurged(ss, c, L)
           M == LinkedMessages(ss, L)
<1>1. /\ DOMAIN d = {o \in DOMAIN c : /\ c[o] \notin {SummaryItem(s) : s \in L}
                                      /\ c[o] \notin {MessageItem(m) : m \in M}}
      /\ \A o \in DOMAIN d : d[o] = c[o]
    BY DEF WithoutPurged, Restrict
<1>2. \A s \in L : ss[s].msgs \subseteq M
    BY DEF LinkedMessages
<1> HIDE DEF d, M
<1>3. ASSUME NEW o \in DOMAIN d
      PROVE  /\ d[o] = c[o]
             /\ ItemCover(f, d, o) = ItemCover(f, c, o)
             /\ c[o].type = "message" => c[o].id \notin M
             /\ c[o].type # "message" => c[o].id \notin L
    <2>1. o \in DOMAIN c /\ d[o] = c[o]
        BY <1>1
    <2>2. ItemCover(f, d, o) = ItemCover(f, c, o)
        BY <2>1 DEF ItemCover
    <2>3. CASE \E m \in 1 .. n : c[o] = MessageItem(m)
        BY <1>1, <2>1, <2>2, <2>3 DEF MessageItem
    <2>4. CASE \E s \in DOMAIN ss : c[o] = SummaryItem(s)
        BY <1>1, <2>1, <2>2, <2>4 DEF SummaryItem
    <2> QED
        BY <2>1, <2>3, <2>4 DEF ItemsExist
<1>4. ASSUME NEW o \in DOMAIN c \ DOMAIN d PROVE ItemCover(f, c, o) \subseteq M
    <2>1. CASE \E s \in L : c[o] = SummaryItem(s)
        <3>1. PICK s \in L : c[o] = SummaryItem(s)
            BY <2>1
        <3>2. ItemCover(f, c, o) = f[s]
            BY <3>1 DEF ItemCover, SummaryItem
        <3> QED
            BY <1>2, <3>2
    <2>2. CASE \E m \in M : c[o] = MessageItem(m)
        BY <2>2 DEF ItemCover, MessageItem
    <2> QED
        BY <1>1, <2>1, <2>2
<1>5. ASSUME NEW o \in DOMAIN c, NEW m \in 1 .. n, c[o] = MessageItem(m), m \notin M
      PROVE  o \in DOMAIN d
    BY <1>1, <1>5 DEF MessageItem, SummaryItem
<1> QED
    BY <1>1, <1>3, <1>4, <1>5 DEF d, M

\* The cascade takes out of the context exactly what it suppresses.
LEMMA LaidPurged ==
    ASSUME NEW f, NEW n \in Nat, NEW ss \in Seq(Row), NEW hid, NEW c,
           Laid(f, n, ss, hid, c), LinkedOnce(ss),
           NEW L, L \subseteq DOMAIN ss,
           \A s \in L : f[s] = ss[s].msgs
    PROVE  Laid(f, n, SuppressedSummaries(ss, L), hid \cup NewlyHidden(ss, L),
                WithoutPurged(ss, c, L))
<1> DEFINE d == WithoutPurged(ss, c, L)
           M == LinkedMessages(ss, L)
           tt == SuppressedSummaries(ss, L)
<1>0. ItemsExist(n, ss, c)
    BY DEF Laid
<1>1. /\ DOMAIN d \subseteq DOMAIN c
      /\ \A o \in DOMAIN d :
             /\ d[o] = c[o]
             /\ ItemCover(f, d, o) = ItemCover(f, c, o)
             /\ c[o].type = "message" => c[o].id \notin M
             /\ c[o].type # "message" => c[o].id \notin L
      /\ \A o \in DOMAIN c \ DOMAIN d : ItemCover(f, c, o) \subseteq M
      /\ \A o \in DOMAIN c, m \in 1 .. n :
             c[o] = MessageItem(m) /\ m \notin M => o \in DOMAIN d
    BY <1>0, WithoutPurgedFacts
<1>2. NewlyHidden(ss, L) = M
    BY NewlyHiddenAll
<1>3. /\ DOMAIN tt = DOMAIN ss
      /\ \A s \in DOMAIN ss : tt[s].msgs = ss[s].msgs
      /\ \A s \in DOMAIN ss : tt[s].suppressed <=> (ss[s].suppressed \/ s \in L)
    BY SuppressedFacts
<1> HIDE DEF d, tt
<1>4. ItemsExist(n, tt, d)
    <2>1. IsFiniteSet(DOMAIN d)
        BY <1>0, <1>1, FS_Subset DEF ItemsExist
    <2> QED
        BY <1>0, <1>1, <1>3, <2>1 DEF ItemsExist
<1>5. Ordered(f, d)
    BY <1>1 DEF Laid, Ordered
<1>6. NewestLast(n, d)
    <2>1. SUFFICES ASSUME DOMAIN d # {} PROVE NewestLast(n, d)
        BY DEF NewestLast
    <2>2. PICK o \in DOMAIN c : c[o] = MessageItem(n) /\ \A p \in DOMAIN c : p <= o
        BY <1>1, <2>1 DEF Laid, NewestLast
    <2>3. n \notin M
        BY <2>2 DEF Laid, RawUnlinked, MessageItem, LinkedMessages
    <2>4. n \in 1 .. n
        BY <1>0, <2>2 DEF ItemsExist, MessageItem, SummaryItem
    <2>5. o \in DOMAIN d
        BY <1>1, <2>2, <2>3, <2>4
    <2> QED
        BY <1>1, <2>2, <2>5 DEF NewestLast
<1>7. RawUnlinked(tt, d)
    BY <1>1, <1>3 DEF Laid, RawUnlinked
<1>8. ItemsVisible(tt, hid \cup M, d)
    <2>1. ASSUME NEW o \in DOMAIN d
          PROVE  IF d[o].type = "message" THEN d[o].id \notin hid \cup M
                 ELSE ~tt[d[o].id].suppressed
        <3>1. CASE c[o].type = "message"
            BY <1>1, <3>1 DEF Laid, ItemsVisible
        <3>2. CASE c[o].type # "message"
            <4>1. /\ o \in DOMAIN c
                  /\ d[o] = c[o]
                  /\ c[o].id \in DOMAIN ss
                  /\ c[o].id \notin L
                BY <1>0, <1>1, <3>2 DEF ItemsExist, MessageItem, SummaryItem
            <4>2. ~ss[c[o].id].suppressed
                BY <3>2, <4>1 DEF Laid, ItemsVisible
            <4> QED
                BY <1>3, <3>2, <4>1, <4>2
        <3> QED
            BY <3>1, <3>2
    <2> QED
        BY <2>1 DEF ItemsVisible
<1>9. Reachable(f, n, hid \cup M, d)
    <2>1. ASSUME NEW m \in (1 .. n) \ (hid \cup M)
          PROVE  \E o \in DOMAIN d : m \in ItemCover(f, d, o)
        <3>1. PICK o \in DOMAIN c : m \in ItemCover(f, c, o)
            BY DEF Laid, Reachable
        <3>2. o \in DOMAIN d
            BY <1>1, <3>1
        <3> QED
            BY <1>1, <3>1, <3>2
    <2> QED
        BY <2>1 DEF Reachable
<1> QED
    BY <1>2, <1>4, <1>5, <1>6, <1>7, <1>8, <1>9 DEF Laid, d, tt

\* A purge may empty the range of a pass but puts nothing into it.
LEMMA FlightPurged ==
    ASSUME NEW f, NEW n \in Nat, NEW ss, NEW hid, NEW c,
           Laid(f, n, ss, hid, c),
           NEW L, L \subseteq DOMAIN ss,
           \A s \in L : f[s] = ss[s].msgs,
           NEW lo, NEW hi, NEW sc, Flight(f, n, c, lo, hi, sc)
    PROVE  Flight(f, n, WithoutPurged(ss, c, L), lo, hi, sc)
<1> DEFINE d == WithoutPurged(ss, c, L)
           M == LinkedMessages(ss, L)
<1>0. ItemsExist(n, ss, c)
    BY DEF Laid
<1>1. /\ DOMAIN d \subseteq DOMAIN c
      /\ \A o \in DOMAIN d :
             /\ d[o] = c[o]
             /\ ItemCover(f, d, o) = ItemCover(f, c, o)
      /\ \A o \in DOMAIN c, m \in 1 .. n :
             c[o] = MessageItem(m) /\ m \notin M => o \in DOMAIN d
    BY <1>0, WithoutPurgedFacts
<1> HIDE DEF d
<1>2. PICK o \in DOMAIN c : hi < o /\ c[o] = MessageItem(n)
    BY DEF Flight
<1>3. n \notin M
    BY <1>2 DEF Laid, RawUnlinked, MessageItem, LinkedMessages
<1>4. n \in 1 .. n
    BY <1>0, <1>2 DEF ItemsExist, MessageItem, SummaryItem
<1>5. o \in DOMAIN d
    BY <1>1, <1>2, <1>3, <1>4
<1> QED
    BY <1>1, <1>2, <1>5 DEF Flight, d

-----------------------------------------------------------------------------
(***************************************************************************)
(* The selection of a chunk.                                               *)
(***************************************************************************)

\* X is an uninterrupted run of items before the newest message.
IsRun(n, c, X) ==
    /\ X \subseteq DOMAIN c
    /\ X # {}
    /\ \A p \in DOMAIN c : Min(X) <= p /\ p <= Max(X) => p \in X
    /\ \E o \in DOMAIN c : c[o] = MessageItem(n) /\ \A p \in X : p < o

\* The fresh tail protects the newest message, whatever the token cap.
LEMMA EvictableOld ==
    ASSUME FreshTailCount \in Nat \ {0}, NEW mt, NEW ss, NEW n \in Nat, NEW c,
           DOMAIN c \subseteq Nat,
           NEW o \in DOMAIN c, c[o] = MessageItem(n), \A p \in DOMAIN c : p <= o
    PROVE  \A p \in Evictable(mt, ss, c) : p \in DOMAIN c /\ p < o
<1> DEFINE tail == FreshTail(mt, ss, c)
           newer == {p \in MessageOrds(c) : p > o}
<1>1. tail \subseteq DOMAIN c /\ MessageOrds(c) \subseteq DOMAIN c
    BY DEF FreshTail, MessageOrds
<1>2. newer = {}
    BY <1>1
<1>3. Cardinality(newer) < FreshTailCount
    BY <1>2, FS_EmptySet
<1>4. o \in MessageOrds(c)
    BY DEF MessageOrds, MessageItem
<1>5. o \in tail
    BY <1>2, <1>3, <1>4 DEF FreshTail
<1> HIDE DEF tail
<1>6. Min(tail) \in Nat /\ Min(tail) <= o
    BY <1>1, <1>5, MinFacts
<1>7. ASSUME NEW p \in Evictable(mt, ss, c) PROVE p \in DOMAIN c /\ p < Min(tail)
    BY <1>5 DEF Evictable, tail
<1> QED
    BY <1>6, <1>7

\* The scan stops at the first item it cannot take, so it leaves no gap.
LEMMA OldestRunIsRun ==
    ASSUME FreshTailCount \in Nat \ {0}, NEW mt, NEW ss, NEW n \in Nat, NEW c,
           ItemsExist(n, ss, c), NewestLast(n, c),
           NEW wanted, wanted \subseteq DOMAIN c,
           OldestRun(mt, ss, c, wanted) # {}
    PROVE  /\ OldestRun(mt, ss, c, wanted) \subseteq wanted
           /\ IsRun(n, c, OldestRun(mt, ss, c, wanted))
<1> DEFINE E == Evictable(mt, ss, c)
           first == Min(wanted \cap E)
           UpTo(o) == {p \in E : first <= p /\ p <= o}
           fits(o) == \/ o = first
                      \/ /\ TokensAt(mt, ss, c, UpTo(o) \ {o}) < LeafChunkTokens
                         /\ TokensAt(mt, ss, c, UpTo(o)) <= LeafChunkTokens
           good(p) == p \in wanted /\ fits(p)
           X == OldestRun(mt, ss, c, wanted)
<1>0. DOMAIN c \subseteq Nat /\ IsFiniteSet(DOMAIN c)
    BY DEF ItemsExist
<1>1. wanted \cap E # {} /\ X = {o \in E : o >= first /\ \A p \in UpTo(o) : good(p)}
    BY DEF OldestRun
<1>2. PICK o \in DOMAIN c : c[o] = MessageItem(n) /\ \A p \in DOMAIN c : p <= o
    BY <1>1 DEF NewestLast
<1>3. \A p \in E : p \in DOMAIN c /\ p < o
    BY <1>0, <1>2, EvictableOld
<1>4. first \in Nat /\ first \in E
    <2>1. wanted \cap E \subseteq Nat
        BY <1>0
    <2> QED
        BY <1>1, <2>1, MinFacts
<1>5. ASSUME NEW p \in E, NEW q \in DOMAIN c, q <= p PROVE q \in E
    <2>1. FreshTail(mt, ss, c) \subseteq Nat
        BY <1>0 DEF FreshTail, MessageOrds
    <2>2. FreshTail(mt, ss, c) # {} => Min(FreshTail(mt, ss, c)) \in Nat
        BY <2>1, MinFacts
    <2>3. p \in Nat /\ q \in Nat
        BY <1>0, <1>3
    <2> QED
        BY <1>5, <2>2, <2>3 DEF Evictable
<1> HIDE DEF E, good, X, first
<1>6. ASSUME NEW p \in X PROVE p \in wanted /\ p \in DOMAIN c /\ p < o /\ p \in Nat /\ p \in E
    <2>1. p \in E /\ first <= p /\ p \in Nat
        BY <1>0, <1>1, <1>3, <1>4
    <2>2. p \in UpTo(p)
        BY <2>1
    <2>3. good(p)
        BY <1>1, <2>2
    <2> QED
        BY <1>3, <2>1, <2>3 DEF good
<1>7. X # {} /\ X \subseteq Nat /\ IsFiniteSet(X)
    <2>1. X \subseteq DOMAIN c
        BY <1>6
    <2> QED
        BY <1>0, <1>6, <2>1, FS_Subset DEF X
<1>8. /\ Min(X) \in X /\ Max(X) \in X
    BY <1>7, MinFacts, MaxFacts
<1>9. ASSUME NEW q \in DOMAIN c, Min(X) <= q, q <= Max(X) PROVE q \in X
    <2>1. q \in E /\ q \in Nat /\ Min(X) \in Nat /\ Max(X) \in Nat
        BY <1>0, <1>5, <1>6, <1>8, <1>9
    <2>2. first <= Min(X)
        BY <1>1, <1>4, <1>8, <2>1
    <2>3. ASSUME NEW p \in UpTo(q) PROVE p \in UpTo(Max(X))
        <3>1. p \in Nat
            BY <1>0, <1>3
        <3> QED
            BY <1>9, <2>1, <3>1
    <2>4. \A p \in UpTo(q) : good(p)
        BY <1>1, <1>8, <2>3
    <2> QED
        BY <1>1, <1>4, <1>9, <2>1, <2>2, <2>4
<1>10. IsRun(n, c, X)
    BY <1>2, <1>6, <1>7, <1>9 DEF IsRun
<1> QED
    BY <1>6, <1>10 DEF X

\* What the selection reads is, at that moment, what the ordinals hold.
LEMMA FlightStarts ==
    ASSUME NEW f, NEW n \in Nat, NEW ss, NEW hid, NEW c,
           Laid(f, n, ss, hid, c),
           \A s \in DOMAIN ss : f[s] \subseteq 1 .. n,
           NEW X, IsRun(n, c, X),
           NEW sc, sc = UNION {ItemCover(f, c, o) : o \in X}
    PROVE  /\ Min(X) \in X
           /\ Max(X) \in X
           /\ Flight(f, n, c, Min(X), Max(X), sc)
<1>0. DOMAIN c \subseteq Nat /\ IsFiniteSet(DOMAIN c) /\ X \subseteq DOMAIN c /\ X # {}
    BY DEF Laid, ItemsExist, IsRun
<1>1. /\ Min(X) \in X /\ \A y \in X : Min(X) <= y
      /\ Max(X) \in X /\ \A y \in X : y <= Max(X)
    <2>1. X \subseteq Nat /\ IsFiniteSet(X)
        BY <1>0, FS_Subset
    <2> QED
        BY <1>0, <2>1, MinFacts, MaxFacts
<1> DEFINE lo == Min(X)
           hi == Max(X)
<1>2. lo \in Nat /\ hi \in Nat /\ lo <= hi
    BY <1>0, <1>1
<1> HIDE DEF lo, hi
<1>3. sc \subseteq 1 .. n
    BY <1>0, CoverWithin DEF Laid
<1>4. ASSUME NEW o \in DOMAIN c, o < lo, NEW x \in ItemCover(f, c, o), NEW y \in sc
      PROVE  x < y
    <2>1. PICK p \in X : y \in ItemCover(f, c, p)
        OBVIOUS
    <2>2. o < p /\ p \in DOMAIN c
        BY <1>0, <1>1, <1>2, <1>4 DEF lo
    <2> QED
        BY <2>1, <2>2 DEF Laid, Ordered
<1>5. ASSUME NEW o \in DOMAIN c, hi < o, NEW x \in ItemCover(f, c, o), NEW y \in sc
      PROVE  y < x
    <2>1. PICK p \in X : y \in ItemCover(f, c, p)
        OBVIOUS
    <2>2. p < o /\ p \in DOMAIN c
        BY <1>0, <1>1, <1>2, <1>5 DEF hi
    <2> QED
        BY <2>1, <2>2 DEF Laid, Ordered
<1>6. ASSUME NEW o \in DOMAIN c, lo <= o, o <= hi PROVE ItemCover(f, c, o) \subseteq sc
    <2>1. o \in X
        BY <1>6 DEF IsRun, lo, hi
    <2> QED
        BY <2>1
<1>7. \E o \in DOMAIN c : hi < o /\ c[o] = MessageItem(n)
    BY <1>1 DEF IsRun, hi
<1> QED
    BY <1>1, <1>2, <1>3, <1>4, <1>5, <1>6, <1>7 DEF Flight, lo, hi

-----------------------------------------------------------------------------
(***************************************************************************)
(* The inductive invariant.                                                *)
(***************************************************************************)
Types ==
    /\ mtok \in Seq(Nat)
    /\ sums \in Seq(Row)
    /\ hidden \subseteq 1 .. Len(mtok)
    /\ depth \in Nat

Links ==
    /\ Acyclic(sums)
    /\ LinkedOnce(sums)
    /\ \A s \in DOMAIN sums : sums[s].msgs \subseteq 1 .. Len(mtok)
    /\ \A s \in DOMAIN sums : sums[s].depth = 0 => sums[s].parents = {}

Covers ==
    /\ IsCover(Cover, sums)
    /\ \A s \in DOMAIN sums : Cover[s] \subseteq 1 .. Len(mtok)

InOrder == Laid(Cover, Len(mtok), sums, hidden, ctx)

\* A pass holds ordinals and ids it has read: from its selection to its commit.
InFlight == pc \in {"leafLlm", "condRead", "condLlm"}

\* What the summary of the pass in flight will cover.
ToCover == IF pc = "leafLlm" THEN src ELSE UNION {Cover[s] : s \in src}

\* Whatever is left between the remembered ordinals is what the pass has read.
RangeRead ==
    \A o \in DOMAIN ctx :
        Min(chunk) <= o /\ o <= Max(chunk) =>
            /\ ctx[o].type = IF pc = "leafLlm" THEN "message" ELSE "summary"
            /\ ctx[o].id \in src

PassCurrent ==
    InFlight =>
        /\ Flight(Cover, Len(mtok), ctx, Min(chunk), Max(chunk), ToCover)
        /\ RangeRead
        /\ pc = "leafLlm" => src \subseteq 1 .. Len(mtok)
        /\ pc = "leafLlm" => \A s \in DOMAIN sums : src \cap sums[s].msgs = {}
        /\ pc # "leafLlm" => src \subseteq DOMAIN sums

IInv == Types /\ Links /\ Covers /\ InOrder /\ PassCurrent

\* The same in the next state.
LEMMA CoverNext == Cover' = CoverOf(sums')
BY DEF Cover, CoverOf, IsCover, Summaries

\* An empty conversation.
LEMMA InvInit == Init => IInv
<1> SUFFICES ASSUME Init PROVE IInv
    OBVIOUS
<1>1. /\ mtok = <<>> /\ sums = <<>> /\ DOMAIN ctx = {} /\ hidden = {} /\ depth = 0
      /\ pc = "idle" /\ DOMAIN sums = {} /\ Len(mtok) = 0
    BY DEF Init
<1>2. Types
    BY <1>1 DEF Types
<1>3. Links
    BY <1>1 DEF Links, Acyclic, LinkedOnce
<1>4. Covers
    <2> DEFINE e == [s \in {} |-> {}]
    <2>1. IsCover(e, sums)
        BY <1>1 DEF IsCover
    <2> HIDE DEF e
    <2>2. IsCover(CoverOf(sums), sums)
        BY <2>1 DEF CoverOf
    <2> QED
        BY <1>1, <2>2, CoverIsCoverOf DEF Covers
<1>5. InOrder
    BY <1>1, FS_EmptySet DEF InOrder, Laid, ItemsExist, Ordered, NewestLast, RawUnlinked,
       ItemsVisible, Reachable
<1>6. PassCurrent
    BY <1>1 DEF PassCurrent, InFlight
<1> QED
    BY <1>2, <1>3, <1>4, <1>5, <1>6 DEF IInv

\* A step that writes no row and has no pass in flight after it.
LEMMA RowsKept ==
    ASSUME IInv, UNCHANGED rows, depth' \in Nat, ~InFlight'
    PROVE  IInv'
<1>1. mtok' = mtok /\ sums' = sums /\ hidden' = hidden /\ ctx' = ctx /\ Cover' = Cover
    BY CoverIsCoverOf, CoverNext DEF rows
<1>2. Types' /\ Links' /\ Covers' /\ InOrder'
    BY <1>1 DEF IInv, Types, Links, Covers, InOrder
<1>3. PassCurrent'
    BY DEF PassCurrent
<1> QED
    BY <1>2, <1>3 DEF IInv

\* _ingest_single, also while a pass is in flight.
LEMMA IngestKeeps ==
    ASSUME CompactionAssumption, IInv, NEW t \in MsgTokens, Ingest(t)
    PROVE  IInv'
<1> DEFINE n == Len(mtok)
<1>1. /\ mtok \in Seq(Nat) /\ n \in Nat /\ t \in Nat
      /\ mtok' = Append(mtok, t)
      /\ ctx' = AppendItem(ctx, MessageItem(n + 1))
      /\ hidden' = hidden /\ sums' = sums /\ pc' = pc
      /\ chunk' = chunk /\ src' = src /\ depth' = depth
    BY DEF IInv, Types, CompactionAssumption, Ingest, pass
<1>2. mtok' \in Seq(Nat) /\ Len(mtok') = n + 1 /\ \A m \in 1 .. n : m \in 1 .. n + 1
    BY <1>1
<1>3. Cover' = Cover
    BY <1>1, CoverIsCoverOf, CoverNext
<1> HIDE DEF n
<1>4. Types'
    BY <1>1, <1>2 DEF IInv, Types, n
<1>5. Links'
    BY <1>1, <1>2 DEF IInv, Links, n
<1>6. Covers'
    BY <1>1, <1>2, <1>3 DEF IInv, Covers, n
<1>7. InOrder'
    <2>1. Laid(Cover, n + 1, sums, hidden, ctx')
        BY <1>1, LaidAppended DEF IInv, Types, Links, Covers, InOrder, n
    <2> QED
        BY <1>1, <1>2, <1>3, <2>1 DEF InOrder
<1>8. PassCurrent'
    <2>1. SUFFICES ASSUME InFlight PROVE PassCurrent'
        BY <1>1 DEF PassCurrent, InFlight
    <2>2. ToCover' = ToCover
        BY <1>1, <1>3 DEF ToCover
    <2>3. ItemsExist(n, sums, ctx) /\ Flight(Cover, n, ctx, Min(chunk), Max(chunk), ToCover)
        BY <2>1 DEF IInv, InOrder, Laid, PassCurrent, n
    <2>4. Flight(Cover, n + 1, ctx', Min(chunk), Max(chunk), ToCover)
        BY <1>1, <2>3, FlightAppended
    <2>5. RangeRead'
        <3>0. DOMAIN ctx \subseteq Nat /\ IsFiniteSet(DOMAIN ctx)
            BY <2>3 DEF ItemsExist
        <3> DEFINE new == AppendItem(ctx, MessageItem(n + 1))
        <3>1. /\ NextOrdinal(ctx) \in Nat
              /\ \A o \in DOMAIN ctx : o < NextOrdinal(ctx)
              /\ DOMAIN new = DOMAIN ctx \cup {NextOrdinal(ctx)}
              /\ \A o \in DOMAIN ctx : new[o] = ctx[o]
            <4>1. ItemAppended(ctx, MessageItem(n + 1), new)
                BY <3>0, AppendItemFacts
            <4> QED
                BY <4>1 DEF ItemAppended
        <3> HIDE DEF new
        <3>2. PICK q \in DOMAIN ctx : Max(chunk) < q
            BY <2>3 DEF Flight
        <3>3. Max(chunk) \in Nat /\ q \in Nat /\ q < NextOrdinal(ctx)
            BY <2>3, <3>1 DEF Flight, ItemsExist
        <3>4. ~(NextOrdinal(ctx) <= Max(chunk))
            BY <3>1, <3>2, <3>3
        <3>5. ASSUME NEW o \in DOMAIN ctx', Min(chunk) <= o, o <= Max(chunk)
              PROVE  /\ ctx'[o].type = IF pc = "leafLlm" THEN "message" ELSE "summary"
                     /\ ctx'[o].id \in src
            <4>1. o \in DOMAIN ctx /\ ctx'[o] = ctx[o]
                BY <1>1, <3>1, <3>4, <3>5 DEF new
            <4> QED
                BY <2>1, <3>5, <4>1 DEF IInv, PassCurrent, RangeRead
        <3> QED
            BY <1>1, <3>5 DEF RangeRead
    <2> QED
        BY <1>1, <1>2, <1>3, <2>1, <2>2, <2>4, <2>5 DEF IInv, PassCurrent, n
<1> QED
    BY <1>4, <1>5, <1>6, <1>7, <1>8 DEF IInv

\* A leaf covers the messages it is linked to.
LEMMA LeafCovers ==
    ASSUME IInv, NEW L, L \subseteq Leaves
    PROVE  L \subseteq DOMAIN sums /\ \A s \in L : Cover[s] = sums[s].msgs
<1>1. ASSUME NEW s \in L PROVE s \in DOMAIN sums /\ sums[s].parents = {}
    BY DEF Leaves, Summaries, IInv, Links
<1>2. ASSUME NEW s \in L
      PROVE  Cover[s] = sums[s].msgs \cup UNION {Cover[p] : p \in sums[s].parents}
    BY <1>1 DEF IInv, Covers, IsCover
<1>3. ASSUME NEW s \in L PROVE UNION {Cover[p] : p \in sums[s].parents} = {}
    BY <1>1
<1> QED
    BY <1>1, <1>2, <1>3

\* run_purge and soft_prune, also while a pass is in flight.
LEMMA CascadeKeeps ==
    ASSUME IInv, NEW L, L \subseteq Leaves, Cascade(L)
    PROVE  IInv'
<1> DEFINE n == Len(mtok)
<1>1. /\ n \in Nat /\ sums \in Seq(Row)
      /\ sums' = SuppressedSummaries(sums, L)
      /\ ctx' = WithoutPurged(sums, ctx, L)
      /\ hidden' = hidden \cup NewlyHidden(sums, L)
      /\ mtok' = mtok /\ pc' = pc
      /\ chunk' = chunk /\ src' = src /\ depth' = depth
    BY DEF IInv, Types, Cascade, pass
<1>2. /\ sums' \in Seq(Row)
      /\ DOMAIN sums' = DOMAIN sums
      /\ \A s \in DOMAIN sums : sums'[s].msgs = sums[s].msgs
      /\ \A s \in DOMAIN sums : sums'[s].parents = sums[s].parents
      /\ \A s \in DOMAIN sums : sums'[s].depth = sums[s].depth
    BY <1>1, SuppressedFacts
<1>3. Cover' = Cover /\ IsCover(Cover', sums')
    BY <1>1, <1>2, CoverSame, CoverIsCoverOf, CoverNext DEF IInv, Links, Covers
<1>4. L \subseteq DOMAIN sums /\ \A s \in L : Cover[s] = sums[s].msgs
    BY LeafCovers
<1> HIDE DEF n
<1>5. NewlyHidden(sums, L) \subseteq 1 .. n
    BY <1>4 DEF IInv, Links, NewlyHidden, LinkedMessages, n
<1>6. Types'
    BY <1>1, <1>2, <1>5 DEF IInv, Types, n
<1>7. Links'
    <2>1. LinkedOnce(sums') /\ Acyclic(sums')
        BY <1>2 DEF IInv, Links, LinkedOnce, Acyclic
    <2>2. \A s \in DOMAIN sums' : sums'[s].msgs \subseteq 1 .. Len(mtok')
        BY <1>1, <1>2 DEF IInv, Links
    <2>3. \A s \in DOMAIN sums' : sums'[s].depth = 0 => sums'[s].parents = {}
        BY <1>2 DEF IInv, Links
    <2> QED
        BY <2>1, <2>2, <2>3 DEF Links
<1>8. Covers'
    BY <1>1, <1>2, <1>3 DEF IInv, Covers
<1>9. InOrder'
    <2>1. Laid(Cover, n, sums', hidden', ctx')
        BY <1>1, <1>4, LaidPurged DEF IInv, Links, InOrder, n
    <2> QED
        BY <1>1, <1>3, <2>1 DEF InOrder, n
<1>10. PassCurrent'
    <2>1. SUFFICES ASSUME InFlight PROVE PassCurrent'
        BY <1>1 DEF PassCurrent, InFlight
    <2>2. ToCover' = ToCover
        BY <1>1, <1>3 DEF ToCover
    <2>3. Flight(Cover, n, ctx', Min(chunk), Max(chunk), ToCover)
        BY <1>1, <1>4, <2>1, FlightPurged DEF IInv, InOrder, PassCurrent, n
    <2>4. RangeRead'
        <3>1. DOMAIN ctx' \subseteq DOMAIN ctx /\ \A o \in DOMAIN ctx' : ctx'[o] = ctx[o]
            BY <1>1, <1>4, WithoutPurgedFacts DEF IInv, InOrder, Laid, n
        <3>2. RangeRead
            BY <2>1 DEF IInv, PassCurrent
        <3> QED
            BY <1>1, <3>1, <3>2 DEF RangeRead
    <2> QED
        BY <1>1, <1>2, <1>3, <2>1, <2>2, <2>3, <2>4 DEF IInv, PassCurrent, n
<1> QED
    BY <1>6, <1>7, <1>8, <1>9, <1>10 DEF IInv

\* _leaf_pass reads a run of raw messages.
LEMMA LeafSelectRuns ==
    ASSUME CompactionAssumption, IInv, LeafSelect
    PROVE  chunk' \subseteq MessageOrds(ctx) /\ IsRun(Len(mtok), ctx, chunk')
<1> DEFINE n == Len(mtok)
<1>1. /\ n \in Nat /\ FreshTailCount \in Nat \ {0}
      /\ chunk' = LeafChunk(mtok, sums, ctx) /\ chunk' # {}
    BY DEF IInv, Types, CompactionAssumption, LeafSelect
<1> HIDE DEF n
<1>2. ItemsExist(n, sums, ctx) /\ NewestLast(n, ctx) /\ MessageOrds(ctx) \subseteq DOMAIN ctx
    BY DEF IInv, InOrder, Laid, MessageOrds, n
<1> QED
    BY <1>1, <1>2, OldestRunIsRun DEF LeafChunk, n

\* So its selection keeps the invariant.
LEMMA LeafSelectKeeps ==
    ASSUME CompactionAssumption, IInv, LeafSelect
    PROVE  IInv'
<1> DEFINE n == Len(mtok)
<1>1. /\ n \in Nat
      /\ src' = IdsAt(ctx, chunk') /\ pc' = "leafLlm"
      /\ mtok' = mtok /\ sums' = sums /\ hidden' = hidden /\ ctx' = ctx
      /\ depth' = depth
    BY DEF IInv, Types, CompactionAssumption, LeafSelect, rows
<1>2. Cover' = Cover
    BY <1>1, CoverIsCoverOf, CoverNext
<1>3. Types' /\ Links' /\ Covers' /\ InOrder'
    BY <1>1, <1>2 DEF IInv, Types, Links, Covers, InOrder
<1> HIDE DEF n
<1>4. ItemsExist(n, sums, ctx)
    BY DEF IInv, InOrder, Laid, n
<1>5. chunk' \subseteq MessageOrds(ctx) /\ IsRun(n, ctx, chunk')
    BY LeafSelectRuns DEF n
<1>6. ASSUME NEW o \in chunk'
      PROVE  /\ o \in DOMAIN ctx
             /\ ctx[o].type = "message"
             /\ ctx[o].id \in 1 .. n
             /\ ctx[o].id \in src'
             /\ \A s \in DOMAIN sums : ctx[o].id \notin sums[s].msgs
             /\ ItemCover(Cover, ctx, o) = {ctx[o].id}
    <2>1. o \in DOMAIN ctx /\ ctx[o].type = "message"
        BY <1>5 DEF MessageOrds
    <2>2. ctx[o].id \in 1 .. n
        BY <1>4, <2>1 DEF ItemsExist, MessageItem, SummaryItem
    <2> QED
        BY <1>1, <2>1, <2>2 DEF ItemCover, IdsAt, IInv, InOrder, Laid, RawUnlinked
<1>7. \A m \in src' : \E o \in chunk' : m = ctx[o].id
    BY <1>1 DEF IdsAt
<1>8. src' = UNION {ItemCover(Cover, ctx, o) : o \in chunk'}
    BY <1>6, <1>7
<1>9. Flight(Cover, n, ctx, Min(chunk'), Max(chunk'), src')
    BY <1>1, <1>5, <1>8, FlightStarts DEF IInv, InOrder, Covers, n
<1>10. RangeRead'
    <2>1. ASSUME NEW o \in DOMAIN ctx, Min(chunk') <= o, o <= Max(chunk')
          PROVE  ctx[o].type = "message" /\ ctx[o].id \in src'
        BY <1>5, <1>6, <2>1 DEF IsRun
    <2> QED
        BY <1>1, <2>1 DEF RangeRead
<1>11. src' \subseteq 1 .. n /\ \A s \in DOMAIN sums : src' \cap sums[s].msgs = {}
    BY <1>6, <1>7
<1>12. PassCurrent'
    BY <1>1, <1>2, <1>9, <1>10, <1>11 DEF PassCurrent, ToCover, n
<1> QED
    BY <1>3, <1>12 DEF IInv

\* _condensed_pass selects a run of summaries of one depth.
LEMMA CondSelectRuns ==
    ASSUME CompactionAssumption, IInv, CondSelect
    PROVE  /\ depth' \in Nat
           /\ chunk' \subseteq SummaryOrds(ctx)
           /\ IsRun(Len(mtok), ctx, chunk')
<1> DEFINE n == Len(mtok)
           depths == CandidateDepths(mtok, sums, ctx, flags.hard)
           wanted == {o \in SummaryOrds(ctx) :
                         sums[ctx[o].id].depth = depth' /\ ~sums[ctx[o].id].suppressed}
<1>1. /\ n \in Nat
      /\ FreshTailCount \in Nat \ {0}
      /\ HardFanout \in Nat \ {0} /\ LeafMinFanout \in Nat \ {0}
      /\ CondensedMinFanout \in Nat \ {0}
    BY DEF IInv, Types, CompactionAssumption
<1>2. /\ depths # {} /\ depth' = Min(depths)
      /\ chunk' = ChunkAtDepth(mtok, sums, ctx, depth')
    BY DEF CondSelect
<1> HIDE DEF n
<1>3. ItemsExist(n, sums, ctx) /\ NewestLast(n, ctx)
    BY DEF IInv, InOrder, Laid, n
<1>4. ASSUME NEW o \in SummaryOrds(ctx) PROVE o \in DOMAIN ctx /\ ctx[o].id \in DOMAIN sums
    BY <1>3 DEF SummaryOrds, ItemsExist, MessageItem, SummaryItem
<1>5. ASSUME NEW d \in depths
      PROVE  d \in Nat /\ ChunkAtDepth(mtok, sums, ctx, d) # {}
    <2>1. d \in EvictableDepths(mtok, sums, ctx)
          /\ Cardinality(ChunkAtDepth(mtok, sums, ctx, d)) >= Fanout(d, flags.hard)
        BY DEF CandidateDepths
    <2>2. PICK o \in SummaryOrds(ctx) : d = sums[ctx[o].id].depth
        BY <2>1 DEF EvictableDepths, IdsAt
    <2>3. d \in Nat
        <3>1. sums[ctx[o].id] \in Row
            BY <1>4 DEF IInv, Types
        <3> QED
            BY <2>2, <3>1 DEF Row
    <2>4. Fanout(d, flags.hard) \in Nat \ {0}
        BY <1>1 DEF Fanout
    <2>5. ASSUME ChunkAtDepth(mtok, sums, ctx, d) = {} PROVE FALSE
        <3>1. 0 >= Fanout(d, flags.hard)
            BY <2>1, <2>5, FS_EmptySet
        <3> QED
            BY <2>4, <3>1
    <2> QED
        BY <2>3, <2>5
<1>6. depth' \in Nat /\ depth' \in depths
    <2>1. depths \subseteq Nat
        BY <1>5
    <2> HIDE DEF depths
    <2> QED
        BY <1>2, <2>1, MinFacts
<1>7. chunk' \subseteq wanted /\ IsRun(n, ctx, chunk')
    <2>1. wanted \subseteq DOMAIN ctx
        BY <1>4
    <2>2. chunk' # {} /\ chunk' = OldestRun(mtok, sums, ctx, wanted)
        BY <1>2, <1>5, <1>6 DEF ChunkAtDepth
    <2> HIDE DEF wanted
    <2> QED
        BY <1>1, <1>3, <2>1, <2>2, OldestRunIsRun
<1> QED
    BY <1>6, <1>7 DEF n

\* So its selection keeps the invariant too.
LEMMA CondSelectKeeps ==
    ASSUME CompactionAssumption, IInv, CondSelect
    PROVE  IInv'
<1> DEFINE n == Len(mtok)
<1>1. /\ n \in Nat /\ src' = IdsAt(ctx, chunk') /\ pc' = "condRead"
      /\ mtok' = mtok /\ sums' = sums /\ hidden' = hidden /\ ctx' = ctx
    BY DEF CondSelect, rows, IInv, Types
<1>2. Cover' = Cover
    BY <1>1, CoverIsCoverOf, CoverNext
<1>3. depth' \in Nat /\ chunk' \subseteq SummaryOrds(ctx) /\ IsRun(n, ctx, chunk')
    BY CondSelectRuns
<1>4. Types' /\ Links' /\ Covers' /\ InOrder'
    BY <1>1, <1>2, <1>3 DEF IInv, Types, Links, Covers, InOrder
<1> HIDE DEF n
<1>5. ASSUME NEW o \in SummaryOrds(ctx) PROVE o \in DOMAIN ctx /\ ctx[o].id \in DOMAIN sums
    BY DEF SummaryOrds, IInv, InOrder, Laid, ItemsExist, MessageItem, SummaryItem
<1>6. ASSUME NEW o \in chunk'
      PROVE  /\ o \in DOMAIN ctx
             /\ ctx[o].type = "summary"
             /\ ctx[o].id \in DOMAIN sums
             /\ ctx[o].id \in src'
             /\ ItemCover(Cover, ctx, o) = Cover[ctx[o].id]
    <2>1. o \in SummaryOrds(ctx)
        BY <1>3
    <2> QED
        BY <1>1, <1>5, <2>1 DEF SummaryOrds, IdsAt, ItemCover
<1>7. \A s \in src' : \E o \in chunk' : s = ctx[o].id
    BY <1>1 DEF IdsAt
<1>8. UNION {Cover[s] : s \in src'} = UNION {ItemCover(Cover, ctx, o) : o \in chunk'}
    <2>1. ASSUME NEW s \in src' PROVE \E o \in chunk' : Cover[s] = ItemCover(Cover, ctx, o)
        BY <1>6, <1>7
    <2>2. ASSUME NEW o \in chunk' PROVE \E s \in src' : Cover[s] = ItemCover(Cover, ctx, o)
        BY <1>6
    <2> QED
        BY <2>1, <2>2
<1>9. Flight(Cover, n, ctx, Min(chunk'), Max(chunk'), UNION {Cover[s] : s \in src'})
    BY <1>1, <1>3, <1>8, FlightStarts DEF IInv, InOrder, Covers, n
<1>10. RangeRead'
    <2>1. ASSUME NEW o \in DOMAIN ctx, Min(chunk') <= o, o <= Max(chunk')
          PROVE  ctx[o].type = "summary" /\ ctx[o].id \in src'
        BY <1>3, <1>6, <2>1 DEF IsRun
    <2> QED
        BY <1>1, <2>1 DEF RangeRead
<1>11. src' \subseteq DOMAIN sums
    BY <1>6, <1>7
<1>12. PassCurrent'
    BY <1>1, <1>2, <1>9, <1>10, <1>11 DEF PassCurrent, ToCover, n
<1> QED
    BY <1>4, <1>12 DEF IInv

\* What a purge suppressed is no longer between the ordinals, so leaving it out
\* of the sources loses nothing that is.
LEMMA CondReadKeeps ==
    ASSUME IInv, CondRead
    PROVE  IInv'
<1> DEFINE n == Len(mtok)
<1>1. /\ pc = "condRead" /\ pc' = "condLlm"
      /\ src' = {s \in src : ~sums[s].suppressed}
      /\ mtok' = mtok /\ sums' = sums /\ hidden' = hidden /\ ctx' = ctx
      /\ chunk' = chunk /\ depth' = depth
    BY DEF CondRead, Readable, rows
<1>2. Cover' = Cover
    BY <1>1, CoverIsCoverOf, CoverNext
<1>3. Types' /\ Links' /\ Covers' /\ InOrder'
    BY <1>1, <1>2 DEF IInv, Types, Links, Covers, InOrder
<1>4. /\ Flight(Cover, n, ctx, Min(chunk), Max(chunk), UNION {Cover[s] : s \in src})
      /\ RangeRead
      /\ src \subseteq DOMAIN sums
    BY <1>1 DEF IInv, PassCurrent, InFlight, ToCover
<1> HIDE DEF n
<1>5. ASSUME NEW o \in DOMAIN ctx, Min(chunk) <= o, o <= Max(chunk)
      PROVE  ctx[o].type = "summary" /\ ctx[o].id \in src'
    <2>1. ctx[o].type = "summary" /\ ctx[o].id \in src
        BY <1>1, <1>4, <1>5 DEF RangeRead
    <2>2. ~sums[ctx[o].id].suppressed
        BY <2>1 DEF IInv, InOrder, Laid, ItemsVisible
    <2> QED
        BY <1>1, <2>1, <2>2
<1>6. RangeRead'
    BY <1>1, <1>5 DEF RangeRead
<1>7. Flight(Cover, n, ctx, Min(chunk), Max(chunk), UNION {Cover[s] : s \in src'})
    <2>1. UNION {Cover[s] : s \in src'} \subseteq UNION {Cover[s] : s \in src}
        BY <1>1
    <2>2. ASSUME NEW o \in DOMAIN ctx, Min(chunk) <= o, o <= Max(chunk)
          PROVE  ItemCover(Cover, ctx, o) \subseteq UNION {Cover[s] : s \in src'}
        BY <1>5, <2>2 DEF ItemCover
    <2> QED
        BY <1>4, <2>1, <2>2 DEF Flight
<1>8. PassCurrent'
    BY <1>1, <1>2, <1>4, <1>6, <1>7 DEF PassCurrent, ToCover, n
<1> QED
    BY <1>3, <1>8 DEF IInv

\* A pass that enters phase 2 or ends the sweep is over.
LEMMA NotInFlightAfter ==
    ASSUME NEW prev, NEW after, NEW passes, NEW auth,
           Finish(after, passes, auth) \/ EnterPhase2(prev, after, passes, auth)
    PROVE  ~InFlight'
<1>1. ASSUME Finish(after, passes, auth) PROVE pc' \in {"again", "idle"}
    BY <1>1 DEF Finish
<1>2. CASE Finish(after, passes, auth)
    BY <1>1, <1>2 DEF InFlight
<1>3. CASE EnterPhase2(prev, after, passes, auth)
    <2>1. pc' = "cond" \/ Finish(after, passes, auth)
        BY <1>3 DEF EnterPhase2
    <2> QED
        BY <1>1, <2>1 DEF InFlight
<1> QED
    BY <1>2, <1>3

\* The rows a pass writes in its transaction, for a new summary r.
Commits(r) ==
    /\ r \in Row
    /\ r.parents \subseteq DOMAIN sums
    /\ r.depth = 0 => r.parents = {}
    /\ r.msgs \subseteq 1 .. Len(mtok)
    /\ \A s \in DOMAIN sums : r.msgs \cap sums[s].msgs = {}
    /\ r.msgs \cup UNION {Cover[p] : p \in r.parents} = ToCover
    /\ ~r.suppressed
    /\ sums' = Append(sums, r)
    /\ ctx' = ReplaceRange(ctx, Min(chunk), Max(chunk), Len(sums) + 1)
    /\ mtok' = mtok
    /\ hidden' = hidden

\* What the transaction of either kind of pass relies on.
LEMMA CommitFacts ==
    ASSUME IInv, InFlight, NEW r, Commits(r)
    PROVE  /\ Flight(Cover, Len(mtok), ctx, Min(chunk), Max(chunk), ToCover)
           /\ \A s \in DOMAIN sums : Cover'[s] = Cover[s]
           /\ Cover'[Len(sums) + 1] = ToCover
           /\ Acyclic(sums')
           /\ IsCover(Cover', sums')
<1>1. Flight(Cover, Len(mtok), ctx, Min(chunk), Max(chunk), ToCover)
    BY DEF IInv, PassCurrent
<1>2. /\ sums \in Seq(Row) /\ Acyclic(sums) /\ IsCover(Cover, sums)
      /\ r \in Row /\ r.parents \subseteq 1 .. Len(sums)
    BY DEF IInv, Types, Links, Covers, Commits
<1>3. IsCover(CoverOf(sums), sums)
    BY <1>2, CoverIsCoverOf
<1>4. /\ Acyclic(Append(sums, r))
      /\ IsCover(CoverOf(Append(sums, r)), Append(sums, r))
      /\ \A s \in DOMAIN sums : CoverOf(Append(sums, r))[s] = CoverOf(sums)[s]
      /\ CoverOf(Append(sums, r))[Len(sums) + 1] =
             r.msgs \cup UNION {CoverOf(sums)[p] : p \in r.parents}
    BY <1>2, <1>3, CoverAppend
<1> QED
    BY <1>1, <1>4, CoverIsCoverOf, CoverNext DEF Commits

\* The transaction of a pass, whatever the others wrote since its selection.
LEMMA CommitKeeps ==
    ASSUME IInv, InFlight, NEW r, Commits(r), ~InFlight', depth' \in Nat
    PROVE  IInv'
<1> DEFINE n == Len(mtok)
           k == Len(sums)
           lo == Min(chunk)
           hi == Max(chunk)
<1>1. /\ Flight(Cover, n, ctx, lo, hi, ToCover)
      /\ \A s \in DOMAIN sums : Cover'[s] = Cover[s]
      /\ Cover'[k + 1] = ToCover
      /\ Acyclic(sums')
      /\ IsCover(Cover', sums')
    BY CommitFacts
<1>2. /\ n \in Nat /\ k \in Nat
      /\ sums \in Seq(Row) /\ r \in Row /\ sums' = Append(sums, r)
      /\ mtok' = mtok /\ hidden' = hidden
      /\ ctx' = ReplaceRange(ctx, lo, hi, k + 1)
    BY DEF IInv, Types, Commits
<1>3. /\ sums' \in Seq(Row)
      /\ DOMAIN sums = 1 .. k
      /\ DOMAIN sums' = 1 .. k + 1
      /\ sums'[k + 1] = r
      /\ \A s \in 1 .. k : sums'[s] = sums[s]
    BY <1>2
<1> HIDE DEF n, k, lo, hi
<1>4. Types'
    BY <1>2, <1>3 DEF IInv, Types
<1>5. Links'
    <2>1. ASSUME NEW s \in 1 .. k + 1
          PROVE  /\ s # k + 1 => s \in 1 .. k /\ sums'[s] = sums[s]
                 /\ s = k + 1 => sums'[s] = r
        BY <1>2, <1>3
    <2>2. LinkedOnce(sums')
        <3>1. ASSUME NEW s \in 1 .. k + 1, NEW t \in 1 .. k + 1, s # t
              PROVE  sums'[s].msgs \cap sums'[t].msgs = {}
            <4>1. \A q \in 1 .. k : r.msgs \cap sums[q].msgs = {}
                BY <1>3 DEF Commits
            <4>2. \A p, q \in 1 .. k : p # q => sums[p].msgs \cap sums[q].msgs = {}
                BY <1>3 DEF IInv, Links, LinkedOnce
            <4>3. CASE s # k + 1 /\ t # k + 1
                BY <2>1, <3>1, <4>2, <4>3
            <4>4. CASE s = k + 1 /\ t # k + 1
                BY <2>1, <4>1, <4>4
            <4>5. CASE s # k + 1 /\ t = k + 1
                BY <2>1, <4>1, <4>5
            <4> QED
                BY <3>1, <4>3, <4>4, <4>5
        <3> QED
            BY <1>3, <3>1 DEF LinkedOnce
    <2>3. ASSUME NEW s \in 1 .. k + 1
          PROVE  /\ sums'[s].msgs \subseteq 1 .. Len(mtok')
                 /\ sums'[s].depth = 0 => sums'[s].parents = {}
        BY <1>2, <1>3, <2>1 DEF IInv, Links, Commits
    <2> QED
        BY <1>1, <1>3, <2>2, <2>3 DEF Links
<1>6. Covers'
    <2>1. ASSUME NEW s \in 1 .. k + 1 PROVE Cover'[s] \subseteq 1 .. n
        <3>1. CASE s = k + 1
            BY <1>1, <3>1 DEF Flight
        <3>2. CASE s # k + 1
            <4>1. s \in DOMAIN sums
                BY <1>2, <1>3, <3>2
            <4> QED
                BY <1>1, <4>1 DEF IInv, Covers, n
        <3> QED
            BY <3>1, <3>2
    <2> QED
        BY <1>1, <1>2, <1>3, <2>1 DEF Covers, n
<1>7. InOrder'
    <2> DEFINE d == Replaced(ctx, lo, hi, k + 1)
               g == Cover'
    <2>1. /\ \A s \in DOMAIN sums : g[s] = Cover[s]
          /\ g[Len(sums) + 1] = ToCover
          /\ r.msgs \subseteq ToCover /\ ~r.suppressed
        BY <1>1 DEF Commits, k
    <2> HIDE DEF g
    <2>2. Laid(g, n, sums', hidden, d)
        <3>1. Laid(Cover, n, sums, hidden, ctx)
            BY DEF IInv, InOrder, n
        <3>2. Laid(g, n, Append(sums, r), hidden, Replaced(ctx, lo, hi, Len(sums) + 1))
            <4>1. n \in Nat /\ sums \in Seq(Row) /\ r \in Row
                BY <1>2
            <4>2. Flight(Cover, n, ctx, lo, hi, ToCover)
                BY <1>1
            <4> QED
                BY <2>1, <3>1, <4>1, <4>2, LaidReplaced
        <3> QED
            BY <1>2, <3>2 DEF k
    <2>3. ctx' = Resequence(d)
        BY <1>2 DEF ReplaceRange, Replaced
    <2> HIDE DEF d
    <2>4. PICK h : /\ Renumbering(h, DOMAIN Resequence(d), DOMAIN d)
                   /\ \A i \in DOMAIN Resequence(d) : Resequence(d)[i] = d[h[i]]
        BY <2>2, ResequenceRenumbers DEF Laid, ItemsExist
    <2>5. Laid(g, n, sums', hidden, Resequence(d))
        BY <1>2, <2>2, <2>4, LaidRenumbered
    <2> QED
        BY <1>2, <2>3, <2>5 DEF InOrder, g, n
<1>8. PassCurrent'
    BY DEF PassCurrent
<1> QED
    BY <1>4, <1>5, <1>6, <1>7, <1>8 DEF IInv

\* _leaf_pass writes a leaf of the messages it read.
LEMMA LeafCommits ==
    ASSUME CompactionAssumption, IInv, NEW t \in SumTokens, LeafCommit(t)
    PROVE  InFlight /\ Commits(NewLeaf(t)) /\ ~InFlight' /\ depth' \in Nat
<1>1. /\ pc = "leafLlm"
      /\ sums' = Append(sums, NewLeaf(t))
      /\ ctx' = ReplaceRange(ctx, Min(chunk), Max(chunk), Len(sums) + 1)
      /\ mtok' = mtok /\ hidden' = hidden /\ depth' = 0
    BY DEF LeafCommit, EndPass
<1>2. InFlight
    BY <1>1 DEF InFlight
<1>3. /\ src \subseteq 1 .. Len(mtok)
      /\ \A s \in DOMAIN sums : src \cap sums[s].msgs = {}
      /\ ToCover = src
      /\ t \in Nat /\ Len(mtok) \in Nat
    BY <1>1, <1>2 DEF IInv, Types, PassCurrent, ToCover, CompactionAssumption
<1>4. Commits(NewLeaf(t))
    <2>1. NewLeaf(t) \in Row
        BY <1>3 DEF NewLeaf, Row
    <2>2. NewLeaf(t).msgs = src /\ NewLeaf(t).parents = {} /\ ~NewLeaf(t).suppressed
        BY DEF NewLeaf
    <2>3. src \cup UNION {Cover[p] : p \in {}} = src
        OBVIOUS
    <2> QED
        BY <1>1, <1>3, <2>1, <2>2, <2>3 DEF Commits
<1>5. ~InFlight'
    <2>1. \/ \E prev, after, passes, auth : EnterPhase2(prev, after, passes, auth)
          \/ pc' = "leaf"
        BY DEF LeafCommit
    <2>2. CASE pc' = "leaf"
        BY <2>2 DEF InFlight
    <2>3. CASE \E prev, after, passes, auth : EnterPhase2(prev, after, passes, auth)
        BY <2>3, NotInFlightAfter
    <2> QED
        BY <2>1, <2>2, <2>3
<1> QED
    BY <1>1, <1>2, <1>4, <1>5

\* _condensed_pass writes a summary of the summaries it read.
LEMMA CondCommits ==
    ASSUME CompactionAssumption, IInv, NEW t \in SumTokens, CondCommit(t)
    PROVE  InFlight /\ Commits(NewCondensed(t)) /\ ~InFlight' /\ depth' \in Nat
<1>1. /\ pc = "condLlm"
      /\ sums' = Append(sums, NewCondensed(t))
      /\ ctx' = ReplaceRange(ctx, Min(chunk), Max(chunk), Len(sums) + 1)
      /\ mtok' = mtok /\ hidden' = hidden /\ depth' = 0
    BY DEF CondCommit, EndPass
<1>2. InFlight
    BY <1>1 DEF InFlight
<1>3. /\ src \subseteq DOMAIN sums
      /\ ToCover = UNION {Cover[s] : s \in src}
      /\ t \in Nat /\ depth \in Nat /\ sums \in Seq(Row)
    BY <1>1, <1>2 DEF IInv, Types, PassCurrent, ToCover, CompactionAssumption
<1>4. Commits(NewCondensed(t))
    <2>1. NewCondensed(t) \in Row
        BY <1>3 DEF NewCondensed, Row
    <2>2. /\ NewCondensed(t).msgs = {} /\ NewCondensed(t).parents = src
          /\ NewCondensed(t).depth # 0 /\ ~NewCondensed(t).suppressed
        BY <1>3 DEF NewCondensed
    <2> QED
        BY <1>1, <1>3, <2>1, <2>2 DEF Commits
<1>5. ~InFlight'
    <2>1. \/ \E prev, after, passes, auth : EnterPhase2(prev, after, passes, auth)
          \/ \E after, passes, auth : Finish(after, passes, auth)
        BY DEF CondCommit
    <2> QED
        BY <2>1, NotInFlightAfter
<1> QED
    BY <1>1, <1>2, <1>4, <1>5

\* A stutter, in what the invariant speaks of.
LEMMA StutterKeeps ==
    ASSUME IInv, UNCHANGED vars
    PROVE  IInv'
<1>1. /\ mtok' = mtok /\ sums' = sums /\ hidden' = hidden /\ ctx' = ctx
      /\ pc' = pc /\ chunk' = chunk /\ src' = src /\ depth' = depth
    BY DEF vars, rows, pass
<1>2. Cover' = Cover
    BY <1>1, CoverIsCoverOf, CoverNext
<1>3. ToCover' = ToCover /\ (RangeRead' <=> RangeRead) /\ (InFlight' <=> InFlight)
    BY <1>1, <1>2 DEF ToCover, RangeRead, InFlight
<1> QED
    BY <1>1, <1>2, <1>3 DEF IInv, Types, Links, Covers, InOrder, PassCurrent

\* The steps that write no row and end or start a phase, not a pass.
QuietStep ==
    \/ \E force, hard \in BOOLEAN : StartSweep(force, hard)
    \/ \E target \in Targets, live \in LiveCounts : StartUntil(target, live)
    \/ LeafNone \/ CondNone \/ NextRound \/ Abort
    \/ \E auth \in BOOLEAN : LeafUnwritten(auth) \/ CondUnwritten(auth)

\* They leave the rows alone.
LEMMA QuietFacts ==
    ASSUME IInv, QuietStep
    PROVE  UNCHANGED rows /\ depth' \in Nat /\ ~InFlight'
<1>0. depth \in Nat
    BY DEF IInv, Types
<1>1. ASSUME NEW force, NEW hard, StartSweep(force, hard)
      PROVE  UNCHANGED rows /\ depth' \in Nat /\ ~InFlight'
    BY <1>0, <1>1 DEF StartSweep, EnterSweep, pass, InFlight
<1>2. ASSUME NEW target, NEW live, StartUntil(target, live)
      PROVE  UNCHANGED rows /\ depth' \in Nat /\ ~InFlight'
    BY <1>0, <1>2 DEF StartUntil, EnterSweep, pass, InFlight
<1>3. CASE LeafNone
    BY <1>0, <1>3, NotInFlightAfter DEF LeafNone, pass
<1>4. CASE CondNone
    BY <1>0, <1>4, NotInFlightAfter DEF CondNone, pass
<1>5. CASE NextRound
    BY <1>0, <1>5 DEF NextRound, EnterSweep, pass, InFlight
<1>6. CASE Abort
    BY <1>6 DEF Abort, EndPass, InFlight
<1>7. ASSUME NEW auth, LeafUnwritten(auth)
      PROVE  UNCHANGED rows /\ depth' \in Nat /\ ~InFlight'
    BY <1>7, NotInFlightAfter DEF LeafUnwritten, EndPass
<1>8. ASSUME NEW auth, CondUnwritten(auth)
      PROVE  UNCHANGED rows /\ depth' \in Nat /\ ~InFlight'
    BY <1>8, NotInFlightAfter DEF CondUnwritten, EndPass
<1> QED
    BY <1>1, <1>2, <1>3, <1>4, <1>5, <1>6, <1>7, <1>8 DEF QuietStep

\* The steps, sorted by what they do to the rows.
LEMMA StepKinds ==
    ASSUME CompactionAssumption, IInv, [Next]_vars
    PROVE  \/ \E t \in MsgTokens : Ingest(t)
           \/ \E L \in SUBSET Leaves : Cascade(L)
           \/ QuietStep
           \/ LeafSelect \/ CondSelect \/ CondRead
           \/ \E t \in SumTokens : LeafCommit(t) \/ CondCommit(t)
           \/ UNCHANGED vars
<1>1. ASSUME NEW L \in SUBSET Leaves, Purge(L) PROVE \E M \in SUBSET Leaves : Cascade(M)
    BY <1>1 DEF Purge
<1>2. ASSUME NEW criteria, SoftPrune(criteria) PROVE \E M \in SUBSET Leaves : Cascade(M)
    <2>1. PruneTargets(criteria) \in SUBSET Leaves
        BY DEF PruneTargets, VisibleLeaves
    <2> QED
        BY <1>2, <2>1 DEF SoftPrune
<1> QED
    BY <1>1, <1>2 DEF Next, SweepStep, QuietStep

\* Every step keeps the invariant.
LEMMA InvStep ==
    ASSUME CompactionAssumption, IInv, [Next]_vars
    PROVE  IInv'
<1>1. CASE \E t \in MsgTokens : Ingest(t)
    BY <1>1, IngestKeeps
<1>2. CASE \E L \in SUBSET Leaves : Cascade(L)
    BY <1>2, CascadeKeeps
<1>3. CASE QuietStep
    BY <1>3, QuietFacts, RowsKept
<1>4. CASE LeafSelect \/ CondSelect \/ CondRead
    BY <1>4, LeafSelectKeeps, CondSelectKeeps, CondReadKeeps
<1>5. CASE \E t \in SumTokens : LeafCommit(t) \/ CondCommit(t)
    BY <1>5, LeafCommits, CondCommits, CommitKeeps
<1>6. CASE UNCHANGED vars
    BY <1>6, StutterKeeps
<1> QED
    BY <1>1, <1>2, <1>3, <1>4, <1>5, <1>6, StepKinds

\* The rows, and the ordinals of a pass in flight, stay consistent in every
\* interleaving of the sweep with ingestion and purges.
THEOREM PassStaysCurrent == Spec => []IInv
<1>1. IInv /\ [Next]_vars => IInv'
    BY InvStep, CompactionAssumption
<1> QED
    BY <1>1, InvInit, PTL DEF Spec

\* Nothing suppressed is an item of the context, for any number of messages and
\* summaries: the cascade takes the items out, and a pass that read a summary
\* before it was purged brings none back.
THEOREM SuppressedStaysOut == Spec => []SuppressedNotInContext
<1>1. IInv => SuppressedNotInContext
    BY DEF IInv, InOrder, Laid, ItemsVisible, SuppressedNotInContext
<1> QED
    BY <1>1, PassStaysCurrent, PTL

\* Every message no purge suppressed stays reachable from the context, for any
\* number of messages and summaries: the range a commit replaces holds nothing
\* its summary does not cover.
THEOREM EverythingReachable == Spec => []NothingUnreachable
<1>1. IInv => NothingUnreachable
    <2>1. SUFFICES ASSUME IInv PROVE NothingUnreachable
        OBVIOUS
    <2>2. Messages = 1 .. Len(mtok)
        BY <2>1 DEF IInv, Types, Messages
    <2>3. \A o \in DOMAIN ctx : CoverAt(o) = ItemCover(Cover, ctx, o)
        BY DEF CoverAt, ItemCover
    <2> QED
        BY <2>1, <2>2, <2>3 DEF IInv, InOrder, Laid, Reachable, NothingUnreachable
<1> QED
    BY <1>1, PassStaysCurrent, PTL

-----------------------------------------------------------------------------
(***************************************************************************)
(* The refinement of ContextLog.                                           *)
(***************************************************************************)

\* The segments of the log that the items of c stand for.
Segs(f, hid, c) == {ItemCover(f, c, o) \ hid : o \in DOMAIN c} \ {{}}

\* What the three steps of the log do to the segments A, giving B.
Added(A, B, m) == B = A \cup {{m}}

Purged(A, B, X) == B = {T \ X : T \in A} \ {{}}

Merged(A, B, S, seg) ==
    /\ S \subseteq A
    /\ \A T \in A \ S : Log!Apart(UNION S, T)
    /\ B = (A \ S) \cup ({seg} \ {{}})

\* Resequencing does not show in the log.
LEMMA SegsRenumbered ==
    ASSUME NEW f, NEW hid, NEW c, NEW d, NEW h,
           Renumbering(h, DOMAIN d, DOMAIN c),
           \A i \in DOMAIN d : d[i] = c[h[i]]
    PROVE  Segs(f, hid, d) = Segs(f, hid, c)
<1>1. ASSUME NEW i \in DOMAIN d
      PROVE  h[i] \in DOMAIN c /\ ItemCover(f, d, i) = ItemCover(f, c, h[i])
    BY DEF Renumbering, ItemCover
<1>2. ASSUME NEW o \in DOMAIN c
      PROVE  \E i \in DOMAIN d : ItemCover(f, d, i) = ItemCover(f, c, o)
    BY <1>1 DEF Renumbering
<1> QED
    BY <1>1, <1>2 DEF Segs

\* The segments a pass in flight is going to merge.
InRange(f, hid, c, lo, hi) ==
    {ItemCover(f, c, o) \ hid : o \in {p \in DOMAIN c : lo <= p /\ p <= hi}} \ {{}}

\* They make up what the new summary covers: everything else that is visible
\* is reachable from outside the range only.
LEMMA RangeCovered ==
    ASSUME NEW f, NEW n \in Nat, NEW ss, NEW hid, NEW c,
           Laid(f, n, ss, hid, c),
           NEW lo, NEW hi, NEW sc, Flight(f, n, c, lo, hi, sc)
    PROVE  UNION InRange(f, hid, c, lo, hi) = sc \ hid
<1>1. ASSUME NEW S \in InRange(f, hid, c, lo, hi) PROVE S \subseteq sc \ hid
    <2>1. PICK o \in DOMAIN c : lo <= o /\ o <= hi /\ S = ItemCover(f, c, o) \ hid
        BY DEF InRange
    <2>2. ItemCover(f, c, o) \subseteq sc
        BY <2>1 DEF Flight
    <2> QED
        BY <2>1, <2>2
<1>2. ASSUME NEW m \in sc \ hid PROVE \E S \in InRange(f, hid, c, lo, hi) : m \in S
    <2>1. m \in (1 .. n) \ hid /\ m \in Int
        BY DEF Flight
    <2>2. PICK o \in DOMAIN c : m \in ItemCover(f, c, o)
        BY <2>1 DEF Laid, Reachable
    <2>3. o \in Nat /\ lo \in Nat /\ hi \in Nat
        BY DEF Laid, ItemsExist, Flight
    <2>4. ~(o < lo)
        <3>1. o < lo => m < m
            BY <2>2 DEF Flight
        <3> QED
            BY <2>1, <3>1
    <2>5. ~(hi < o)
        <3>1. hi < o => m < m
            BY <2>2 DEF Flight
        <3> QED
            BY <2>1, <3>1
    <2>6. lo <= o /\ o <= hi
        BY <2>3, <2>4, <2>5
    <2>7. ItemCover(f, c, o) \ hid \in InRange(f, hid, c, lo, hi)
        BY <2>2, <2>6 DEF InRange
    <2> QED
        BY <2>2, <2>7
<1> QED
    BY <1>1, <1>2

\* Replacing the range merges the segments in it.
LEMMA SegsReplaced ==
    ASSUME NEW f, NEW g, NEW n \in Nat, NEW ss \in Seq(Row), NEW hid, NEW c,
           NEW lo, NEW hi, NEW sc,
           Laid(f, n, ss, hid, c),
           Flight(f, n, c, lo, hi, sc),
           \A s \in DOMAIN ss : f[s] \subseteq 1 .. n,
           \A s \in DOMAIN ss : g[s] = f[s],
           g[Len(ss) + 1] = sc
    PROVE  Merged(Segs(f, hid, c), Segs(g, hid, Replaced(c, lo, hi, Len(ss) + 1)),
                  InRange(f, hid, c, lo, hi), sc \ hid)
<1> DEFINE k == Len(ss)
           d == Replaced(c, lo, hi, k + 1)
           S == InRange(f, hid, c, lo, hi)
           A == Segs(f, hid, c)
<1>1. /\ DOMAIN d = (DOMAIN c \ (lo .. hi)) \cup {lo}
      /\ d[lo] = SummaryItem(k + 1)
      /\ \A o \in DOMAIN d : o # lo => d[o] = c[o]
    BY DEF Replaced
<1>2. /\ DOMAIN c \subseteq Nat /\ lo \in Nat /\ hi \in Nat /\ lo <= hi
    BY DEF Laid, ItemsExist, Flight
<1>3. UNION S = sc \ hid
    BY RangeCovered
<1>4. ASSUME NEW T \in A \ S
      PROVE  \E o \in DOMAIN c : (o < lo \/ hi < o) /\ T = ItemCover(f, c, o) \ hid
    <2>1. PICK o \in DOMAIN c : T = ItemCover(f, c, o) \ hid /\ T # {}
        BY DEF Segs
    <2>2. ~(lo <= o /\ o <= hi)
        BY <1>4, <2>1 DEF InRange
    <2>3. o < lo \/ hi < o
        BY <1>2, <2>2
    <2> QED
        BY <2>1, <2>3
<1>5. ASSUME NEW o \in DOMAIN c, o < lo \/ hi < o, ItemCover(f, c, o) \ hid # {}
      PROVE  ItemCover(f, c, o) \ hid \in A \ S
    <2>1. PICK x \in ItemCover(f, c, o) \ hid : TRUE
        BY <1>5
    <2>2. x \in Int
        <3>1. ItemCover(f, c, o) \subseteq 1 .. n
            BY CoverWithin DEF Laid
        <3> QED
            BY <2>1, <3>1
    <2>3. x \notin sc
        <3>1. x \in sc => x < x
            BY <1>5, <2>1 DEF Flight
        <3> QED
            BY <2>2, <3>1
    <2>4. ItemCover(f, c, o) \ hid \notin S
        BY <1>3, <2>1, <2>3
    <2> QED
        BY <1>5, <2>4 DEF Segs
<1> HIDE DEF d, k
<1>6. ASSUME NEW o \in DOMAIN d, o # lo
      PROVE  /\ o \in DOMAIN c
             /\ o < lo \/ hi < o
             /\ ItemCover(g, d, o) = ItemCover(f, c, o)
    <2>1. o \in DOMAIN c /\ d[o] = c[o] /\ (o < lo \/ hi < o)
        BY <1>1, <1>2, <1>6
    <2>2. CASE \E m \in 1 .. n : c[o] = MessageItem(m)
        BY <2>1, <2>2 DEF ItemCover, MessageItem
    <2>3. CASE \E s \in DOMAIN ss : c[o] = SummaryItem(s)
        BY <2>1, <2>3 DEF ItemCover, SummaryItem
    <2> QED
        BY <2>1, <2>2, <2>3 DEF Laid, ItemsExist
<1>7. lo \in DOMAIN d /\ ItemCover(g, d, lo) = sc
    BY <1>1 DEF ItemCover, SummaryItem, k
<1>8. S \subseteq A
    BY DEF InRange, Segs
<1>9. ASSUME NEW T \in A \ S PROVE Log!Apart(UNION S, T)
    <2>1. PICK o \in DOMAIN c : (o < lo \/ hi < o) /\ T = ItemCover(f, c, o) \ hid
        BY <1>4
    <2>2. ASSUME NEW t \in T
          PROVE  (\A s \in UNION S : s < t) \/ (\A s \in UNION S : t < s)
        BY <1>3, <2>1 DEF Flight
    <2> QED
        BY <2>2 DEF Log!Apart
<1>10. ASSUME NEW T \in Segs(g, hid, d) PROVE T \in (A \ S) \cup ({sc \ hid} \ {{}})
    <2>1. PICK o \in DOMAIN d : T = ItemCover(g, d, o) \ hid /\ T # {}
        BY DEF Segs
    <2>2. CASE o = lo
        BY <1>7, <2>1, <2>2
    <2>3. CASE o # lo
        BY <1>5, <1>6, <2>1, <2>3
    <2> QED
        BY <2>2, <2>3
<1>11. ASSUME NEW T \in (A \ S) \cup ({sc \ hid} \ {{}}) PROVE T \in Segs(g, hid, d)
    <2>1. CASE T \in {sc \ hid} \ {{}}
        BY <1>7, <2>1 DEF Segs
    <2>2. CASE T \in A \ S
        <3>1. PICK o \in DOMAIN c : (o < lo \/ hi < o) /\ T = ItemCover(f, c, o) \ hid
            BY <1>4, <2>2
        <3>2. T # {}
            BY <2>2 DEF Segs
        <3>3. o \in DOMAIN d /\ o # lo
            BY <1>1, <1>2, <3>1
        <3> QED
            BY <1>6, <3>1, <3>2, <3>3 DEF Segs
    <2> QED
        BY <2>1, <2>2
<1>12. Segs(g, hid, d) = (A \ S) \cup ({sc \ hid} \ {{}})
    BY <1>10, <1>11
<1> QED
    BY <1>8, <1>9, <1>12 DEF d, k, Merged

\* A new message is a segment of its own.
LEMMA SegsAppended ==
    ASSUME NEW f, NEW n \in Nat, NEW ss, NEW hid, NEW c, ItemsExist(n, ss, c),
           hid \subseteq 1 .. n
    PROVE  Added(Segs(f, hid, c), Segs(f, hid, AppendItem(c, MessageItem(n + 1))), n + 1)
<1> DEFINE q == NextOrdinal(c)
           d == AppendItem(c, MessageItem(n + 1))
<1>1. DOMAIN c \subseteq Nat /\ IsFiniteSet(DOMAIN c)
    BY DEF ItemsExist
<1>2. /\ DOMAIN d = DOMAIN c \cup {q}
      /\ d[q] = MessageItem(n + 1)
      /\ \A o \in DOMAIN c : d[o] = c[o]
    <2>1. ItemAppended(c, MessageItem(n + 1), d)
        BY <1>1, AppendItemFacts
    <2> QED
        BY <2>1 DEF ItemAppended
<1> HIDE DEF q, d
<1>3. \A o \in DOMAIN c : ItemCover(f, d, o) = ItemCover(f, c, o)
    BY <1>2 DEF ItemCover
<1>4. ItemCover(f, d, q) \ hid = {n + 1}
    <2>1. ItemCover(f, d, q) = {n + 1}
        BY <1>2 DEF ItemCover, MessageItem
    <2>2. n + 1 \notin hid
        OBVIOUS
    <2> QED
        BY <2>1, <2>2
<1>5. ASSUME NEW T \in Segs(f, hid, d) PROVE T \in Segs(f, hid, c) \cup {{n + 1}}
    <2>1. PICK o \in DOMAIN d : T = ItemCover(f, d, o) \ hid /\ T # {}
        BY DEF Segs
    <2> QED
        BY <1>2, <1>3, <1>4, <2>1 DEF Segs
<1>6. ASSUME NEW T \in Segs(f, hid, c) \cup {{n + 1}} PROVE T \in Segs(f, hid, d)
    <2>1. CASE T = {n + 1}
        BY <1>2, <1>4, <2>1 DEF Segs
    <2>2. CASE T \in Segs(f, hid, c)
        BY <1>2, <1>3, <2>2 DEF Segs
    <2> QED
        BY <2>1, <2>2
<1> QED
    BY <1>5, <1>6 DEF d, Added

\* A purge takes the messages it hides out of every segment.
LEMMA SegsPurged ==
    ASSUME NEW f, NEW n \in Nat, NEW ss, NEW hid, NEW c, ItemsExist(n, ss, c),
           LinkedOnce(ss), NEW L, L \subseteq DOMAIN ss,
           \A s \in L : f[s] = ss[s].msgs
    PROVE  Purged(Segs(f, hid, c),
                  Segs(f, hid \cup NewlyHidden(ss, L), WithoutPurged(ss, c, L)),
                  NewlyHidden(ss, L))
<1> DEFINE d == WithoutPurged(ss, c, L)
           M == NewlyHidden(ss, L)
<1>1. M = LinkedMessages(ss, L)
    BY NewlyHiddenAll
<1>2. /\ DOMAIN d \subseteq DOMAIN c
      /\ \A o \in DOMAIN d : ItemCover(f, d, o) = ItemCover(f, c, o)
      /\ \A o \in DOMAIN c \ DOMAIN d : ItemCover(f, c, o) \subseteq M
    BY <1>1, WithoutPurgedFacts
<1> HIDE DEF d, M
<1>3. ASSUME NEW T \in Segs(f, hid \cup M, d) PROVE T \in {U \ M : U \in Segs(f, hid, c)} \ {{}}
    <2>1. PICK o \in DOMAIN d : T = ItemCover(f, d, o) \ (hid \cup M) /\ T # {}
        BY DEF Segs
    <2>2. ItemCover(f, c, o) \ hid \in Segs(f, hid, c)
        BY <1>2, <2>1 DEF Segs
    <2>3. T = (ItemCover(f, c, o) \ hid) \ M
        BY <1>2, <2>1
    <2> QED
        BY <2>1, <2>2, <2>3
<1>4. ASSUME NEW T \in {U \ M : U \in Segs(f, hid, c)} \ {{}} PROVE T \in Segs(f, hid \cup M, d)
    <2>1. PICK o \in DOMAIN c : T = (ItemCover(f, c, o) \ hid) \ M /\ T # {}
        BY DEF Segs
    <2>2. o \in DOMAIN d
        BY <1>2, <2>1
    <2>3. T = ItemCover(f, d, o) \ (hid \cup M)
        BY <1>2, <2>1, <2>2
    <2> QED
        BY <2>1, <2>2, <2>3 DEF Segs
<1> QED
    BY <1>3, <1>4 DEF d, M, Purged

\* The refinement mapping of Log, in terms of the lemmas.
LogSegs == {CoverAt(o) \ hidden : o \in DOMAIN ctx} \ {{}}

\* It is what the lemmas call Segs, in both states of a step.
LEMMA LogSegsAre ==
    /\ LogSegs = Segs(Cover, hidden, ctx)
    /\ LogSegs' = Segs(Cover', hidden', ctx')
BY DEF LogSegs, Segs, CoverAt, ItemCover

\* An empty conversation is an empty log.
LEMMA LogInit == Init => Log!Init
<1> SUFFICES ASSUME Init PROVE Log!Init
    OBVIOUS
<1>1. Len(mtok) = 0 /\ hidden = {} /\ DOMAIN ctx = {}
    BY DEF Init
<1> QED
    BY <1>1 DEF Log!Init

\* Every step is a step of the log, or does not show in it.
LEMMA LogStep ==
    ASSUME CompactionAssumption, IInv, [Next]_vars
    PROVE  [Log!Next]_(Log!vars)
<1> DEFINE n == Len(mtok)
<1>0. /\ n \in Nat /\ mtok \in Seq(Nat) /\ sums \in Seq(Row) /\ hidden \subseteq 1 .. n
      /\ Laid(Cover, n, sums, hidden, ctx)
      /\ ItemsExist(n, sums, ctx)
      /\ LinkedOnce(sums)
    BY DEF IInv, Types, InOrder, Laid, Links
<1>1. ASSUME NEW t \in MsgTokens, Ingest(t) PROVE Log!Next
    <2>1. /\ Len(mtok') = n + 1 /\ hidden' = hidden /\ sums' = sums
          /\ ctx' = AppendItem(ctx, MessageItem(n + 1))
        BY <1>0, <1>1, CompactionAssumption DEF Ingest, CompactionAssumption
    <2>2. Cover' = Cover
        BY <2>1, CoverIsCoverOf, CoverNext
    <2>3. LogSegs' = LogSegs \cup {{n + 1}}
        <3>1. n \in Nat /\ ItemsExist(n, sums, ctx) /\ hidden \subseteq 1 .. n
            BY <1>0
        <3>2. Added(Segs(Cover, hidden, ctx),
                    Segs(Cover, hidden, AppendItem(ctx, MessageItem(n + 1))), n + 1)
            BY <3>1, SegsAppended
        <3>3. Added(LogSegs, LogSegs', n + 1)
            BY <2>1, <2>2, <3>2, LogSegsAre
        <3> QED
            BY <3>3 DEF Added
    <2>4. Log!Ingest
        BY <2>1, <2>3 DEF Log!Ingest, LogSegs
    <2> QED
        BY <2>4 DEF Log!Next
<1>2. ASSUME NEW L \in SUBSET Leaves, Cascade(L) PROVE Log!Next
    <2>1. /\ mtok' = mtok /\ sums' = SuppressedSummaries(sums, L)
          /\ ctx' = WithoutPurged(sums, ctx, L)
          /\ hidden' = hidden \cup NewlyHidden(sums, L)
        BY <1>2 DEF Cascade
    <2>2. /\ sums' \in Seq(Row)
          /\ DOMAIN sums' = DOMAIN sums
          /\ \A s \in DOMAIN sums : sums'[s].msgs = sums[s].msgs
          /\ \A s \in DOMAIN sums : sums'[s].parents = sums[s].parents
        BY <1>0, <2>1, SuppressedFacts
    <2>3. Cover' = Cover
        BY <1>0, <2>1, <2>2, CoverSame, CoverIsCoverOf, CoverNext DEF IInv, Links, Covers
    <2>4. L \subseteq DOMAIN sums /\ \A s \in L : Cover[s] = sums[s].msgs
        BY LeafCovers
    <2>5. LogSegs' = {T \ NewlyHidden(sums, L) : T \in LogSegs} \ {{}}
        <3>1. n \in Nat /\ ItemsExist(n, sums, ctx) /\ LinkedOnce(sums)
            BY <1>0
        <3>2. Purged(Segs(Cover, hidden, ctx),
                     Segs(Cover, hidden \cup NewlyHidden(sums, L), WithoutPurged(sums, ctx, L)),
                     NewlyHidden(sums, L))
            BY <2>4, <3>1, SegsPurged
        <3>3. Purged(LogSegs, LogSegs', NewlyHidden(sums, L))
            BY <2>1, <2>3, <3>2, LogSegsAre
        <3> QED
            BY <3>3 DEF Purged
    <2>6. NewlyHidden(sums, L) \in SUBSET (1 .. n)
        BY <2>4 DEF IInv, Links, NewlyHidden, LinkedMessages
    <2>7. Log!Forget(NewlyHidden(sums, L))
        BY <2>1, <2>5 DEF Log!Forget, LogSegs
    <2> QED
        BY <2>6, <2>7 DEF Log!Next
<1>3. ASSUME UNCHANGED rows PROVE UNCHANGED Log!vars
    <2>1. mtok' = mtok /\ sums' = sums /\ hidden' = hidden /\ ctx' = ctx /\ Cover' = Cover
        BY <1>3, CoverIsCoverOf, CoverNext DEF rows
    <2>2. LogSegs' = LogSegs
        BY <2>1, LogSegsAre
    <2> QED
        BY <2>1, <2>2 DEF Log!vars, LogSegs
<1>4. ASSUME NEW r, InFlight, Commits(r) PROVE [Log!Next]_(Log!vars)
    <2> DEFINE lo == Min(chunk)
               hi == Max(chunk)
               k == Len(sums)
               S == InRange(Cover, hidden, ctx, lo, hi)
               d == Replaced(ctx, lo, hi, k + 1)
               g == Cover'
    <2>1. /\ Flight(Cover, n, ctx, lo, hi, ToCover)
          /\ \A s \in DOMAIN sums : g[s] = Cover[s]
          /\ g[k + 1] = ToCover
        BY <1>4, CommitFacts
    <2>2. /\ mtok' = mtok /\ hidden' = hidden
          /\ ctx' = Resequence(d)
        BY <1>4 DEF Commits, ReplaceRange, Replaced
    <2>3. \A s \in DOMAIN sums : Cover[s] \subseteq 1 .. n
        BY DEF IInv, Covers
    <2> HIDE DEF g, lo, hi
    <2>4. UNION S = ToCover \ hidden
        BY <1>0, <2>1, RangeCovered
    <2>5. Merged(Segs(Cover, hidden, ctx), Segs(g, hidden, d), S, ToCover \ hidden)
        <3>1. /\ n \in Nat /\ sums \in Seq(Row)
              /\ Laid(Cover, n, sums, hidden, ctx)
              /\ Flight(Cover, n, ctx, lo, hi, ToCover)
            BY <1>0, <2>1
        <3>2. /\ \A s \in DOMAIN sums : g[s] = Cover[s]
              /\ g[Len(sums) + 1] = ToCover
            BY <2>1
        <3> QED
            BY <2>3, <3>1, <3>2, SegsReplaced
    <2>6. DOMAIN d \subseteq Nat /\ IsFiniteSet(DOMAIN d)
        <3>1. DOMAIN d = (DOMAIN ctx \ (lo .. hi)) \cup {lo} /\ lo \in Nat
            BY <2>1 DEF Replaced, Flight
        <3>2. IsFiniteSet(DOMAIN ctx \ (lo .. hi))
            BY <1>0, FS_Subset DEF ItemsExist
        <3>3. IsFiniteSet((DOMAIN ctx \ (lo .. hi)) \cup {lo})
            BY <3>2, FS_AddElement
        <3> QED
            BY <1>0, <3>1, <3>3 DEF ItemsExist
    <2> HIDE DEF d, S
    <2>7. Segs(g, hidden, Resequence(d)) = Segs(g, hidden, d)
        <3>1. PICK h : /\ Renumbering(h, DOMAIN Resequence(d), DOMAIN d)
                       /\ \A i \in DOMAIN Resequence(d) : Resequence(d)[i] = d[h[i]]
            BY <2>6, ResequenceRenumbers
        <3> QED
            BY <3>1, SegsRenumbered
    <2>8. Merged(LogSegs, LogSegs', S, UNION S)
        BY <2>2, <2>4, <2>5, <2>7, LogSegsAre DEF g
    <2>9. S \subseteq LogSegs /\ {} \notin LogSegs
        BY <2>8 DEF Merged, LogSegs
    <2>10. CASE S = {}
        <3>1. LogSegs' = LogSegs
            BY <2>8, <2>10 DEF Merged
        <3> QED
            BY <2>2, <3>1 DEF Log!vars, LogSegs
    <2>11. CASE S # {}
        <3>1. UNION S # {}
            BY <2>9, <2>11
        <3>2. LogSegs' = (LogSegs \ S) \cup {UNION S}
            BY <2>8, <3>1 DEF Merged
        <3>3. \A T \in LogSegs \ S : Log!Apart(UNION S, T)
            BY <2>8 DEF Merged
        <3>4. Log!Merge(S)
            BY <2>2, <2>11, <3>2, <3>3 DEF Log!Merge, LogSegs
        <3>5. S \in SUBSET LogSegs
            BY <2>9
        <3> QED
            BY <3>4, <3>5 DEF Log!Next, LogSegs
    <2> QED
        BY <2>10, <2>11
<1>5. ASSUME QuietStep \/ LeafSelect \/ CondSelect \/ CondRead \/ UNCHANGED vars
      PROVE  UNCHANGED rows
    BY <1>5, QuietFacts DEF LeafSelect, CondSelect, CondRead, vars
<1>6. ASSUME NEW t \in SumTokens, LeafCommit(t) \/ CondCommit(t)
      PROVE  [Log!Next]_(Log!vars)
    BY <1>4, <1>6, LeafCommits, CondCommits
<1> QED
    BY <1>1, <1>2, <1>3, <1>5, <1>6, StepKinds

\* Compaction implements ContextLog, for any number of messages and summaries
\* and any interleaving: a commit merges neighbouring segments, a purge removes
\* its messages from them, an ingested message is added at the end, and no
\* other step of the sweep shows.
THEOREM CompactionImplementsLog == Spec => ImplementsContextLog
<1>1. IInv /\ [Next]_vars => [Log!Next]_(Log!vars)
    BY LogStep, CompactionAssumption
<1> QED
    BY <1>1, LogInit, PassStaysCurrent, PTL DEF Spec, ImplementsContextLog, Log!Spec

-----------------------------------------------------------------------------
(***************************************************************************)
(* Token counts of the context are such sums.                              *)
(***************************************************************************)
TokensOf(mt, ss, c) == [o \in DOMAIN c |-> ItemTokens(mt, ss, c[o])]

\* What TokensAt adds up.
LEMMA TokensAtSum ==
    ASSUME NEW mt, NEW ss, NEW c, NEW S, S \subseteq DOMAIN c, IsFiniteSet(S),
           \A o \in S : ItemTokens(mt, ss, c[o]) \in Int
    PROVE  TokensAt(mt, ss, c, S) = SumOf(TokensOf(mt, ss, c), S)
<1> DEFINE F == TokensOf(mt, ss, c)
<1>1. \A o \in S : F[o] = ItemTokens(mt, ss, c[o])
    BY DEF TokensOf
<1>2. PICK g : Adds(g, F, S)
    BY SumsExist
<1> HIDE DEF F
<1>3. ASSUME NEW h
      PROVE  Adds(h, F, S) <=>
             h = [s \in SUBSET S |->
                     IF s = {} THEN 0
                     ELSE ItemTokens(mt, ss, c[CHOOSE x \in s : TRUE])
                          + h[s \ {CHOOSE x \in s : TRUE}]]
    <2>1. \A s \in SUBSET S : s # {} =>
              F[CHOOSE x \in s : TRUE] = ItemTokens(mt, ss, c[CHOOSE x \in s : TRUE])
        BY <1>1
    <2>2. [s \in SUBSET S |->
              IF s = {} THEN 0
              ELSE F[CHOOSE x \in s : TRUE] + h[s \ {CHOOSE x \in s : TRUE}]]
          = [s \in SUBSET S |->
              IF s = {} THEN 0
              ELSE ItemTokens(mt, ss, c[CHOOSE x \in s : TRUE])
                   + h[s \ {CHOOSE x \in s : TRUE}]]
        BY <2>1
    <2> QED
        BY <2>2 DEF Adds
<1>4. \E h : /\ h = [s \in SUBSET S |->
                      IF s = {} THEN 0
                      ELSE ItemTokens(mt, ss, c[CHOOSE x \in s : TRUE])
                           + h[s \ {CHOOSE x \in s : TRUE}]]
             /\ TokensAt(mt, ss, c, S) = h[S]
    <2>1. g = [s \in SUBSET S |->
                  IF s = {} THEN 0
                  ELSE ItemTokens(mt, ss, c[CHOOSE x \in s : TRUE])
                       + g[s \ {CHOOSE x \in s : TRUE}]]
        BY <1>2, <1>3
    <2> QED
        BY <2>1 DEF TokensAt, MapThenSumSet, MapThenFoldSet
<1>5. IsSum(TokensAt(mt, ss, c, S), F, S)
    BY <1>3, <1>4 DEF IsSum
<1>6. \A x \in S : F[x] \in Int
    BY <1>1
<1> QED
    BY <1>5, <1>6, SumOfIs DEF F

\* The tokens of the messages a leaf pass replaces.
LEMMA LeafSum ==
    ASSUME NEW mt, NEW S, IsFiniteSet(S), \A m \in S : mt[m] \in Int
    PROVE  MapThenSumSet(LAMBDA m : mt[m], S) = SumOf(mt, S)
<1>1. PICK g : Adds(g, mt, S)
    BY SumsExist
<1>2. \E h : Adds(h, mt, S) /\ MapThenSumSet(LAMBDA m : mt[m], S) = h[S]
    BY <1>1 DEF Adds, MapThenSumSet, MapThenFoldSet
<1> QED
    BY <1>2, SumOfIs DEF IsSum

\* The tokens of the summaries a condensed pass replaces.
SummaryTokens(ss) == [s \in DOMAIN ss |-> ss[s].tokens]

\* So the tokens of the summaries a condensed pass replaces are such a sum.
LEMMA CondSum ==
    ASSUME NEW ss, NEW S, IsFiniteSet(S), S \subseteq DOMAIN ss,
           \A s \in S : ss[s].tokens \in Int
    PROVE  MapThenSumSet(LAMBDA s : ss[s].tokens, S) = SumOf(SummaryTokens(ss), S)
<1> DEFINE F == SummaryTokens(ss)
<1>1. \A s \in S : F[s] = ss[s].tokens
    BY DEF SummaryTokens
<1>2. PICK g : Adds(g, F, S)
    BY SumsExist
<1> HIDE DEF F
<1>3. ASSUME NEW h
      PROVE  Adds(h, F, S) <=>
             h = [s \in SUBSET S |->
                     IF s = {} THEN 0
                     ELSE ss[CHOOSE x \in s : TRUE].tokens
                          + h[s \ {CHOOSE x \in s : TRUE}]]
    <2>1. \A s \in SUBSET S : s # {} =>
              F[CHOOSE x \in s : TRUE] = ss[CHOOSE x \in s : TRUE].tokens
        BY <1>1
    <2>2. [s \in SUBSET S |->
              IF s = {} THEN 0
              ELSE F[CHOOSE x \in s : TRUE] + h[s \ {CHOOSE x \in s : TRUE}]]
          = [s \in SUBSET S |->
              IF s = {} THEN 0
              ELSE ss[CHOOSE x \in s : TRUE].tokens
                   + h[s \ {CHOOSE x \in s : TRUE}]]
        BY <2>1
    <2> QED
        BY <2>2 DEF Adds
<1>4. g = [s \in SUBSET S |->
              IF s = {} THEN 0
              ELSE ss[CHOOSE x \in s : TRUE].tokens
                   + g[s \ {CHOOSE x \in s : TRUE}]]
    BY <1>2, <1>3
<1>5. \E h : /\ h = [s \in SUBSET S |->
                      IF s = {} THEN 0
                      ELSE ss[CHOOSE x \in s : TRUE].tokens
                           + h[s \ {CHOOSE x \in s : TRUE}]]
             /\ MapThenSumSet(LAMBDA s : ss[s].tokens, S) = h[S]
    BY <1>4 DEF MapThenSumSet, MapThenFoldSet
<1>6. IsSum(MapThenSumSet(LAMBDA s : ss[s].tokens, S), F, S)
    BY <1>3, <1>5 DEF IsSum
<1>7. \A x \in S : F[x] \in Int
    BY <1>1
<1> QED
    BY <1>6, <1>7, SumOfIs DEF F

\* Every item has a token count.
LEMMA TokensTyped ==
    ASSUME NEW mt \in Seq(Nat), NEW ss \in Seq(Row), NEW c, ItemsExist(Len(mt), ss, c)
    PROVE  /\ \A o \in DOMAIN c : ItemTokens(mt, ss, c[o]) \in Nat
           /\ \A o \in DOMAIN c : TokensOf(mt, ss, c)[o] = ItemTokens(mt, ss, c[o])
           /\ ContextTokens(mt, ss, c) = SumOf(TokensOf(mt, ss, c), DOMAIN c)
           /\ ContextTokens(mt, ss, c) \in Nat
<1>1. \A o \in DOMAIN c : ItemTokens(mt, ss, c[o]) \in Nat
    <2> TAKE o \in DOMAIN c
    <2>1. CASE \E m \in 1 .. Len(mt) : c[o] = MessageItem(m)
        BY <2>1 DEF MessageItem, ItemTokens
    <2>2. CASE \E s \in DOMAIN ss : c[o] = SummaryItem(s)
        <3>1. PICK s \in DOMAIN ss : c[o] = SummaryItem(s)
            BY <2>2
        <3>2. ss[s] \in Row
            BY <3>1
        <3> QED
            BY <3>1, <3>2 DEF SummaryItem, ItemTokens, Row
    <2> QED
        BY <2>1, <2>2 DEF ItemsExist
<1>2. \A o \in DOMAIN c : TokensOf(mt, ss, c)[o] = ItemTokens(mt, ss, c[o])
    BY DEF TokensOf
<1>3. IsFiniteSet(DOMAIN c) /\ DOMAIN c \subseteq DOMAIN c
    BY DEF ItemsExist
<1>4. ContextTokens(mt, ss, c) = SumOf(TokensOf(mt, ss, c), DOMAIN c)
    BY <1>1, <1>3, TokensAtSum DEF ContextTokens
<1>5. SumOf(TokensOf(mt, ss, c), DOMAIN c) \in Nat
    BY <1>1, <1>2, <1>3, SumNat
<1> QED
    BY <1>1, <1>2, <1>4, <1>5

\* Renumbering the items changes no count.
LEMMA TokensRenumbered ==
    ASSUME NEW mt \in Seq(Nat), NEW ss \in Seq(Row), NEW c, ItemsExist(Len(mt), ss, c),
           NEW d, NEW h, Renumbering(h, DOMAIN d, DOMAIN c),
           \A i \in DOMAIN d : d[i] = c[h[i]]
    PROVE  ContextTokens(mt, ss, d) = ContextTokens(mt, ss, c)
<1> DEFINE F == TokensOf(mt, ss, d)
           G == TokensOf(mt, ss, c)
<1>1. ItemsExist(Len(mt), ss, d)
    BY DEF ItemsExist, Renumbering
<1>2. /\ \A o \in DOMAIN c : G[o] = ItemTokens(mt, ss, c[o]) /\ G[o] \in Int
      /\ ContextTokens(mt, ss, c) = SumOf(G, DOMAIN c)
    BY TokensTyped
<1>3. /\ \A o \in DOMAIN d : F[o] = ItemTokens(mt, ss, d[o])
      /\ ContextTokens(mt, ss, d) = SumOf(F, DOMAIN d)
    BY <1>1, TokensTyped
<1>4. IsFiniteSet(DOMAIN c) /\ IsFiniteSet(DOMAIN d)
    BY DEF ItemsExist, Renumbering
<1> HIDE DEF F, G
<1>5. \A x \in DOMAIN d : h[x] \in DOMAIN c /\ F[x] = G[h[x]]
    BY <1>2, <1>3 DEF Renumbering
<1>6. \A x, y \in DOMAIN d : x # y => h[x] # h[y]
    <2> TAKE x, y \in DOMAIN d
    <2>1. x \in Nat /\ y \in Nat /\ h[x] \in Nat /\ h[y] \in Nat
        BY DEF Renumbering, ItemsExist
    <2>2. x < y => h[x] < h[y]
        BY DEF Renumbering
    <2>3. y < x => h[y] < h[x]
        BY DEF Renumbering
    <2> QED
        BY <2>1, <2>2, <2>3
<1>7. \A y \in DOMAIN c : \E x \in DOMAIN d : h[x] = y
    BY DEF Renumbering
<1>8. SumOf(F, DOMAIN d) = SumOf(G, DOMAIN c)
    <2>1. Matches(h, F, DOMAIN d, G, DOMAIN c)
        BY <1>2, <1>4, <1>5, <1>6, <1>7 DEF Matches
    <2> QED
        BY <2>1, SumRenamed
<1> QED
    BY <1>2, <1>3, <1>8

-----------------------------------------------------------------------------
(***************************************************************************)
(* What IntegrityChecker looks for.  ScanInv adds to IInv what its checks  *)
(* ask: lineage, a use for every summary that is visible, and ordinals     *)
(* without gaps as long as no purge has opened one.                        *)
(***************************************************************************)
Lineage(r) == IF r.depth = 0 THEN r.msgs # {} ELSE r.parents # {}

Linked == \A s \in DOMAIN sums : Lineage(sums[s]) /\ Cover[s] # {}

\* A summary is an item, or a source of another.
Used(ss, c, s) ==
    \/ \E o \in DOMAIN c : c[o] = SummaryItem(s)
    \/ \E t \in DOMAIN ss : s \in ss[t].parents

NoneLost == \A s \in DOMAIN sums : ~sums[s].suppressed => Used(sums, ctx, s)

AllVisible(ss, hid) == hid = {} /\ \A s \in DOMAIN ss : ~ss[s].suppressed

Contiguous(c) == \E k \in Nat : DOMAIN c = 0 .. k - 1

Unbroken == AllVisible(sums, hidden) => Contiguous(ctx)

ReadsSome == pc = "leafLlm" => src # {}

ScanInv == Linked /\ NoneLost /\ Unbroken /\ ReadsSome

\* The next item takes the next ordinal.
LEMMA AppendContiguous ==
    ASSUME NEW c, Contiguous(c), NEW item
    PROVE  Contiguous(AppendItem(c, item))
<1>1. PICK k \in Nat : DOMAIN c = 0 .. k - 1
    BY DEF Contiguous
<1>2. DOMAIN c \subseteq Nat /\ IsFiniteSet(DOMAIN c)
    BY <1>1, FS_Interval
<1>3. NextOrdinal(c) = k
    <2>1. CASE k = 0
        BY <1>1, <2>1 DEF NextOrdinal
    <2>2. CASE k # 0
        <3>1. k - 1 \in DOMAIN c /\ DOMAIN c # {}
            BY <1>1, <2>2
        <3>2. Max(DOMAIN c) \in DOMAIN c /\ \A y \in DOMAIN c : y <= Max(DOMAIN c)
            BY <1>2, <3>1, MaxFacts
        <3>3. PICK x : x = Max(DOMAIN c)
            OBVIOUS
        <3>4. x \in 0 .. k - 1 /\ k - 1 <= x
            BY <1>1, <3>1, <3>2, <3>3
        <3>5. x = k - 1
            BY <3>4
        <3> QED
            BY <3>1, <3>3, <3>5 DEF NextOrdinal
    <2> QED
        BY <2>1, <2>2
<1>4. DOMAIN AppendItem(c, item) = DOMAIN c \cup {k}
    BY <1>2, <1>3, AppendItemFacts DEF ItemAppended
<1>5. (0 .. k - 1) \cup {k} = 0 .. (k + 1) - 1
    OBVIOUS
<1>6. DOMAIN AppendItem(c, item) = 0 .. (k + 1) - 1 /\ k + 1 \in Nat
    BY <1>1, <1>4, <1>5
<1> QED
    BY <1>6 DEF Contiguous

\* Renumbered items have no gaps.
LEMMA ResequenceContiguous ==
    ASSUME NEW c, DOMAIN c \subseteq Nat, IsFiniteSet(DOMAIN c)
    PROVE  Contiguous(Resequence(c))
<1>1. Cardinality(DOMAIN c) \in Nat
    BY PlaceFacts
<1>2. DOMAIN Resequence(c) = 0 .. Cardinality(DOMAIN c) - 1
    BY DEF Resequence
<1> QED
    BY <1>1, <1>2 DEF Contiguous

\* An empty conversation is clean.
LEMMA ScanInit == Init => ScanInv
<1> SUFFICES ASSUME Init PROVE ScanInv
    OBVIOUS
<1>1. /\ DOMAIN sums = {} /\ DOMAIN ctx = {} /\ pc = "idle"
    BY DEF Init
<1>2. 0 \in Nat /\ {} = 0 .. 0 - 1
    OBVIOUS
<1>3. Contiguous(ctx)
    BY <1>1, <1>2 DEF Contiguous
<1> QED
    BY <1>1, <1>3 DEF ScanInv, Linked, NoneLost, Unbroken, ReadsSome

\* A step that writes no row.
LEMMA ScanKept ==
    ASSUME ScanInv, UNCHANGED rows, ReadsSome'
    PROVE  ScanInv'
<1>1. sums' = sums /\ hidden' = hidden /\ ctx' = ctx /\ Cover' = Cover
    BY CoverIsCoverOf, CoverNext DEF rows
<1> QED
    BY <1>1 DEF ScanInv, Linked, NoneLost, Unbroken

\* A new message is a new item, and nothing else changes.
LEMMA ScanIngest ==
    ASSUME IInv, ScanInv, NEW t \in MsgTokens, Ingest(t)
    PROVE  ScanInv'
<1> DEFINE d == AppendItem(ctx, MessageItem(Len(mtok) + 1))
<1>1. /\ sums' = sums /\ hidden' = hidden /\ ctx' = d /\ pc' = pc /\ src' = src
    BY DEF Ingest, pass
<1>2. Cover' = Cover
    BY <1>1, CoverIsCoverOf, CoverNext
<1>3. DOMAIN ctx \subseteq DOMAIN d /\ \A o \in DOMAIN ctx : d[o] = ctx[o]
    <2>1. DOMAIN ctx \subseteq Nat /\ IsFiniteSet(DOMAIN ctx)
        BY DEF IInv, InOrder, Laid, ItemsExist
    <2>2. ItemAppended(ctx, MessageItem(Len(mtok) + 1), d)
        BY <2>1, AppendItemFacts
    <2> QED
        BY <2>2 DEF ItemAppended
<1>4. Contiguous(ctx) => Contiguous(d)
    BY AppendContiguous
<1> HIDE DEF d
<1>5. \A s : Used(sums, ctx, s) => Used(sums, d, s)
    BY <1>3 DEF Used
<1> QED
    BY <1>1, <1>2, <1>4, <1>5 DEF ScanInv, Linked, NoneLost, Unbroken, ReadsSome

\* A purge takes no item of a summary that stays visible.
LEMMA ScanCascade ==
    ASSUME IInv, ScanInv, NEW L, L \subseteq Leaves, Cascade(L)
    PROVE  ScanInv'
<1> DEFINE tt == SuppressedSummaries(sums, L)
           d == WithoutPurged(sums, ctx, L)
<1>1. /\ sums' = tt /\ ctx' = d /\ pc' = pc /\ src' = src /\ L # {} /\ L \subseteq DOMAIN sums
      /\ sums \in Seq(Row)
    BY DEF Cascade, pass, Leaves, Summaries, IInv, Types
<1>2. /\ tt \in Seq(Row)
      /\ DOMAIN tt = DOMAIN sums
      /\ \A s \in DOMAIN sums : tt[s].msgs = sums[s].msgs
      /\ \A s \in DOMAIN sums : tt[s].parents = sums[s].parents
      /\ \A s \in DOMAIN sums : tt[s].depth = sums[s].depth
      /\ \A s \in DOMAIN sums : tt[s].suppressed <=> (sums[s].suppressed \/ s \in L)
    BY <1>1, SuppressedFacts
<1>3. Cover' = Cover
    BY <1>1, <1>2, CoverSame, CoverIsCoverOf, CoverNext DEF IInv, Links, Covers
<1>4. ASSUME NEW s, s \notin L, NEW o \in DOMAIN ctx, ctx[o] = SummaryItem(s)
      PROVE  o \in DOMAIN d /\ d[o] = SummaryItem(s)
    <2>1. \A q \in L : ctx[o] # SummaryItem(q)
        BY <1>4 DEF SummaryItem
    <2>2. \A m : ctx[o] # MessageItem(m)
        BY <1>4 DEF SummaryItem, MessageItem
    <2> QED
        BY <1>4, <2>1, <2>2 DEF WithoutPurged, Restrict
<1> HIDE DEF tt, d
<1>5. Linked'
    BY <1>1, <1>2, <1>3 DEF ScanInv, Linked, Lineage
<1>6. NoneLost'
    <2>1. ASSUME NEW s \in DOMAIN tt, ~tt[s].suppressed PROVE Used(tt, d, s)
        <3>1. s \in DOMAIN sums /\ s \notin L /\ Used(sums, ctx, s)
            BY <1>2, <2>1 DEF ScanInv, NoneLost
        <3> QED
            BY <1>2, <1>4, <3>1 DEF Used
    <2> QED
        BY <1>1, <2>1 DEF NoneLost
<1>7. Unbroken'
    <2>1. \E s \in DOMAIN tt : tt[s].suppressed
        BY <1>1, <1>2
    <2> QED
        BY <1>1, <2>1 DEF Unbroken, AllVisible
<1>8. ReadsSome'
    BY <1>1 DEF ScanInv, ReadsSome
<1> QED
    BY <1>5, <1>6, <1>7, <1>8 DEF ScanInv

\* A chunk that is not empty has sources.
LEMMA ScanLeafSelect ==
    ASSUME ScanInv, LeafSelect
    PROVE  ScanInv'
<1>1. UNCHANGED rows /\ chunk' # {} /\ src' = {ctx[o].id : o \in chunk'}
    BY DEF LeafSelect, IdsAt
<1>2. ReadsSome'
    BY <1>1 DEF ReadsSome
<1> QED
    BY <1>1, <1>2, ScanKept

\* What a pass replaces becomes the sources of what it writes.
LEMMA ScanCommits ==
    ASSUME IInv, ScanInv, InFlight, NEW r, Commits(r), ~InFlight',
           Lineage(r), ToCover # {}, pc # "leafLlm" => r.parents = src
    PROVE  ScanInv'
<1> DEFINE k == Len(sums)
           lo == Min(chunk)
           hi == Max(chunk)
           d == Replaced(ctx, lo, hi, k + 1)
<1>1. /\ \A s \in DOMAIN sums : Cover'[s] = Cover[s]
      /\ Cover'[k + 1] = ToCover
      /\ lo \in Nat
    BY CommitFacts DEF Flight
<1>2. /\ sums \in Seq(Row) /\ sums' = Append(sums, r)
      /\ ctx' = Resequence(d)
    BY DEF IInv, Types, Commits, ReplaceRange, Replaced
<1>3. /\ k \in Nat
      /\ DOMAIN sums = 1 .. k
      /\ DOMAIN sums' = 1 .. k + 1
      /\ sums'[k + 1] = r
      /\ \A s \in 1 .. k : sums'[s] = sums[s]
    BY <1>2
<1>4. /\ DOMAIN d = (DOMAIN ctx \ (lo .. hi)) \cup {lo}
      /\ d[lo] = SummaryItem(k + 1)
      /\ \A o \in DOMAIN d : o # lo => d[o] = ctx[o]
    BY DEF Replaced
<1>5. DOMAIN ctx \subseteq Nat /\ IsFiniteSet(DOMAIN ctx)
    BY DEF IInv, InOrder, Laid, ItemsExist
<1>6. DOMAIN d \subseteq Nat /\ IsFiniteSet(DOMAIN d)
    <2>1. IsFiniteSet(DOMAIN ctx \ (lo .. hi))
        BY <1>5, FS_Subset
    <2>2. IsFiniteSet((DOMAIN ctx \ (lo .. hi)) \cup {lo})
        BY <2>1, FS_AddElement
    <2> QED
        BY <1>1, <1>4, <1>5, <2>2
<1> HIDE DEF d, k, lo, hi
<1>7. PICK h : /\ Renumbering(h, DOMAIN Resequence(d), DOMAIN d)
               /\ \A i \in DOMAIN Resequence(d) : Resequence(d)[i] = d[h[i]]
    BY <1>6, ResequenceRenumbers
<1>8. ASSUME NEW o \in DOMAIN d PROVE \E i \in DOMAIN ctx' : ctx'[i] = d[o]
    BY <1>2, <1>7 DEF Renumbering
<1>9. ASSUME NEW s \in 1 .. k + 1
      PROVE  \/ s = k + 1
             \/ s # k + 1 /\ s \in DOMAIN sums /\ sums'[s] = sums[s]
    BY <1>3
<1>10. Linked'
    <2>1. ASSUME NEW s \in DOMAIN sums' PROVE Lineage(sums'[s]) /\ Cover'[s] # {}
        <3>1. CASE s = k + 1
            BY <1>1, <1>3, <3>1
        <3>2. CASE s # k + 1
            BY <1>1, <1>3, <1>9, <3>2 DEF ScanInv, Linked
        <3> QED
            BY <3>1, <3>2
    <2> QED
        BY <2>1 DEF Linked
<1>11. NoneLost'
    <2>1. ASSUME NEW s \in DOMAIN sums', ~sums'[s].suppressed PROVE Used(sums', ctx', s)
        <3>1. CASE s = k + 1
            BY <1>4, <1>8, <3>1 DEF Used
        <3>2. CASE s # k + 1
            <4>1. s \in DOMAIN sums /\ Used(sums, ctx, s)
                BY <1>3, <1>9, <2>1, <3>2 DEF ScanInv, NoneLost
            <4>2. CASE \E t \in DOMAIN sums : s \in sums[t].parents
                <5>1. PICK t \in DOMAIN sums : s \in sums[t].parents
                    BY <4>2
                <5>2. t \in DOMAIN sums' /\ s \in sums'[t].parents
                    BY <1>3, <5>1
                <5> QED
                    BY <5>2 DEF Used
            <4>3. CASE \E o \in DOMAIN ctx : ctx[o] = SummaryItem(s)
                <5>1. PICK o \in DOMAIN ctx : ctx[o] = SummaryItem(s)
                    BY <4>3
                <5>2. CASE lo <= o /\ o <= hi
                    <6>1. /\ ctx[o].type = IF pc = "leafLlm" THEN "message" ELSE "summary"
                          /\ ctx[o].id \in src
                        BY <5>2 DEF IInv, PassCurrent, RangeRead, lo, hi
                    <6>2. pc # "leafLlm" /\ s \in src
                        BY <5>1, <6>1 DEF SummaryItem
                    <6>3. k + 1 \in DOMAIN sums' /\ s \in sums'[k + 1].parents
                        BY <1>3, <6>2
                    <6> QED
                        BY <6>3 DEF Used
                <5>3. CASE ~(lo <= o /\ o <= hi)
                    <6>1. o \notin lo .. hi
                        BY <5>3
                    <6>2. lo <= hi /\ hi \in Nat
                        BY CommitFacts DEF Flight, lo, hi
                    <6>3. o # lo
                        BY <1>1, <5>3, <6>2
                    <6>4. o \in DOMAIN d /\ d[o] = SummaryItem(s)
                        BY <1>4, <5>1, <6>1, <6>3
                    <6> QED
                        BY <1>8, <6>4 DEF Used
                <5> QED
                    BY <5>2, <5>3
            <4> QED
                BY <4>1, <4>2, <4>3 DEF Used
        <3> QED
            BY <3>1, <3>2
    <2> QED
        BY <2>1 DEF NoneLost
<1>12. Contiguous(ctx')
    BY <1>2, <1>6, ResequenceContiguous
<1>13. Unbroken' /\ ReadsSome'
    BY <1>12 DEF Unbroken, ReadsSome, InFlight
<1> QED
    BY <1>10, <1>11, <1>13 DEF ScanInv

\* Every step keeps what the scan looks for.
LEMMA ScanStep ==
    ASSUME CompactionAssumption, IInv, ScanInv, [Next]_vars
    PROVE  ScanInv'
<1>1. CASE \E t \in MsgTokens : Ingest(t)
    BY <1>1, ScanIngest
<1>2. CASE \E L \in SUBSET Leaves : Cascade(L)
    BY <1>2, ScanCascade
<1>3. CASE QuietStep
    <2>1. UNCHANGED rows /\ ~InFlight'
        BY <1>3, QuietFacts
    <2> QED
        BY <2>1, ScanKept DEF ReadsSome, InFlight
<1>4. CASE LeafSelect
    BY <1>4, ScanLeafSelect
<1>5. CASE CondSelect \/ CondRead
    <2>1. UNCHANGED rows /\ pc' # "leafLlm"
        BY <1>5 DEF CondSelect, CondRead
    <2> QED
        BY <2>1, ScanKept DEF ReadsSome
<1>6. ASSUME NEW t \in SumTokens, LeafCommit(t) PROVE ScanInv'
    <2>1. InFlight /\ Commits(NewLeaf(t)) /\ ~InFlight'
        BY <1>6, LeafCommits
    <2>2. pc = "leafLlm"
        BY <1>6 DEF LeafCommit
    <2>3. src # {} /\ ToCover = src /\ Lineage(NewLeaf(t))
        BY <2>2 DEF ScanInv, ReadsSome, ToCover, Lineage, NewLeaf
    <2> QED
        BY <2>1, <2>2, <2>3, ScanCommits
<1>7. ASSUME NEW t \in SumTokens, CondCommit(t) PROVE ScanInv'
    <2>1. InFlight /\ Commits(NewCondensed(t)) /\ ~InFlight'
        BY <1>7, CondCommits
    <2>2. pc = "condLlm" /\ src # {}
        BY <1>7 DEF CondCommit
    <2>3. depth + 1 # 0
        BY DEF IInv, Types
    <2>4. NewCondensed(t).parents = src /\ Lineage(NewCondensed(t))
        BY <2>2, <2>3 DEF NewCondensed, Lineage
    <2>5. ToCover # {}
        <3>1. PICK s \in src : TRUE
            BY <2>2
        <3>2. s \in DOMAIN sums
            BY <2>1, <2>2 DEF IInv, PassCurrent
        <3>3. Cover[s] # {} /\ Cover[s] \subseteq UNION {Cover[q] : q \in src}
            BY <3>2 DEF ScanInv, Linked
        <3> QED
            BY <2>2, <3>3 DEF ToCover
    <2> QED
        BY <2>1, <2>4, <2>5, ScanCommits
<1>8. CASE UNCHANGED vars
    <2>1. UNCHANGED rows /\ pc' = pc /\ src' = src
        BY <1>8 DEF vars, pass
    <2> QED
        BY <2>1, ScanKept DEF ReadsSome, ScanInv
<1> QED
    BY <1>1, <1>2, <1>3, <1>4, <1>5, <1>6, <1>7, <1>8, StepKinds

\* What the scan looks for holds in every interleaving.
THEOREM ScanInvariant == Spec => []ScanInv
<1>1. IInv /\ ScanInv /\ [Next]_vars => ScanInv'
    BY ScanStep, CompactionAssumption
<1> QED
    BY <1>1, ScanInit, PassStaysCurrent, PTL DEF Spec

\* No item stands for nothing, so no two can be the same and in order.
LEMMA NoDuplicates ==
    ASSUME IInv, ScanInv
    PROVE  DuplicateRefs(ctx) = {}
<1> SUFFICES ASSUME NEW o \in DOMAIN ctx, NEW p \in DOMAIN ctx \ {o}, ctx[p] = ctx[o]
             PROVE  FALSE
    BY DEF DuplicateRefs
<1>1. Laid(Cover, Len(mtok), sums, hidden, ctx)
    BY DEF IInv, InOrder
<1>2. ItemCover(Cover, ctx, p) = ItemCover(Cover, ctx, o)
    BY DEF ItemCover
<1>3. ItemCover(Cover, ctx, o) # {}
    <2>1. CASE ctx[o].type = "message"
        BY <2>1 DEF ItemCover
    <2>2. CASE ctx[o].type # "message"
        <3>1. ctx[o].id \in DOMAIN sums
            BY <1>1, <2>2 DEF Laid, ItemsExist, MessageItem, SummaryItem
        <3> QED
            BY <2>2, <3>1 DEF ItemCover, ScanInv, Linked
    <2> QED
        BY <2>1, <2>2
<1>4. PICK x : x \in ItemCover(Cover, ctx, o)
    BY <1>3
<1>5. x \in Int
    <2>1. ItemCover(Cover, ctx, o) \subseteq 1 .. Len(mtok)
        BY <1>1, CoverWithin DEF Laid, IInv, Covers
    <2> QED
        BY <1>4, <2>1
<1>6. o < p \/ p < o
    BY <1>1 DEF Laid, ItemsExist
<1>7. x < x
    BY <1>1, <1>2, <1>4, <1>6 DEF Laid, Ordered
<1> QED
    BY <1>5, <1>7

\* The two ways get_context_token_count could be added up agree.
LEMMA TokensAgree ==
    ASSUME IInv
    PROVE  TokenDifference(mtok, sums, ctx) = 0
<1> DEFINE M == MessageOrds(ctx)
           S == SummaryOrds(ctx)
           F == TokensOf(mtok, sums, ctx)
<1>1. mtok \in Seq(Nat) /\ sums \in Seq(Row) /\ ItemsExist(Len(mtok), sums, ctx)
    BY DEF IInv, Types, InOrder, Laid
<1>2. /\ \A o \in DOMAIN ctx : ItemTokens(mtok, sums, ctx[o]) \in Nat
      /\ \A o \in DOMAIN ctx : F[o] = ItemTokens(mtok, sums, ctx[o])
      /\ ContextTokens(mtok, sums, ctx) = SumOf(F, DOMAIN ctx)
    BY <1>1, TokensTyped
<1>3. M \subseteq DOMAIN ctx /\ S \subseteq DOMAIN ctx
    BY DEF MessageOrds, SummaryOrds
<1>4. M \cap S = {} /\ M \cup S = DOMAIN ctx
    <2>1. ASSUME NEW o \in DOMAIN ctx
          PROVE  ctx[o].type = "message" \/ ctx[o].type = "summary"
        <3>1. CASE \E m \in 1 .. Len(mtok) : ctx[o] = MessageItem(m)
            BY <3>1 DEF MessageItem
        <3>2. CASE \E s \in DOMAIN sums : ctx[o] = SummaryItem(s)
            BY <3>2 DEF SummaryItem
        <3> QED
            BY <1>1, <3>1, <3>2 DEF ItemsExist
    <2> QED
        BY <2>1 DEF MessageOrds, SummaryOrds
<1>5. IsFiniteSet(M) /\ IsFiniteSet(S)
    BY <1>1, <1>3, FS_Subset DEF ItemsExist
<1> HIDE DEF M, S, F
<1>6. \A x \in M \cup S : F[x] \in Int
    BY <1>2, <1>3
<1>7. SumOf(F, M \cup S) = SumOf(F, M) + SumOf(F, S)
    BY <1>4, <1>5, <1>6, SumUnion
<1>8. TokensAt(mtok, sums, ctx, M) = SumOf(F, M)
    <2>1. \A o \in M : ItemTokens(mtok, sums, ctx[o]) \in Int
        BY <1>2, <1>3
    <2> QED
        BY <1>3, <1>5, <2>1, TokensAtSum DEF F
<1>9. TokensAt(mtok, sums, ctx, S) = SumOf(F, S)
    <2>1. \A o \in S : ItemTokens(mtok, sums, ctx[o]) \in Int
        BY <1>2, <1>3
    <2> QED
        BY <1>3, <1>5, <2>1, TokensAtSum DEF F
<1>10. SumOf(F, M) \in Int /\ SumOf(F, S) \in Int
    BY <1>5, <1>6, SumOfIs
<1> QED
    BY <1>2, <1>4, <1>7, <1>8, <1>9, <1>10 DEF TokenDifference, M, S

\* Ordinals without gaps are their own ranks.
LEMMA NoGaps ==
    ASSUME NEW c, Contiguous(c)
    PROVE  OrdinalGaps(c) = {}
<1>1. PICK k \in Nat : DOMAIN c = 0 .. k - 1
    BY DEF Contiguous
<1>2. ASSUME NEW o \in DOMAIN c PROVE Cardinality({p \in DOMAIN c : p < o}) = o
    <2>1. o \in Nat /\ o <= k - 1
        BY <1>1
    <2>2. {p \in DOMAIN c : p < o} = 0 .. o - 1
        BY <1>1, <2>1
    <2>3. 0 \in Int /\ o - 1 \in Int
        BY <2>1
    <2>4. Cardinality(0 .. o - 1) = IF 0 > o - 1 THEN 0 ELSE (o - 1) - 0 + 1
        BY <2>3, FS_Interval
    <2>5. (IF 0 > o - 1 THEN 0 ELSE (o - 1) - 0 + 1) = o
        BY <2>1
    <2> QED
        BY <2>2, <2>4, <2>5, Zenon
<1> QED
    BY <1>2 DEF OrdinalGaps

\* IntegrityChecker finds only the gaps a purge leaves, and its repair plan
\* removes nothing visible, for any number of messages and summaries.
THEOREM ScanStaysClean == Spec => []ScanClean
<1>1. ASSUME IInv, ScanInv PROVE ScanClean
    <2>1. /\ mtok \in Seq(Nat)
          /\ DOMAIN mtok = 1 .. Len(mtok)
          /\ ItemsExist(Len(mtok), sums, ctx)
        BY <1>1 DEF IInv, Types, InOrder, Laid
    <2>2. DanglingRefs(mtok, sums, ctx) = {}
        BY <2>1 DEF DanglingRefs, ItemsExist, MessageItem, SummaryItem
    <2>3. MissingLineage(sums) = {}
        BY <1>1 DEF MissingLineage, ScanInv, Linked, Lineage
    <2>4. DuplicateRefs(ctx) = {}
        BY <1>1, NoDuplicates
    <2>5. TokenDifference(mtok, sums, ctx) = 0
        BY <1>1, TokensAgree
    <2>6. Failing(mtok, sums, ctx) \subseteq {"context_items_contiguous"}
        BY <2>2, <2>3, <2>4, <2>5 DEF Failing
    <2>7. ASSUME AllVisible(sums, hidden) PROVE Failing(mtok, sums, ctx) = {}
        <3>1. OrdinalGaps(ctx) = {}
            BY <1>1, <2>7, NoGaps DEF ScanInv, Unbroken
        <3> QED
            BY <2>6, <3>1 DEF Failing
    <2>8. ASSUME NEW s \in OrphanSummaries(sums, ctx) PROVE sums[s].suppressed
        <3>1. /\ s \in DOMAIN sums
              /\ \A o \in SummaryOrds(ctx) : ctx[o].id # s
              /\ \A t \in DOMAIN sums : s \notin sums[t].parents
            BY DEF OrphanSummaries, IdsAt
        <3>2. ~Used(sums, ctx, s)
            BY <3>1 DEF Used, SummaryOrds, SummaryItem
        <3> QED
            BY <1>1, <3>1, <3>2 DEF ScanInv, NoneLost
    <2>9. PlannedRemovals(mtok, sums, ctx)
              = {SummaryItem(s) : s \in OrphanSummaries(sums, ctx)}
        BY <2>2, <2>4 DEF PlannedRemovals
    <2>10. \A item \in PlannedRemovals(mtok, sums, ctx) :
               item.type = "summary" /\ sums[item.id].suppressed
        BY <2>8, <2>9 DEF SummaryItem
    <2> QED
        BY <2>6, <2>7, <2>10 DEF ScanClean, AllVisible, Summaries
<1> QED
    BY <1>1, PassStaysCurrent, ScanInvariant, PTL

-----------------------------------------------------------------------------
(***************************************************************************)
(* The accounting of the sweep.  SweepInv says what keeps running_tokens   *)
(* equal to get_context_token_count while nobody else writes: the chunk    *)
(* the pass will replace is all there is between its ends, and its sources *)
(* are the items of the chunk.                                             *)
(***************************************************************************)
Phase2 == {"cond", "condRead", "condLlm"}

Tallies ==
    /\ flags \in [force : BOOLEAN, hard : BOOLEAN, before : Nat, passes : Nat, auth : BOOLEAN]
    /\ running \in Int
    /\ previous \in Int
    /\ pc \in {"idle", "again", "leaf", "leafLlm"} \cup Phase2

\* compact_until_under, before its first round and later.
Rounds ==
    /\ \/ until = NoUntil
       \/ until \in [target : Nat, round : Nat \ {0}, last : Int,
                     verdict : {"none", "success", "fail"}]
    /\ pc # "idle" => until.verdict = "none"

Untouched ==
    ~disturbed /\ InFlight =>
        /\ chunk = {o \in DOMAIN ctx : Min(chunk) <= o /\ o <= Max(chunk)}
        /\ src = IdsAt(ctx, chunk)

Paid == flags.passes + previous <= flags.before + IF pc \in Phase2 THEN 1 ELSE 0

Counted == ~disturbed /\ pc \notin {"idle", "again"} => running = CurrentTokens

Reported == ~disturbed /\ until.verdict = "success" => CurrentTokens <= until.target

SweepInv == Tallies /\ Rounds /\ Untouched /\ Paid /\ Counted /\ Reported

\* The count is a natural number, and follows from the rows.
LEMMA CurrentTyped ==
    ASSUME IInv
    PROVE  CurrentTokens \in Nat
BY TokensTyped DEF IInv, Types, InOrder, Laid, CurrentTokens

\* A step that writes no row leaves the count.
LEMMA CurrentKept ==
    ASSUME UNCHANGED rows
    PROVE  CurrentTokens' = CurrentTokens
BY DEF rows, CurrentTokens

\* Nothing has been counted yet.
LEMMA SweepInit == Init => SweepInv
<1> SUFFICES ASSUME Init PROVE SweepInv
    OBVIOUS
<1> USE DEF Init, NoFlags, NoUntil
<1>1. Tallies /\ Rounds /\ Paid
    BY DEF Tallies, Rounds, Paid, Phase2
<1>2. Untouched /\ Counted /\ Reported
    BY DEF Untouched, InFlight, Counted, Reported
<1> QED
    BY <1>1, <1>2 DEF SweepInv

\* Another actor's step says nothing of the sweep but that it was disturbed.
LEMMA SweepDisturbed ==
    ASSUME SweepInv, disturbed', UNCHANGED <<pc, running, previous, flags, until>>
    PROVE  SweepInv'
BY DEF SweepInv, Tallies, Rounds, Untouched, Paid, Counted, Reported, InFlight

\* compact_full_sweep begins: nothing has been counted off yet.
LEMMA SweepEntered ==
    ASSUME IInv, SweepInv, NEW force \in BOOLEAN, NEW hard \in BOOLEAN,
           EnterSweep(force, hard), UNCHANGED rows, Rounds', until'.verdict = "none"
    PROVE  SweepInv'
<1>1. CurrentTokens \in Nat /\ CurrentTokens' = CurrentTokens
    BY CurrentTyped, CurrentKept
<1>2. /\ pc' = "leaf" /\ running' = CurrentTokens /\ previous' = CurrentTokens
      /\ flags' = [force |-> force, hard |-> hard, before |-> CurrentTokens,
                   passes |-> 0, auth |-> FALSE]
    BY DEF EnterSweep, NoFlags
<1>3. Tallies'
    BY <1>1, <1>2 DEF Tallies
<1>4. Paid'
    BY <1>1, <1>2 DEF Paid, Phase2
<1>5. Counted' /\ Reported' /\ Untouched'
    BY <1>1, <1>2 DEF Counted, Reported, Untouched, InFlight
<1> QED
    BY <1>3, <1>4, <1>5 DEF SweepInv

\* compact_full_sweep returns, with an honest count unless it was disturbed.
LEMMA SweepFinishes ==
    ASSUME SweepInv, pc # "idle", NEW after \in Int, NEW passes, NEW auth,
           Finish(after, passes, auth), disturbed' = disturbed,
           ~disturbed => after = CurrentTokens'
    PROVE  SweepInv'
<1> DEFINE verdict == IF until.round = 0 THEN "none" ELSE RoundVerdict(after, passes, auth)
<1>1. /\ pc' = IF verdict = "again" THEN "again" ELSE "idle"
      /\ until' = CASE verdict = "again" -> [until EXCEPT !.round = @ + 1, !.last = after]
                    [] verdict = "none" -> until
                    [] OTHER -> [until EXCEPT !.verdict = verdict]
      /\ running' = 0 /\ previous' = 0 /\ flags' = NoFlags
    BY DEF Finish
<1>2. \/ verdict = "none" /\ until.round = 0
      \/ until.round # 0 /\ verdict \in {"again", "fail", "success"}
    BY DEF RoundVerdict
<1>3. verdict = "success" => after <= until.target
    BY DEF RoundVerdict
<1> HIDE DEF verdict
<1>4. \/ until = NoUntil
      \/ until \in [target : Nat, round : Nat \ {0}, last : Int,
                    verdict : {"none", "success", "fail"}]
    BY DEF SweepInv, Rounds
<1>5. until.verdict = "none" /\ (until.round = 0 <=> until = NoUntil)
    BY <1>4 DEF SweepInv, Rounds, NoUntil
<1>6. CASE verdict = "none"
    <2>1. until' = until /\ pc' = "idle" /\ until'.verdict = "none"
        BY <1>1, <1>5, <1>6
    <2> QED
        BY <1>1, <1>4, <2>1 DEF SweepInv, Tallies, Rounds, Untouched, Paid, Counted,
           Reported, InFlight, Phase2, NoFlags
<1>7. CASE verdict = "again"
    <2>1. until' = [until EXCEPT !.round = @ + 1, !.last = after] /\ pc' = "again"
        BY <1>1, <1>7
    <2>2. until \in [target : Nat, round : Nat \ {0}, last : Int,
                     verdict : {"none", "success", "fail"}]
        BY <1>2, <1>4, <1>5, <1>7
    <2>3. /\ until' \in [target : Nat, round : Nat \ {0}, last : Int,
                         verdict : {"none", "success", "fail"}]
          /\ until'.verdict = "none"
        <3>1. until.round \in Nat \ {0} /\ until.round + 1 \in Nat \ {0}
            BY <2>2
        <3>2. until' = [until EXCEPT !.round = until.round + 1, !.last = after]
            BY <2>1
        <3> QED
            BY <1>5, <2>2, <3>1, <3>2
    <2> QED
        BY <1>1, <2>1, <2>3 DEF SweepInv, Tallies, Rounds, Untouched, Paid, Counted,
           Reported, InFlight, Phase2, NoFlags
<1>8. CASE verdict \in {"fail", "success"}
    <2>1. until' = [until EXCEPT !.verdict = verdict] /\ pc' = "idle"
        BY <1>1, <1>8
    <2>2. until \in [target : Nat, round : Nat \ {0}, last : Int,
                     verdict : {"none", "success", "fail"}]
        BY <1>2, <1>4, <1>5, <1>8
    <2>3. /\ until' \in [target : Nat, round : Nat \ {0}, last : Int,
                         verdict : {"none", "success", "fail"}]
          /\ until'.verdict = verdict
          /\ until'.target = until.target
        BY <1>8, <2>1, <2>2
    <2>4. Reported'
        BY <1>3, <2>3 DEF Reported
    <2> QED
        BY <1>1, <2>1, <2>3, <2>4 DEF SweepInv, Tallies, Rounds, Untouched, Paid, Counted,
           InFlight, Phase2, NoFlags
<1> QED
    BY <1>2, <1>6, <1>7, <1>8

\* Phase 1 ends, or phase 2 goes round again.
LEMMA SweepEntersPhase2 ==
    ASSUME SweepInv, pc # "idle", NEW prev \in Int, NEW after \in Int,
           NEW passes \in Nat, NEW auth \in BOOLEAN,
           EnterPhase2(prev, after, passes, auth), disturbed' = disturbed,
           passes + prev <= flags.before + 1,
           ~disturbed => after = CurrentTokens'
    PROVE  SweepInv'
<1>1. CASE Finish(after, passes, auth)
    BY <1>1, SweepFinishes
<1>2. CASE /\ pc' = "cond" /\ running' = after /\ previous' = prev
           /\ flags' = [flags EXCEPT !.passes = passes, !.auth = auth]
           /\ until' = until
    <2>1. /\ flags' \in [force : BOOLEAN, hard : BOOLEAN, before : Nat, passes : Nat,
                         auth : BOOLEAN]
          /\ flags'.passes = passes /\ flags'.before = flags.before
        BY <1>2 DEF SweepInv, Tallies
    <2>2. Tallies' /\ Rounds'
        BY <1>2, <2>1 DEF SweepInv, Tallies, Rounds, Phase2
    <2>3. Paid'
        BY <1>2, <2>1 DEF Paid, Phase2
    <2>4. until'.verdict = "none"
        BY <1>2 DEF SweepInv, Rounds
    <2>5. Counted' /\ Reported' /\ Untouched'
        BY <1>2, <2>4 DEF Counted, Reported, Untouched, InFlight
    <2> QED
        BY <2>2, <2>3, <2>5 DEF SweepInv
<1> QED
    BY <1>1, <1>2 DEF EnterPhase2

\* The items X, all there is from lo to hi, make way for the summary r.
Exchanged(mt, ss, c, r, lo, hi, X) ==
    /\ mt \in Seq(Nat) /\ ss \in Seq(Row) /\ r \in Row
    /\ lo \in Nat /\ hi \in Nat /\ lo <= hi
    /\ X = {o \in DOMAIN c : lo <= o /\ o <= hi}
    /\ ItemsExist(Len(mt), ss, c)
    /\ ItemsExist(Len(mt), Append(ss, r), Replaced(c, lo, hi, Len(ss) + 1))

\* A sum over what the range held, taken from the count, leaves the rest.
LEMMA ReplacedTokens ==
    ASSUME NEW mt, NEW ss, NEW c, NEW r, NEW lo, NEW hi, NEW X,
           Exchanged(mt, ss, c, r, lo, hi, X)
    PROVE  ContextTokens(mt, Append(ss, r), Replaced(c, lo, hi, Len(ss) + 1))
               = ContextTokens(mt, ss, c) - SumOf(TokensOf(mt, ss, c), X) + r.tokens
<1> DEFINE tt == Append(ss, r)
           k == Len(ss)
           d == Replaced(c, lo, hi, k + 1)
           Y == DOMAIN c \ X
           F == TokensOf(mt, ss, c)
           G == TokensOf(mt, tt, d)
<1>0. /\ mt \in Seq(Nat) /\ ss \in Seq(Row) /\ r \in Row
      /\ lo \in Nat /\ hi \in Nat /\ lo <= hi
      /\ X = {o \in DOMAIN c : lo <= o /\ o <= hi}
      /\ ItemsExist(Len(mt), ss, c)
      /\ ItemsExist(Len(mt), tt, d)
    BY DEF Exchanged
<1>1. /\ tt \in Seq(Row) /\ k \in Nat /\ tt[k + 1] = r
      /\ \A s \in DOMAIN ss : tt[s] = ss[s]
      /\ r.tokens \in Nat
    BY <1>0 DEF Row
<1>2. DOMAIN c \subseteq Nat /\ IsFiniteSet(DOMAIN c)
    BY <1>0 DEF ItemsExist
<1>3. X = DOMAIN c \cap (lo .. hi) /\ lo \notin Y
    BY <1>0, <1>2
<1>4. /\ DOMAIN d = Y \cup {lo}
      /\ d[lo] = SummaryItem(k + 1)
      /\ \A o \in Y : d[o] = c[o]
    <2>1. DOMAIN d = (DOMAIN c \ (lo .. hi)) \cup {lo}
        BY DEF Replaced
    <2>2. Y = DOMAIN c \ (lo .. hi)
        BY <1>3
    <2> QED
        BY <1>3, <2>1, <2>2 DEF Replaced
<1>5. /\ \A o \in DOMAIN c : F[o] = ItemTokens(mt, ss, c[o]) /\ F[o] \in Nat
      /\ ContextTokens(mt, ss, c) = SumOf(F, DOMAIN c)
    BY <1>0, TokensTyped
<1> HIDE DEF tt, d
<1>6. /\ \A o \in DOMAIN d : G[o] = ItemTokens(mt, tt, d[o]) /\ G[o] \in Nat
      /\ ContextTokens(mt, tt, d) = SumOf(G, DOMAIN d)
    BY <1>0, <1>1, TokensTyped
<1>7. X \subseteq DOMAIN c /\ IsFiniteSet(X) /\ IsFiniteSet(Y)
    BY <1>0, <1>2, FS_Subset
<1> HIDE DEF F, G
<1>8. G[lo] = r.tokens
    BY <1>1, <1>4, <1>6 DEF ItemTokens, SummaryItem
<1>9. \A o \in Y : G[o] = F[o]
    <2> TAKE o \in Y
    <2>1. o \in DOMAIN c /\ o \in DOMAIN d /\ d[o] = c[o]
        BY <1>4
    <2>2. ItemTokens(mt, tt, c[o]) = ItemTokens(mt, ss, c[o])
        <3>1. CASE \E m \in 1 .. Len(mt) : c[o] = MessageItem(m)
            BY <3>1 DEF ItemTokens, MessageItem
        <3>2. CASE \E s \in DOMAIN ss : c[o] = SummaryItem(s)
            BY <1>1, <3>2 DEF ItemTokens, SummaryItem
        <3> QED
            BY <1>0, <2>1, <3>1, <3>2 DEF ItemsExist
    <2> QED
        BY <1>5, <1>6, <2>1, <2>2
<1>10. X \cup Y = DOMAIN c /\ X \cap Y = {} /\ Y \subseteq DOMAIN c /\ X \subseteq DOMAIN c
    BY <1>7
<1> HIDE DEF Y
<1>11. SumOf(F, DOMAIN c) = SumOf(F, X) + SumOf(F, Y)
    <2>1. \A x \in X \cup Y : F[x] \in Int
        BY <1>5, <1>10
    <2>2. SumOf(F, X \cup Y) = SumOf(F, X) + SumOf(F, Y)
        BY <1>7, <1>10, <2>1, SumUnion
    <2> QED
        BY <1>10, <2>2
<1>12. SumOf(G, DOMAIN d) = G[lo] + SumOf(G, Y)
    <2>1. \A y \in Y \cup {lo} : G[y] \in Int
        BY <1>4, <1>6
    <2>2. SumOf(G, Y \cup {lo}) = G[lo] + SumOf(G, Y)
        BY <1>3, <1>7, <2>1, SumAdd
    <2> QED
        BY <1>4, <2>2
<1>13. SumOf(G, Y) = SumOf(F, Y)
    <2>1. \A y \in Y : F[y] \in Int /\ G[y] = F[y]
        BY <1>5, <1>9, <1>10
    <2> QED
        BY <1>7, <2>1, SumSame
<1>14. SumOf(F, X) \in Int /\ SumOf(F, Y) \in Int
    <2>1. (\A x \in X : F[x] \in Int) /\ (\A x \in Y : F[x] \in Int)
        BY <1>5, <1>10
    <2> QED
        BY <1>7, <2>1, SumOfIs
<1>15. ContextTokens(mt, tt, d) = ContextTokens(mt, ss, c) - SumOf(F, X) + r.tokens
    BY <1>1, <1>5, <1>6, <1>8, <1>11, <1>12, <1>13, <1>14
<1> QED
    BY <1>15 DEF tt, d, F, k

\* The tokens of the items of an undisturbed chunk are those of its sources.
LEMMA ChunkTokens ==
    ASSUME IInv, ScanInv, SweepInv, InFlight, ~disturbed,
           NEW G, \A o \in chunk : G[ctx[o].id] = TokensOf(mtok, sums, ctx)[o]
    PROVE  /\ SumOf(TokensOf(mtok, sums, ctx), chunk) = SumOf(G, src)
           /\ IsFiniteSet(src)
<1> DEFINE F == TokensOf(mtok, sums, ctx)
           b == [o \in chunk |-> ctx[o].id]
<1>1. /\ mtok \in Seq(Nat) /\ sums \in Seq(Row) /\ ItemsExist(Len(mtok), sums, ctx)
    BY DEF IInv, Types, InOrder, Laid
<1>2. \A o \in DOMAIN ctx : F[o] \in Int
    BY <1>1, TokensTyped
<1>3. chunk = {o \in DOMAIN ctx : Min(chunk) <= o /\ o <= Max(chunk)}
      /\ src = IdsAt(ctx, chunk)
    BY DEF SweepInv, Untouched
<1>4. chunk \subseteq DOMAIN ctx /\ src = {ctx[o].id : o \in chunk}
    BY <1>3 DEF IdsAt
<1>5. IsFiniteSet(chunk) /\ IsFiniteSet(src)
    <2>1. src \subseteq 1 .. Len(mtok) \/ src \subseteq 1 .. Len(sums)
        BY <1>1 DEF IInv, PassCurrent
    <2>2. Len(mtok) \in Int /\ Len(sums) \in Int /\ 1 \in Int
        BY <1>1
    <2>3. IsFiniteSet(1 .. Len(mtok)) /\ IsFiniteSet(1 .. Len(sums))
        BY <2>2, FS_Interval
    <2> QED
        BY <1>1, <1>4, <2>1, <2>3, FS_Subset DEF ItemsExist
<1>6. ASSUME NEW o \in chunk, NEW p \in chunk, ctx[o].id = ctx[p].id PROVE o = p
    <2>1. Min(chunk) <= o /\ o <= Max(chunk) /\ Min(chunk) <= p /\ p <= Max(chunk)
          /\ o \in DOMAIN ctx /\ p \in DOMAIN ctx
        BY <1>3
    <2>2. ctx[o].type = ctx[p].type
        BY <2>1 DEF IInv, PassCurrent, RangeRead
    <2>3. \A q \in DOMAIN ctx : ctx[q] = [type |-> ctx[q].type, id |-> ctx[q].id]
        BY <1>1 DEF ItemsExist, MessageItem, SummaryItem
    <2>4. ctx[o] = ctx[p]
        BY <1>6, <2>1, <2>2, <2>3
    <2> QED
        BY <2>1, <2>4, NoDuplicates DEF DuplicateRefs
<1> HIDE DEF F
<1>7. /\ \A o \in chunk : b[o] \in src /\ F[o] = G[b[o]]
      /\ \A o, p \in chunk : o # p => b[o] # b[p]
      /\ \A y \in src : \E o \in chunk : b[o] = y
    BY <1>4, <1>6 DEF F
<1>8. \A y \in src : G[y] \in Int
    BY <1>2, <1>4 DEF F
<1> HIDE DEF b
<1>9. Matches(b, F, chunk, G, src)
    BY <1>5, <1>7, <1>8 DEF Matches
<1> QED
    BY <1>5, <1>9, SumRenamed DEF F

\* What the transaction of a pass makes of the count, if nobody else wrote.
LEMMA CommitTokens ==
    ASSUME IInv, SweepInv, InFlight, ~disturbed, NEW r, Commits(r)
    PROVE  CurrentTokens' =
               CurrentTokens - SumOf(TokensOf(mtok, sums, ctx), chunk) + r.tokens
<1> DEFINE n == Len(mtok)
           k == Len(sums)
           lo == Min(chunk)
           hi == Max(chunk)
           tt == Append(sums, r)
           d == Replaced(ctx, lo, hi, k + 1)
           g == Cover'
<1>1. /\ Flight(Cover, n, ctx, lo, hi, ToCover)
      /\ \A s \in DOMAIN sums : g[s] = Cover[s]
      /\ g[k + 1] = ToCover
    BY CommitFacts
<1>2. /\ mtok \in Seq(Nat) /\ n \in Nat
      /\ sums \in Seq(Row) /\ r \in Row /\ tt \in Seq(Row)
      /\ Laid(Cover, n, sums, hidden, ctx)
      /\ ItemsExist(n, sums, ctx)
    BY DEF IInv, Types, InOrder, Laid, Commits
<1>3. mtok' = mtok /\ sums' = tt /\ ctx' = Resequence(d)
    BY DEF Commits, ReplaceRange, Replaced
<1>4. r.msgs \subseteq ToCover /\ ~r.suppressed
    BY DEF Commits
<1>5. chunk = {o \in DOMAIN ctx : lo <= o /\ o <= hi}
    BY DEF SweepInv, Untouched
<1>6. lo \in Nat /\ hi \in Nat /\ lo <= hi
    BY <1>1 DEF Flight
<1> HIDE DEF g, lo, hi
<1>7. ItemsExist(n, tt, d)
    <2>1. Laid(g, n, tt, hidden, d)
        BY <1>1, <1>2, <1>4, LaidReplaced
    <2> QED
        BY <2>1 DEF Laid
<1>8. ContextTokens(mtok, tt, d)
          = ContextTokens(mtok, sums, ctx) - SumOf(TokensOf(mtok, sums, ctx), chunk) + r.tokens
    <2>1. Exchanged(mtok, sums, ctx, r, lo, hi, chunk)
        BY <1>2, <1>5, <1>6, <1>7 DEF Exchanged
    <2> QED
        BY <2>1, ReplacedTokens
<1> HIDE DEF d, tt
<1>9. PICK h : /\ Renumbering(h, DOMAIN Resequence(d), DOMAIN d)
               /\ \A i \in DOMAIN Resequence(d) : Resequence(d)[i] = d[h[i]]
    BY <1>7, ResequenceRenumbers DEF ItemsExist
<1>10. ContextTokens(mtok, tt, Resequence(d)) = ContextTokens(mtok, tt, d)
    BY <1>2, <1>7, <1>9, TokensRenumbered
<1> QED
    BY <1>3, <1>8, <1>10 DEF CurrentTokens

\* The guards after a leaf pass, for the count it leaves.
LeafEnds(after) ==
    \/ /\ UnderThreshold(after)
       /\ EnterPhase2(after, after, flags.passes + 1, flags.auth)
    \/ /\ NoProgress(after)
       /\ EnterPhase2(previous, after, flags.passes + 1, flags.auth)
    \/ /\ ~NoProgress(after)
       /\ pc' = "leaf" /\ running' = after /\ previous' = after
       /\ flags' = [flags EXCEPT !.passes = @ + 1]
       /\ UNCHANGED until

\* The guards after a condensed pass.
CondEnds(after) ==
    \/ Finish(after, flags.passes + 1, flags.auth)
    \/ /\ ~NoProgress(after)
       /\ EnterPhase2(after, after, flags.passes + 1, flags.auth)

\* Whichever guard stops the phase, the accounts hold: a pass that goes on has
\* taken at least one token off.
LEMMA LeafEndsKeep ==
    ASSUME CompactionAssumption, SweepInv, pc = "leafLlm", NEW after \in Int, LeafEnds(after),
           disturbed' = disturbed, ~disturbed => after = CurrentTokens'
    PROVE  SweepInv'
<1>1. /\ flags \in [force : BOOLEAN, hard : BOOLEAN, before : Nat, passes : Nat, auth : BOOLEAN]
      /\ running \in Int /\ previous \in Int
      /\ flags.passes + previous <= flags.before
    BY DEF SweepInv, Tallies, Paid, Phase2
<1>2. /\ flags.passes \in Nat /\ flags.before \in Nat /\ flags.passes + 1 \in Nat
    BY <1>1
<1>3. flags.auth \in BOOLEAN
    BY <1>1
<1>4. CASE UnderThreshold(after) /\ EnterPhase2(after, after, flags.passes + 1, flags.auth)
    <2>1. ~flags.force /\ ~(after > Threshold)
        BY <1>4 DEF UnderThreshold, CompactionAssumption
    <2>2. Finish(after, flags.passes + 1, flags.auth)
        BY <1>4, <2>1 DEF EnterPhase2
    <2> QED
        BY <2>2, SweepFinishes
<1>5. CASE NoProgress(after) /\ EnterPhase2(previous, after, flags.passes + 1, flags.auth)
    <2>1. (flags.passes + 1) + previous <= flags.before + 1
        BY <1>1, <1>2
    <2> QED
        BY <1>1, <1>2, <1>3, <1>5, <2>1, SweepEntersPhase2
<1>6. CASE /\ ~NoProgress(after)
           /\ pc' = "leaf" /\ running' = after /\ previous' = after
           /\ flags' = [flags EXCEPT !.passes = @ + 1]
           /\ until' = until
    <2>1. after < previous
        BY <1>1, <1>6 DEF NoProgress
    <2>2. /\ flags' \in [force : BOOLEAN, hard : BOOLEAN, before : Nat, passes : Nat,
                         auth : BOOLEAN]
          /\ flags'.passes = flags.passes + 1 /\ flags'.before = flags.before
        BY <1>1, <1>2, <1>6
    <2>3. Tallies' /\ Rounds'
        BY <1>6, <2>2 DEF SweepInv, Tallies, Rounds
    <2>4. Paid'
        BY <1>1, <1>2, <1>6, <2>1, <2>2 DEF Paid, Phase2
    <2>5. until'.verdict = "none"
        BY <1>6 DEF SweepInv, Rounds
    <2>6. Counted' /\ Reported' /\ Untouched'
        BY <1>6, <2>5 DEF Counted, Reported, Untouched, InFlight
    <2> QED
        BY <2>3, <2>4, <2>6 DEF SweepInv
<1> QED
    BY <1>4, <1>5, <1>6 DEF LeafEnds

\* The same of the guards of phase 2.
LEMMA CondEndsKeep ==
    ASSUME SweepInv, pc = "condLlm", NEW after \in Int, CondEnds(after),
           disturbed' = disturbed, ~disturbed => after = CurrentTokens'
    PROVE  SweepInv'
<1>1. /\ flags \in [force : BOOLEAN, hard : BOOLEAN, before : Nat, passes : Nat, auth : BOOLEAN]
      /\ running \in Int /\ previous \in Int
      /\ flags.passes + previous <= flags.before + 1
    BY DEF SweepInv, Tallies, Paid, Phase2
<1>2. /\ flags.passes \in Nat /\ flags.before \in Nat /\ flags.passes + 1 \in Nat
    BY <1>1
<1>3. flags.auth \in BOOLEAN
    BY <1>1
<1>4. CASE Finish(after, flags.passes + 1, flags.auth)
    BY <1>4, SweepFinishes
<1>5. CASE ~NoProgress(after) /\ EnterPhase2(after, after, flags.passes + 1, flags.auth)
    <2>1. after < previous
        BY <1>1, <1>5 DEF NoProgress
    <2>2. (flags.passes + 1) + after <= flags.before + 1
        BY <1>1, <1>2, <2>1
    <2> QED
        BY <1>2, <1>3, <1>5, <2>2, SweepEntersPhase2
<1> QED
    BY <1>4, <1>5 DEF CondEnds

\* running_tokens takes off what the leaf pass read and adds what it wrote.
LEMMA SweepLeafCommit ==
    ASSUME CompactionAssumption, IInv, ScanInv, SweepInv, NEW t \in SumTokens, LeafCommit(t)
    PROVE  SweepInv'
<1> DEFINE after == running - SumOf(mtok, src) + t
<1>1. InFlight /\ Commits(NewLeaf(t)) /\ pc = "leafLlm" /\ disturbed' = disturbed
    BY LeafCommits DEF LeafCommit
<1>2. /\ mtok \in Seq(Nat) /\ src \subseteq 1 .. Len(mtok) /\ Len(mtok) \in Nat
      /\ running \in Int /\ t \in Nat
    BY <1>1 DEF IInv, Types, PassCurrent, SweepInv, Tallies, CompactionAssumption
<1>3. IsFiniteSet(src) /\ \A m \in src : mtok[m] \in Int
    <2>1. IsFiniteSet(1 .. Len(mtok))
        BY <1>2, FS_Interval
    <2>2. \A m \in 1 .. Len(mtok) : mtok[m] \in Int
        BY <1>2
    <2> QED
        BY <1>2, <2>1, <2>2, FS_Subset
<1>4. MapThenSumSet(LAMBDA m : mtok[m], src) = SumOf(mtok, src)
    BY <1>3, LeafSum
<1>5. LeafEnds(after)
    BY <1>4 DEF LeafCommit, LeafEnds, RunningAfter
<1>6. after \in Int
    <2>1. SumOf(mtok, src) \in Int
        BY <1>3, SumOfIs
    <2> QED
        BY <1>2, <2>1
<1>7. ASSUME ~disturbed PROVE after = CurrentTokens'
    <2>1. \A o \in chunk : mtok[ctx[o].id] = TokensOf(mtok, sums, ctx)[o]
        <3> TAKE o \in chunk
        <3>1. o \in DOMAIN ctx /\ Min(chunk) <= o /\ o <= Max(chunk)
            BY <1>1, <1>7 DEF SweepInv, Untouched
        <3>2. ctx[o].type = "message"
            BY <1>1, <3>1 DEF IInv, PassCurrent, RangeRead
        <3> QED
            BY <3>1, <3>2 DEF TokensOf, ItemTokens
    <2>2. SumOf(TokensOf(mtok, sums, ctx), chunk) = SumOf(mtok, src)
        BY <1>1, <1>7, <2>1, ChunkTokens
    <2>3. CurrentTokens' =
              CurrentTokens - SumOf(TokensOf(mtok, sums, ctx), chunk) + NewLeaf(t).tokens
        BY <1>1, <1>7, CommitTokens
    <2>4. NewLeaf(t).tokens = t
        BY DEF NewLeaf
    <2>5. running = CurrentTokens
        BY <1>1, <1>7 DEF SweepInv, Counted
    <2> QED
        BY <2>2, <2>3, <2>4, <2>5
<1> HIDE DEF after
<1> QED
    BY <1>1, <1>5, <1>6, <1>7, LeafEndsKeep

\* The same of the sources of a condensed pass.
LEMMA SweepCondCommit ==
    ASSUME CompactionAssumption, IInv, ScanInv, SweepInv, NEW t \in SumTokens, CondCommit(t)
    PROVE  SweepInv'
<1> DEFINE G == SummaryTokens(sums)
           after == running - SumOf(G, src) + t
<1>1. InFlight /\ Commits(NewCondensed(t)) /\ pc = "condLlm" /\ disturbed' = disturbed
    BY CondCommits DEF CondCommit
<1>2. /\ sums \in Seq(Row) /\ src \subseteq DOMAIN sums
      /\ running \in Int /\ t \in Nat
    BY <1>1 DEF IInv, Types, PassCurrent, SweepInv, Tallies, CompactionAssumption
<1>3. IsFiniteSet(src)
    <2>1. DOMAIN sums = 1 .. Len(sums) /\ Len(sums) \in Int /\ 1 \in Int
        BY <1>2
    <2> QED
        BY <1>2, <2>1, FS_Interval, FS_Subset
<1>4. \A s \in src : sums[s].tokens \in Int
    <2> TAKE s \in src
    <2>1. sums[s] \in Row
        BY <1>2
    <2> QED
        BY <2>1 DEF Row
<1>5. \A s \in src : G[s] = sums[s].tokens
    BY <1>2 DEF SummaryTokens
<1>6. MapThenSumSet(LAMBDA s : sums[s].tokens, src) = SumOf(G, src)
    BY <1>2, <1>3, <1>4, CondSum
<1>7. CondEnds(after)
    BY <1>6 DEF CondCommit, CondEnds, RunningAfter
<1> HIDE DEF G
<1>8. after \in Int
    BY <1>2, <1>3, <1>4, <1>5, SumOfIs
<1>9. ASSUME ~disturbed PROVE after = CurrentTokens'
    <2>1. \A o \in chunk : G[ctx[o].id] = TokensOf(mtok, sums, ctx)[o]
        <3> TAKE o \in chunk
        <3>1. o \in DOMAIN ctx /\ Min(chunk) <= o /\ o <= Max(chunk)
            BY <1>1, <1>9 DEF SweepInv, Untouched
        <3>2. ctx[o].type = "summary" /\ ctx[o].id \in src
            BY <1>1, <3>1 DEF IInv, PassCurrent, RangeRead
        <3> QED
            BY <1>5, <3>1, <3>2 DEF TokensOf, ItemTokens
    <2>2. SumOf(TokensOf(mtok, sums, ctx), chunk) = SumOf(G, src)
        BY <1>1, <1>9, <2>1, ChunkTokens
    <2>3. CurrentTokens' =
              CurrentTokens - SumOf(TokensOf(mtok, sums, ctx), chunk) + NewCondensed(t).tokens
        BY <1>1, <1>9, CommitTokens
    <2>4. NewCondensed(t).tokens = t
        BY DEF NewCondensed
    <2>5. running = CurrentTokens
        BY <1>1, <1>9 DEF SweepInv, Counted
    <2> QED
        BY <2>2, <2>3, <2>4, <2>5
<1> HIDE DEF after
<1> QED
    BY <1>1, <1>7, <1>8, <1>9, CondEndsKeep

\* What a run of ordinals is, in terms of its ends.
LEMMA RunIsRange ==
    ASSUME NEW n, NEW c, DOMAIN c \subseteq Nat, IsFiniteSet(DOMAIN c), NEW X, IsRun(n, c, X)
    PROVE  X = {o \in DOMAIN c : Min(X) <= o /\ o <= Max(X)}
<1>1. X \subseteq DOMAIN c /\ X # {} /\ X \subseteq Nat /\ IsFiniteSet(X)
    BY FS_Subset DEF IsRun
<1>2. \A o \in X : Min(X) <= o /\ o <= Max(X)
    BY <1>1, MinFacts, MaxFacts
<1> QED
    BY <1>1, <1>2 DEF IsRun

\* A selection reads exactly the items of its chunk.
LEMMA SweepSelect ==
    ASSUME CompactionAssumption, IInv, SweepInv, LeafSelect \/ CondSelect
    PROVE  SweepInv'
<1>1. /\ UNCHANGED <<rows, running, previous, flags, until, disturbed>>
      /\ src' = IdsAt(ctx, chunk')
      /\ \/ pc = "leaf" /\ pc' = "leafLlm"
         \/ pc = "cond" /\ pc' = "condRead"
    BY DEF LeafSelect, CondSelect
<1>2. IsRun(Len(mtok), ctx, chunk')
    BY LeafSelectRuns, CondSelectRuns
<1>3. chunk' = {o \in DOMAIN ctx : Min(chunk') <= o /\ o <= Max(chunk')}
    BY <1>2, RunIsRange DEF IInv, InOrder, Laid, ItemsExist
<1>4. CurrentTokens' = CurrentTokens /\ ctx' = ctx
    BY <1>1, CurrentKept DEF rows
<1>5. Untouched'
    BY <1>1, <1>3, <1>4 DEF Untouched
<1>6. Tallies' /\ Rounds' /\ Paid' /\ Counted' /\ Reported'
    BY <1>1, <1>4 DEF SweepInv, Tallies, Rounds, Paid, Counted, Reported, Phase2
<1> QED
    BY <1>5, <1>6 DEF SweepInv

\* Without a purge, get_summary finds every source.
LEMMA SweepCondRead ==
    ASSUME IInv, SweepInv, CondRead
    PROVE  SweepInv'
<1>1. /\ UNCHANGED <<rows, chunk, running, previous, flags, until, disturbed>>
      /\ src' = {s \in src : ~sums[s].suppressed}
      /\ pc = "condRead" /\ pc' = "condLlm"
    BY DEF CondRead, Readable
<1>2. CurrentTokens' = CurrentTokens /\ ctx' = ctx
    BY <1>1, CurrentKept DEF rows
<1>3. ASSUME ~disturbed PROVE src' = src
    <2>1. /\ chunk = {o \in DOMAIN ctx : Min(chunk) <= o /\ o <= Max(chunk)}
          /\ src = IdsAt(ctx, chunk)
        BY <1>1, <1>3 DEF SweepInv, Untouched, InFlight
    <2>2. ASSUME NEW o \in chunk PROVE ~sums[ctx[o].id].suppressed
        <3>1. o \in DOMAIN ctx /\ Min(chunk) <= o /\ o <= Max(chunk)
            BY <2>1
        <3>2. ctx[o].type = "summary"
            BY <1>1, <3>1 DEF IInv, PassCurrent, RangeRead, InFlight
        <3> QED
            BY <3>1, <3>2 DEF IInv, InOrder, Laid, ItemsVisible
    <2> QED
        BY <1>1, <2>1, <2>2 DEF IdsAt
<1>4. Untouched'
    BY <1>1, <1>2, <1>3 DEF SweepInv, Untouched, InFlight
<1>5. Tallies' /\ Rounds' /\ Paid' /\ Counted' /\ Reported'
    BY <1>1, <1>2 DEF SweepInv, Tallies, Rounds, Paid, Counted, Reported, Phase2
<1> QED
    BY <1>4, <1>5 DEF SweepInv

\* The steps that begin or end a sweep or a phase.
LEMMA SweepQuiet ==
    ASSUME CompactionAssumption, IInv, SweepInv, QuietStep
    PROVE  SweepInv'
<1>1. UNCHANGED rows /\ CurrentTokens' = CurrentTokens /\ CurrentTokens \in Nat
    BY QuietFacts, CurrentKept, CurrentTyped
<1>2. /\ flags \in [force : BOOLEAN, hard : BOOLEAN, before : Nat, passes : Nat, auth : BOOLEAN]
      /\ running \in Int /\ previous \in Int
      /\ flags.passes + previous <= flags.before + IF pc \in Phase2 THEN 1 ELSE 0
      /\ ~disturbed /\ pc \notin {"idle", "again"} => running = CurrentTokens
    BY DEF SweepInv, Tallies, Paid, Counted
<1>3. flags.passes \in Nat /\ flags.before \in Nat /\ flags.auth \in BOOLEAN
    BY <1>2
<1>4. ASSUME NEW force \in BOOLEAN, NEW hard \in BOOLEAN, StartSweep(force, hard)
      PROVE  SweepInv'
    <2>1. EnterSweep(force, hard) /\ until' = NoUntil
        BY <1>4 DEF StartSweep
    <2>2. Rounds' /\ until'.verdict = "none"
        BY <2>1 DEF Rounds, NoUntil
    <2> QED
        BY <1>1, <2>1, <2>2, SweepEntered
<1>5. ASSUME NEW target \in Targets, NEW live \in LiveCounts, StartUntil(target, live)
      PROVE  SweepInv'
    <2> DEFINE last == Max({CurrentTokens, live})
    <2>1. /\ EnterSweep(TRUE, FALSE)
          /\ until' = [target |-> target, round |-> 1, last |-> last, verdict |-> "none"]
        BY <1>5 DEF StartUntil
    <2>2. target \in Nat /\ last \in Int
        <3>1. live \in Nat /\ target \in Nat
            BY DEF CompactionAssumption
        <3>2. {CurrentTokens, live} \subseteq Nat /\ {CurrentTokens, live} # {}
            BY <1>1, <3>1
        <3>3. IsFiniteSet({CurrentTokens, live})
            <4>1. IsFiniteSet({CurrentTokens})
                BY FS_Singleton
            <4>2. IsFiniteSet({CurrentTokens} \cup {live})
                BY <4>1, FS_AddElement
            <4>3. {CurrentTokens} \cup {live} = {CurrentTokens, live}
                OBVIOUS
            <4> QED
                BY <4>2, <4>3
        <3>4. Max({CurrentTokens, live}) \in {CurrentTokens, live}
            BY <3>2, <3>3, MaxFacts
        <3> QED
            BY <3>1, <3>2, <3>4
    <2> HIDE DEF last
    <2>3. Rounds' /\ until'.verdict = "none"
        BY <2>1, <2>2 DEF Rounds
    <2> QED
        BY <1>1, <2>1, <2>3, SweepEntered
<1>6. CASE NextRound
    <2>1. pc = "again" /\ EnterSweep(TRUE, FALSE) /\ until' = until
        BY <1>6 DEF NextRound
    <2>2. Rounds' /\ until'.verdict = "none"
        BY <2>1 DEF SweepInv, Rounds
    <2> QED
        BY <1>1, <2>1, <2>2, SweepEntered
<1>7. CASE LeafNone
    <2>1. /\ pc = "leaf" /\ disturbed' = disturbed
          /\ EnterPhase2(previous, running, flags.passes, flags.auth)
        BY <1>7 DEF LeafNone
    <2>2. flags.passes + previous <= flags.before + 1 /\ (~disturbed => running = CurrentTokens')
        BY <1>1, <1>2, <1>3, <2>1 DEF Phase2
    <2> QED
        BY <1>2, <1>3, <2>1, <2>2, SweepEntersPhase2
<1>8. CASE CondNone
    <2>1. /\ pc = "cond" /\ disturbed' = disturbed
          /\ Finish(running, flags.passes, flags.auth)
        BY <1>8 DEF CondNone
    <2> QED
        BY <1>1, <1>2, <2>1, SweepFinishes
<1>9. ASSUME NEW auth \in BOOLEAN, LeafUnwritten(auth) PROVE SweepInv'
    <2>1. /\ pc = "leafLlm" /\ disturbed' = disturbed
          /\ EnterPhase2(previous, running, flags.passes, flags.auth \/ auth)
        BY <1>9 DEF LeafUnwritten
    <2>2. flags.passes + previous <= flags.before + 1 /\ (~disturbed => running = CurrentTokens')
        BY <1>1, <1>2, <1>3, <2>1 DEF Phase2
    <2>3. (flags.auth \/ auth) \in BOOLEAN
        BY <1>3
    <2> QED
        BY <1>2, <1>3, <2>1, <2>2, <2>3, SweepEntersPhase2
<1>10. ASSUME NEW auth \in BOOLEAN, CondUnwritten(auth) PROVE SweepInv'
    <2>1. /\ pc = "condLlm" /\ disturbed' = disturbed
          /\ Finish(running, flags.passes, flags.auth \/ auth)
        BY <1>10 DEF CondUnwritten
    <2> QED
        BY <1>1, <1>2, <2>1, SweepFinishes
<1>11. CASE Abort
    <2>1. /\ pc' = "idle" /\ until' = NoUntil
          /\ running' = 0 /\ previous' = 0 /\ flags' = NoFlags
        BY <1>11 DEF Abort
    <2>2. Tallies' /\ Rounds' /\ Paid'
        BY <2>1 DEF Tallies, Rounds, Paid, NoFlags, NoUntil, Phase2
    <2>3. Untouched' /\ Counted' /\ Reported'
        BY <2>1 DEF Untouched, Counted, Reported, InFlight, NoUntil
    <2> QED
        BY <2>2, <2>3 DEF SweepInv
<1> QED
    BY <1>4, <1>5, <1>6, <1>7, <1>8, <1>9, <1>10, <1>11 DEF QuietStep

\* Every step keeps the accounts.
LEMMA SweepStepKeeps ==
    ASSUME CompactionAssumption, IInv, ScanInv, SweepInv, [Next]_vars
    PROVE  SweepInv'
<1>1. CASE \E t \in MsgTokens : Ingest(t)
    BY <1>1, SweepDisturbed DEF Ingest
<1>2. CASE \E L \in SUBSET Leaves : Cascade(L)
    BY <1>2, SweepDisturbed DEF Cascade
<1>3. CASE QuietStep
    BY <1>3, SweepQuiet
<1>4. CASE LeafSelect \/ CondSelect
    BY <1>4, SweepSelect
<1>5. CASE CondRead
    BY <1>5, SweepCondRead
<1>6. CASE \E t \in SumTokens : LeafCommit(t) \/ CondCommit(t)
    BY <1>6, SweepLeafCommit, SweepCondCommit
<1>7. CASE UNCHANGED vars
    <2>1. UNCHANGED <<ctx, pc, chunk, src, running, previous, flags, until, disturbed>>
        BY <1>7 DEF vars, rows, pass
    <2>2. CurrentTokens' = CurrentTokens
        BY <1>7, CurrentKept DEF vars
    <2> QED
        BY <2>1, <2>2 DEF SweepInv, Tallies, Rounds, Untouched, Paid, Counted, Reported, InFlight
<1> QED
    BY <1>1, <1>2, <1>3, <1>4, <1>5, <1>6, <1>7, StepKinds

\* The accounts hold in every interleaving.
THEOREM SweepInvariant == Spec => []SweepInv
<1>1. IInv /\ ScanInv /\ SweepInv /\ [Next]_vars => SweepInv'
    BY SweepStepKeeps, CompactionAssumption
<1> QED
    BY <1>1, SweepInit, PassStaysCurrent, ScanInvariant, PTL DEF Spec

\* Every pass after which the sweep goes on has paid for itself, and what it
\* counts off is what it would read while nobody else writes.
THEOREM SweepAccounted == Spec => []SweepAccounts
<1>1. SweepInv => SweepAccounts
    BY DEF SweepInv, Paid, Counted, Reported, Phase2, SweepAccounts
<1> QED
    BY <1>1, SweepInvariant, PTL
=============================================================================
