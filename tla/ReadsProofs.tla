----------------------------- MODULE ReadsProofs -----------------------------
(***************************************************************************)
(* Proofs about Reads: what the reading tools answer, for any store, any   *)
(* scope and window, and any interleaving of their statements with purges, *)
(* writes, ticks and session resets.                                       *)
(*                                                                         *)
(* The properties speak of an answer; the inductive invariant follows the  *)
(* call that leads to it.  Every id a call holds between two statements    *)
(* was visible when it was read, and so not purged before the call; every  *)
(* id that is not filtered again is in its scope, and the scope holds what *)
(* is its caller's and nothing else; a search holds all it could find, if  *)
(* it found no more than it may fetch; and the pages seen so far are the   *)
(* first ones of what is visible.                                          *)
(***************************************************************************)
EXTENDS Reads, FiniteSetTheorems, WellFoundedInduction, TLAPS

-----------------------------------------------------------------------------
(***************************************************************************)
(* The inductive invariant.                                                *)
(***************************************************************************)
Fields == {"pc", "tool", "scope", "all", "who", "keys", "limit", "since", "kinds", "id",
           "offset", "ids", "hits", "count", "packed", "gone", "whole"}

\* A conversation is there before its rows, and a key in use has an active one.
ConvsTyped ==
    /\ active \subseteq convs /\ convs \subseteq Convs
    /\ \A x \in rows : ConvOf[x] \in convs
    /\ \A d \in convs : KeyOf[d] # NoKey => \E e \in active : KeyOf[e] = KeyOf[d]

\* The rows a leaf is made of are there before it.
StoreTyped ==
    /\ rows \subseteq Rows
    /\ dead \subseteq Rows
    /\ \A l \in Leaves \cap rows : Sources[l] \subseteq rows
    /\ ConvsTyped

CallTyped(q) ==
    /\ DOMAIN q = Fields
    /\ q.limit \in Nat \ {0}
    /\ q.offset \in Nat
    /\ q.hits \subseteq Rows
    /\ q.ids \subseteq Rows

\* What was purged before the call is not among what it holds.
Unburied(q) ==
    /\ q.gone \subseteq dead
    /\ \A x \in q.hits \cup q.ids : x \notin q.gone

\* The tools whose answer is restricted to conversations.
ScopedTools == {"regex", "full_text", "verbatim", "hybrid", "describe"}

Within(q, S) == q.tool \in ScopedTools => \A x \in S : InScope(q, x)

\* The ids that no later statement of the call filters.
InBounds(q) ==
    /\ Within(q, q.hits)
    /\ q.pc \in {"hydrate", "rows", "rerank"} => Within(q, q.ids)
    /\ q.tool = "describe" /\ q.pc # "start" =>
           q.id \in Sums \cap rows /\ InScope(q, q.id)
    /\ q.tool = "describe" /\ q.pc \in {"count", "fetch"} => q.id \in Leaves

\* The keyword arm of a hybrid call was not cut off.
Few(q) == Cardinality(Candidates(q)) <= q.limit * Wide

\* What it must have found.
Matching(q) == Readable(q, Sums) \cap Textual \cap q.whole

Complete(q) ==
    q.tool = "hybrid" =>
        /\ q.whole \subseteq rows \cap fts \cap Sums
        /\ Few(q) /\ q.pc = "hydrate" => Matching(q) \subseteq q.ids
        /\ Few(q) /\ q.pc \in {"embed", "knn", "join", "pack", "rerank"} =>
               OfKinds(q, Matching(q)) \subseteq q.hits
        /\ q.pc = "rerank" /\ q.packed => q.ids = q.hits

\* The scope of a call about a session holds conversations of that session only,
\* and all the rows that are surely its own.
Resolved(q) ==
    /\ q.keys \subseteq {KeyOf[c] : c \in q.scope} \ {NoKey}
    /\ q.who # NoKey =>
           /\ \A c \in q.scope : c \in Convs /\ OfSession(q.who, c)
           /\ \A x \in q.whole : Belongs(q.who, ConvOf[x]) => InScope(q, x)

\* What a search through the rows S must find.
Found(q, S) == Readable(q, S) \cap Textual \cap q.whole

Thorough(q) ==
    /\ q.tool = "regex" => q.whole \subseteq rows
    /\ q.tool = "verbatim" => q.whole \subseteq rows \cap fts \cap Msgs
    /\ q.tool = "regex" /\ q.pc = "summaries" /\ Cardinality(q.hits) < q.limit =>
           Found(q, Msgs) \subseteq q.hits

\* A later page begins no later than where the one before it ended, and the count
\* it is measured by is that of the messages visible at its call.
Paging(q) ==
    q.tool = "describe" =>
        /\ q.offset > 0 => page # NoPage /\ page.leaf = q.id /\ q.offset <= page.next
        /\ q.pc = "fetch" /\ q.gone = dead =>
               q.count = Cardinality(VisibleSources(q.id))

CallOk(q) ==
    /\ CallTyped(q) /\ Unburied(q) /\ InBounds(q) /\ Complete(q)
    /\ Resolved(q) /\ Thorough(q) /\ Paging(q)

\* The first n visible messages of a leaf.
Leading(l, n) == {m \in VisibleSources(l) : Rank(VisibleSources(l), m) < n}

PageTyped ==
    /\ DOMAIN page = {"leaf", "next", "shown", "cut", "left"}
    /\ page.leaf \in Leaves \cap rows
    /\ page.next \in Nat

PageSeen ==
    /\ Leading(page.leaf, page.next) \subseteq page.shown
    /\ page.left <= 0 => VisibleSources(page.leaf) \subseteq page.shown

PageOk == page # NoPage => PageTyped /\ (~page.cut => PageSeen)

AnswerOk == NothingBuried /\ ScopeHonoured /\ HybridHonest

IInv == StoreTyped /\ (req # Idle => CallOk(req)) /\ PageOk /\ AnswerOk

-----------------------------------------------------------------------------
(***************************************************************************)
(* Lemmas about the statements.                                            *)
(***************************************************************************)

\* The rows of a table are finitely many.
LEMMA Finite ==
    ASSUME NEW S, S \subseteq Rows
    PROVE  IsFiniteSet(S) /\ Cardinality(S) \in Nat
BY ReadsAssumption, FS_Subset, FS_CardinalityType

\* A part of the rows that is not all of them is smaller.
LEMMA Smaller ==
    ASSUME NEW S, S \subseteq Rows, NEW T, T \subseteq S
    PROVE  /\ Cardinality(T) <= Cardinality(S)
           /\ Cardinality(S) = Cardinality(T) => S = T
BY Finite, FS_Subset

\* A ranking that is not full is everything.
LEMMA AnyOfAll ==
    ASSUME NEW S, S \subseteq Rows, NEW n \in Nat, NEW T \in AnyOf(S, n)
    PROVE  /\ T \subseteq S
           /\ Cardinality(S) <= n => T = S
           /\ Cardinality(T) < n => T = S
<1>1. T \subseteq S /\ Cardinality(T) = IF n < Cardinality(S) THEN n ELSE Cardinality(S)
    BY DEF AnyOf
<1>2. Cardinality(S) \in Nat /\ (Cardinality(S) = Cardinality(T) => S = T)
    BY <1>1, Finite, Smaller
<1> QED
    BY <1>1, <1>2

\* LIMIT cuts nothing off that fits.
LEMMA NewestAll ==
    ASSUME NEW S, S \subseteq Rows, NEW n \in Nat
    PROVE  /\ Newest(S, n) \subseteq S
           /\ Cardinality(S) <= n => S \subseteq Newest(S, n)
<1>1. ASSUME Cardinality(S) <= n, NEW x \in S PROVE x \in Newest(S, n)
    <2> DEFINE T == {y \in S : Age[y] > Age[x]}
    <2>1. x \notin T /\ T \subseteq S
        BY ReadsAssumption
    <2> HIDE DEF T
    <2>2. T # S
        BY <2>1
    <2>3. T \subseteq Rows
        BY <2>1
    <2>4. Cardinality(T) <= Cardinality(S) /\ Cardinality(S) # Cardinality(T)
        BY <2>1, <2>2, Smaller
    <2>5. Cardinality(T) \in Nat /\ Cardinality(S) \in Nat
        BY <2>3, Finite
    <2>6. Cardinality(T) < n
        BY <1>1, <2>4, <2>5
    <2> QED
        BY <2>6 DEF Newest, T
<1>2. Newest(S, n) \subseteq S
    BY DEF Newest
<1> QED
    BY <1>1, <1>2

\* LIMIT cuts nothing off when fewer are left than it admits: the newest row that
\* is cut off would have fewer than LIMIT rows before it.
LEMMA NewestFull ==
    ASSUME NEW S, S \subseteq Rows, NEW n \in Nat, Cardinality(Newest(S, n)) < n
    PROVE  S \subseteq Newest(S, n)
<1> DEFINE N == Newest(S, n)
           After(x) == {y \in S : Age[y] > Age[x]}
           ages == {Cardinality(After(x)) : x \in S \ N}
<1>1. SUFFICES ASSUME S \ N # {} PROVE FALSE
    OBVIOUS
<1>2. \A x \in S : After(x) \subseteq Rows /\ Cardinality(After(x)) \in Nat
    <2>1. ASSUME NEW x \in S PROVE After(x) \subseteq Rows
        OBVIOUS
    <2> QED
        BY <2>1, Finite
<1>3. N \subseteq S /\ \A x \in S : x \in N <=> Cardinality(After(x)) < n
    BY DEF Newest
<1> HIDE DEF N, After
<1>4. ages \subseteq Nat /\ ages # {}
    BY <1>1, <1>2, <1>3
<1>5. PICK k \in ages : \A j \in ages : ~(<<j, k>> \in OpToRel(<, Nat))
    <2> HIDE DEF ages
    <2> QED
        BY <1>4, NatLessThanWellFounded, WFMin
<1>6. ASSUME NEW j \in ages PROVE k <= j
    <2> HIDE DEF ages
    <2>1. j \in Nat /\ k \in Nat
        BY <1>4
    <2>2. ASSUME j < k PROVE FALSE
        <3>1. <<j, k>> \in Nat \X Nat /\ <<j, k>>[1] < <<j, k>>[2]
            BY <2>1, <2>2
        <3>2. <<j, k>> \in OpToRel(<, Nat)
            BY <3>1 DEF OpToRel
        <3> QED
            BY <1>5, <3>2
    <2> QED
        BY <2>1, <2>2
<1>7. PICK x \in S \ N : k = Cardinality(After(x))
    OBVIOUS
<1>8. After(x) \subseteq N
    <2>1. SUFFICES ASSUME NEW y \in After(x), y \notin N PROVE FALSE
        OBVIOUS
    <2>2. y \in S /\ Age[y] > Age[x] /\ Age[x] \in Nat /\ Age[y] \in Nat
        BY <2>1, ReadsAssumption DEF After
    <2>3. k <= Cardinality(After(y))
        BY <1>6, <2>1, <2>2
    <2>4. /\ After(y) \subseteq After(x) /\ y \in After(x) /\ y \notin After(y)
          /\ After(x) \subseteq Rows
        <3>1. \A z \in S : Age[z] \in Nat
            BY ReadsAssumption
        <3> QED
            BY <2>2, <3>1 DEF After
    <2>5. /\ Cardinality(After(y)) <= Cardinality(After(x))
          /\ Cardinality(After(y)) # Cardinality(After(x))
        BY <2>4, Smaller
    <2> QED
        BY <1>2, <1>7, <2>2, <2>3, <2>5
<1>9. Cardinality(After(x)) <= Cardinality(N) /\ Cardinality(N) \in Nat
    BY <1>3, <1>8, Smaller, Finite
<1>10. Cardinality(After(x)) < n
    BY <1>2, <1>7, <1>9 DEF N
<1> QED
    BY <1>3, <1>7, <1>10

\* The arguments of a call stay, and so does what they admit.
SameCall(q, r) ==
    /\ DOMAIN r = Fields
    /\ r.who = q.who
    /\ r.tool = q.tool /\ r.scope = q.scope /\ r.all = q.all /\ r.keys = q.keys
    /\ r.limit = q.limit /\ r.since = q.since /\ r.kinds = q.kinds
    /\ r.gone = q.gone /\ r.whole = q.whole

LEMMA SameScope ==
    ASSUME NEW q, NEW r, SameCall(q, r)
    PROVE  /\ \A x : InScope(r, x) <=> InScope(q, x)
           /\ \A S : Within(r, S) <=> Within(q, S)
           /\ \A S : Readable(r, S) = Readable(q, S)
           /\ Candidates(r) = Candidates(q)
           /\ Few(r) <=> Few(q)
           /\ Matching(r) = Matching(q)
           /\ \A S : Found(r, S) = Found(q, S)
           /\ \A S : OfKinds(r, S) = OfKinds(q, S)
<1>1. \A x : InScope(r, x) <=> InScope(q, x)
    BY DEF SameCall, InScope
<1>2. \A S : Within(r, S) <=> Within(q, S)
    BY <1>1 DEF SameCall, Within
<1>3. \A S : Readable(r, S) = Readable(q, S)
    BY <1>1 DEF SameCall, Readable
<1>4. Candidates(r) = Candidates(q)
    BY <1>1 DEF SameCall, Candidates
<1>5. Few(r) <=> Few(q)
    BY <1>4 DEF SameCall, Few
<1>6. Matching(r) = Matching(q)
    BY <1>3 DEF SameCall, Matching
<1>7. \A S : OfKinds(r, S) = OfKinds(q, S)
    BY DEF SameCall, OfKinds
<1>8. \A S : Found(r, S) = Found(q, S)
    BY <1>3 DEF SameCall, Found
<1> QED
    BY <1>1, <1>2, <1>3, <1>4, <1>5, <1>6, <1>7, <1>8

\* What the searches of the stores return is visible and in scope, and the
\* search of the keyword arm misses nothing when it is not cut off.
LEMMA SearchSound ==
    ASSUME StoreTyped, NEW q, NEW n \in Nat
    PROVE  /\ \A T \in SearchMessages(q, n) : T \subseteq Readable(q, Msgs)
           /\ \A T \in SearchSummaries(q, n) : T \subseteq Readable(q, Sums)
           /\ \A T \in VerbatimRows(q) : q.limit \in Nat => T \subseteq Readable(q, Msgs)
<1>1. \A S : Readable(q, S) \subseteq Rows
    BY DEF StoreTyped, Readable, Visible
<1>2. ASSUME NEW S, S \subseteq Rows, NEW k \in Nat
      PROVE  Newest(S, k) \subseteq S /\ \A T \in AnyOf(S, k) : T \subseteq S
    BY <1>2 DEF Newest, AnyOf
<1>3. \A T \in SearchMessages(q, n) : T \subseteq Readable(q, Msgs)
    BY <1>1, <1>2 DEF SearchMessages, MessagesRegex, MessagesFullText, MessagesLike
<1>4. \A T \in SearchSummaries(q, n) : T \subseteq Readable(q, Sums)
    BY <1>1, <1>2 DEF SearchSummaries, SummariesRegex, SummariesFullText, SummariesLike,
                      SummariesTrigram, SummariesLikeCjk
<1>5. \A T \in VerbatimRows(q) : q.limit \in Nat => T \subseteq Readable(q, Msgs)
    BY <1>1, <1>2 DEF VerbatimRows
<1> QED
    BY <1>3, <1>4, <1>5

\* The search of the keyword arm finds all there is unless it is cut off.
LEMMA SearchComplete ==
    ASSUME StoreTyped, NEW q, NEW n \in Nat, q.tool = "hybrid", q.whole \subseteq fts,
           q.gone \subseteq dead, Cardinality(Candidates(q)) <= n,
           NEW T \in SearchSummaries(q, n)
    PROVE  Matching(q) \subseteq T
<1> DEFINE S == Readable(q, Sums) \cap Textual
           F == S \cap fts
<1>1. /\ Candidates(q) \subseteq Rows
      /\ S \subseteq Candidates(q)
      /\ F \subseteq S
      /\ Matching(q) \subseteq F
    BY DEF StoreTyped, Readable, Visible, Candidates, Matching
<1>2. T \in AnyOf(F, n) \/ T = Newest(S, n)
    BY DEF SearchSummaries, SummariesFullText, SummariesLike, SummariesTrigram,
           SummariesLikeCjk
<1> HIDE DEF S, F
<1>3. S \subseteq Rows /\ F \subseteq Rows
    BY <1>1
<1>4. Cardinality(S) <= Cardinality(Candidates(q)) /\ Cardinality(F) <= Cardinality(S)
    BY <1>1, <1>3, Smaller
<1>5. Cardinality(S) \in Nat /\ Cardinality(F) \in Nat /\ Cardinality(Candidates(q)) \in Nat
    BY <1>1, <1>3, Finite
<1>6. Cardinality(S) <= n /\ Cardinality(F) <= n
    BY <1>4, <1>5
<1>7. CASE T \in AnyOf(F, n)
    BY <1>1, <1>3, <1>6, <1>7, AnyOfAll
<1>8. CASE T = Newest(S, n)
    BY <1>1, <1>3, <1>6, <1>8, NewestAll
<1> QED
    BY <1>2, <1>7, <1>8

\* A search in mode regex or verbatim that returns fewer rows than asked for has
\* found all there is.
LEMMA SearchThorough ==
    ASSUME StoreTyped, NEW q, q.limit \in Nat, Thorough(q), NEW T, Cardinality(T) < q.limit
    PROVE  /\ q.tool = "regex" /\ T \in SearchMessages(q, q.limit) => Found(q, Msgs) \subseteq T
           /\ q.tool = "regex" /\ T \in SearchSummaries(q, q.limit) => Found(q, Sums) \subseteq T
           /\ q.tool = "verbatim" /\ T \in VerbatimRows(q) => Found(q, Rows) \subseteq T
<1> DEFINE M == Readable(q, Msgs) \cap Textual
           S == Readable(q, Sums) \cap Textual
           I == M \cap fts
<1>1. M \subseteq Rows /\ S \subseteq Rows /\ I \subseteq Rows
    BY DEF StoreTyped, Readable, Visible
<1>2. ASSUME NEW U, U \subseteq Rows, T = Newest(U, q.limit) PROVE U \subseteq T
    BY <1>2, NewestFull
<1>3. ASSUME q.tool = "regex", T \in SearchMessages(q, q.limit) PROVE Found(q, Msgs) \subseteq T
    <2>1. T = Newest(M, q.limit)
        BY <1>3 DEF SearchMessages, MessagesRegex
    <2>2. Found(q, Msgs) \subseteq M
        BY DEF Found
    <2> HIDE DEF M
    <2> QED
        BY <1>1, <1>2, <2>1, <2>2
<1>4. ASSUME q.tool = "regex", T \in SearchSummaries(q, q.limit) PROVE Found(q, Sums) \subseteq T
    <2>1. T = Newest(S, q.limit)
        BY <1>4 DEF SearchSummaries, SummariesRegex
    <2>2. Found(q, Sums) \subseteq S
        BY DEF Found
    <2> HIDE DEF S
    <2> QED
        BY <1>1, <1>2, <2>1, <2>2
<1>5. ASSUME q.tool = "verbatim", T \in VerbatimRows(q) PROVE Found(q, Rows) \subseteq T
    <2>1. T = Newest(I, q.limit) \/ T = Newest(M, q.limit)
        BY <1>5 DEF VerbatimRows
    <2>2. Found(q, Rows) \subseteq I /\ I \subseteq M
        BY <1>5 DEF Found, Thorough, Readable
    <2> HIDE DEF I, M
    <2> QED
        BY <1>1, <1>2, <2>1, <2>2
<1> QED
    BY <1>3, <1>4, <1>5

\* LIMIT k OFFSET o.
Slice(S, o, k) == {m \in S : Rank(S, m) \in o .. o + k - 1}

\* A window of LIMIT rows from OFFSET: it holds no more than LIMIT rows, and when
\* it and what precedes it are as many as there are, nothing comes after it.
LEMMA WindowLast ==
    ASSUME NEW S, S \subseteq Rows, NEW o \in Nat, NEW k \in Nat \ {0},
           NEW W, W = Slice(S, o, k)
    PROVE  /\ Cardinality(W) \in Nat
           /\ Cardinality(W) <= k
           /\ \A m \in S : Rank(S, m) \in Nat
           /\ Cardinality(S) - (o + Cardinality(W)) <= 0 => \A m \in S : Rank(S, m) < o + k
<1>1. ASSUME NEW m \in S PROVE Rank(S, m) \in Nat /\ Rank(S, m) < Cardinality(S)
    <2> DEFINE B == {i \in S : Age[i] < Age[m]}
    <2>1. B \subseteq S /\ B # S /\ B \subseteq Rows
        BY ReadsAssumption
    <2> HIDE DEF B
    <2>2. Cardinality(B) <= Cardinality(S) /\ Cardinality(S) # Cardinality(B)
        BY <2>1, Smaller
    <2>3. Cardinality(B) \in Nat /\ Cardinality(S) \in Nat
        BY <2>1, Finite
    <2>4. Cardinality(B) < Cardinality(S)
        BY <2>2, <2>3
    <2>5. Rank(S, m) = Cardinality(B)
        BY DEF Rank, B
    <2> QED
        BY <2>3, <2>4, <2>5
<1>2. ASSUME NEW x \in S, NEW y \in S, Age[x] < Age[y] PROVE Rank(S, x) # Rank(S, y)
    <2> DEFINE A == {i \in S : Age[i] < Age[x]}
               B == {i \in S : Age[i] < Age[y]}
    <2>1. Age[x] \in Nat /\ Age[y] \in Nat /\ \A i \in S : Age[i] \in Nat
        BY ReadsAssumption
    <2>2. A \subseteq B /\ x \in B /\ x \notin A /\ B \subseteq Rows
        BY <1>2, <2>1
    <2>3. Rank(S, x) = Cardinality(A) /\ Rank(S, y) = Cardinality(B)
        BY DEF Rank
    <2> HIDE DEF A, B
    <2>4. Cardinality(B) = Cardinality(A) => B = A
        BY <2>2, Smaller
    <2> QED
        BY <2>2, <2>3, <2>4
<1>3. ASSUME NEW x \in S, NEW y \in S, Rank(S, x) = Rank(S, y) PROVE x = y
    <2>1. Age[x] \in Nat /\ Age[y] \in Nat /\ (x # y => Age[x] # Age[y])
        BY ReadsAssumption
    <2>2. ~(Age[x] < Age[y]) /\ ~(Age[y] < Age[x])
        BY <1>2, <1>3
    <2> QED
        BY <2>1, <2>2
<1>4. W \subseteq S /\ W \subseteq Rows /\ \A m \in W : Rank(S, m) \in o .. o + k - 1
    BY DEF Slice
<1>5. IsFiniteSet(W) /\ Cardinality(W) \in Nat
    BY <1>4, Finite
<1>6. Cardinality(W) <= k
    <2> DEFINE f == [m \in W |-> Rank(S, m)]
               I == o .. o + k - 1
    <2>1. f \in Injection(W, I)
        <3>1. f \in [W -> I] /\ \A x \in W : f[x] = Rank(S, x)
            BY <1>4
        <3>2. \A x, y \in W : f[x] = f[y] => x = y
            BY <1>3, <1>4, <3>1
        <3> HIDE DEF f, I
        <3> QED
            BY <3>1, <3>2 DEF Injection, IsInjective
    <2>2. IsFiniteSet(I) /\ Cardinality(I) = k
        <3>1. o \in Int /\ o + k - 1 \in Int
            OBVIOUS
        <3>2. /\ IsFiniteSet(I)
              /\ Cardinality(I) = IF o > o + k - 1 THEN 0 ELSE o + k - 1 - o + 1
            BY <3>1, FS_Interval
        <3> QED
            BY <3>2
    <2> HIDE DEF f, I
    <2> QED
        BY <2>1, <2>2, FS_Injection
<1>7. Cardinality(S) \in Nat
    BY Finite
<1>8. ASSUME Cardinality(S) - (o + Cardinality(W)) <= 0, NEW m \in S
      PROVE  Rank(S, m) < o + k
    BY <1>1, <1>5, <1>6, <1>7, <1>8
<1> QED
    BY <1>1, <1>5, <1>6, <1>8

-----------------------------------------------------------------------------
(***************************************************************************)
(* Steps of the tools.                                                     *)
(***************************************************************************)

\* Before the first call.
LEMMA InvInit == Init => IInv
<1> SUFFICES ASSUME Init PROVE IInv
    OBVIOUS
<1>1. /\ rows = Rows \ Late /\ dead = {} /\ req = Idle /\ ans = NoAnswer /\ page = NoPage
      /\ convs = Convs \ LateConvs /\ active = convs
    BY DEF Init
<1>2. StoreTyped
    BY <1>1, ReadsAssumption DEF StoreTyped, ConvsTyped, Rows
<1>3. PageOk /\ AnswerOk
    BY <1>1 DEF PageOk, AnswerOk, NothingBuried, ScopeHonoured, HybridHonest, Answered
<1> QED
    BY <1>1, <1>2, <1>3 DEF IInv

\* What was said of the answer is said as long as neither it nor the store changes.
LEMMA AnswerStays ==
    ASSUME AnswerOk, rows' = rows, dead' = dead, convs' = convs, ans' = ans
    PROVE  AnswerOk'
<1>1. NothingBuried'
    BY DEF AnswerOk, NothingBuried, Answered
<1>2. ScopeHonoured'
    BY DEF AnswerOk, ScopeHonoured, Answered, Visible, Belongs, OfSession, Unrestricted
<1>3. HybridHonest'
    BY DEF AnswerOk, HybridHonest, Answered, Candidates, Readable, Visible, InScope
<1> QED
    BY <1>1, <1>2, <1>3 DEF AnswerOk

\* A statement whose result the call keeps.
LEMMA GotoStep ==
    ASSUME IInv, NEW r, req' = r, UNCHANGED <<store, ans, page>>, CallOk(r)
    PROVE  IInv'
<1>1. /\ rows' = rows /\ dead' = dead /\ fts' = fts /\ ans' = ans /\ page' = page
      /\ convs' = convs /\ active' = active
    BY DEF store
<1>2. StoreTyped'
    BY <1>1 DEF IInv, StoreTyped, ConvsTyped
<1>3. CallOk(r)'
    <2>1. Resolved(r)' /\ Thorough(r)'
        BY <1>1 DEF CallOk, Resolved, Thorough, Belongs, OfSession, InScope, Found, Readable,
                    Visible
    <2> QED
        BY <1>1, <2>1 DEF CallOk, CallTyped, Unburied, InBounds, Within, InScope, Complete, Few,
                Candidates, Matching, Readable, Visible, OfKinds, Paging, VisibleSources
<1>4. PageOk'
    BY <1>1 DEF IInv, PageOk, PageTyped, PageSeen, Leading, Rank, VisibleSources, Visible
<1>5. AnswerOk'
    BY <1>1, AnswerStays DEF IInv
<1> QED
    BY <1>2, <1>3, <1>4, <1>5 DEF IInv

\* What is shown of a hybrid call.
Honest(q, shown) ==
    q.tool = "hybrid" /\ shown # {} /\ q.packed /\ Cardinality(shown) < q.limit /\ Few(q) =>
        OfKinds(q, Matching(q)) \subseteq shown

\* What is shown of a call in mode regex or verbatim.
Reached(q, shown) ==
    q.tool \in {"regex", "verbatim"} /\ Cardinality(shown) < q.limit =>
        Found(q, Rows) \subseteq shown

\* The answer to the call, when the page is what it should be.
LEMMA ReplyStep ==
    ASSUME IInv, req # Idle, NEW shown, Reply(shown), PageOk',
           \A x \in shown : x \notin req.gone,
           Within(req, shown \cap Rows),
           req.tool = "semantic" => \A x \in shown : InSession(req, x),
           Reached(req, shown),
           Honest(req, shown)
    PROVE  IInv'
<1> DEFINE q == [req EXCEPT !.pc = "idle", !.id = NoId, !.offset = 0,
                            !.ids = {}, !.hits = {}, !.count = 0]
<1>1. /\ rows' = rows /\ dead' = dead /\ fts' = fts
      /\ convs' = convs /\ active' = active
      /\ ans' = [shown |-> shown, q |-> q]
      /\ req' = Idle
    BY DEF Reply, store
<1>2. DOMAIN req = Fields /\ Resolved(req) /\ StoreTyped
    BY DEF IInv, CallOk, CallTyped
<1>3. SameCall(req, q) /\ q.packed = req.packed
    BY <1>2 DEF SameCall, Fields
<1> HIDE DEF q
<1>4. ans'.shown = shown /\ ans'.q = q
    BY <1>1
<1>5. StoreTyped'
    BY <1>1, <1>2 DEF StoreTyped, ConvsTyped
<1>6. NothingBuried'
    BY <1>3, <1>4 DEF NothingBuried, SameCall
<1>7. ScopeHonoured'
    <2>1. Within(q, shown \cap Rows) /\ Found(q, Rows) = Found(req, Rows)
        BY <1>3, SameScope
    <2>2. ASSUME ~q.all, q.tool \in Greps \cup {"describe"}, NEW x \in shown \cap Rows,
                 q.tool # "semantic"
          PROVE  ConvOf[x] \in q.scope
        BY <2>1, <2>2 DEF Within, InScope, Greps, ScopedTools
    <2>3. /\ q.keys \subseteq {KeyOf[c] : c \in q.scope} \ {NoKey}
          /\ q.who # NoKey => \A c \in q.scope : c \in Convs /\ OfSession(q.who, c)
          /\ q.who # NoKey => \A x \in q.whole : Belongs(q.who, ConvOf[x]) => InScope(q, x)
        BY <1>2, <1>3 DEF Resolved, SameCall, InScope
    <2>4. ASSUME ~q.all, q.tool \in Greps \cup {"describe"}, NEW x \in shown \cap Rows,
                 q.who # NoKey, ~Unrestricted(q)
          PROVE  OfSession(q.who, ConvOf[x])
        <3>1. CASE q.tool # "semantic"
            BY <2>2, <2>3, <2>4, <3>1
        <3>2. CASE q.tool = "semantic"
            <4>1. InSession(req, x) /\ req.keys = q.keys /\ req.all = q.all
                BY <1>3, <3>2 DEF SameCall
            <4>2. KeyOf[ConvOf[x]] \in q.keys
                BY <2>4, <3>2, <4>1 DEF InSession, Unrestricted
            <4>3. PICK c \in q.scope : KeyOf[c] = KeyOf[ConvOf[x]] /\ KeyOf[c] # NoKey
                BY <2>3, <4>2
            <4> QED
                BY <2>3, <2>4, <4>3 DEF OfSession
        <3> QED
            BY <3>1, <3>2
    <2>5. ASSUME q.who # NoKey, q.tool \in {"regex", "verbatim"}, Cardinality(shown) < q.limit,
                 NEW x \in Visible \cap Textual \cap q.whole,
                 Age[x] >= q.since, Belongs(q.who, ConvOf[x])
          PROVE  x \in shown
        <3>1. Found(q, Rows) \subseteq shown
            BY <1>3, <2>1, <2>5 DEF Reached, SameCall
        <3>2. x \in Rows /\ InScope(q, x)
            BY <1>2, <2>3, <2>5 DEF StoreTyped, Visible
        <3> QED
            BY <2>5, <3>1, <3>2 DEF Found, Readable
    <2>6. Visible' = Visible
        BY <1>1 DEF Visible
    <2>7. /\ ans.q' = q /\ ans.shown' = shown
          /\ \A x : Belongs(ans.q.who, ConvOf[x])' <=> Belongs(q.who, ConvOf[x])
          /\ Unrestricted(ans.q)' <=> Unrestricted(q)
        BY <1>1, <1>4 DEF Belongs, Unrestricted
    <2> QED
        BY <2>2, <2>4, <2>5, <2>6, <2>7 DEF ScopeHonoured, OfSession
<1>8. HybridHonest'
    <2>1. Honest(q, shown)
        <3>1. /\ Few(q) <=> Few(req)
              /\ Matching(q) = Matching(req)
              /\ OfKinds(q, Matching(req)) = OfKinds(req, Matching(req))
            BY <1>3, SameScope
        <3> QED
            BY <1>3, <3>1 DEF Honest, SameCall
    <2>2. Few(q) <=> Cardinality(Candidates(q)) <= q.limit * Wide
        BY DEF Few
    <2>3. Candidates(ans.q)' = Candidates(q)
        BY <1>1, <1>4 DEF Candidates, InScope
    <2>4. Readable(ans.q, Sums)' = Readable(q, Sums)
        BY <1>1, <1>4 DEF Readable, Visible, InScope
    <2>5. OfKinds(q, Matching(q)) =
              {s \in Readable(q, Sums) \cap Textual \cap q.whole : q.kinds # {} => s \in q.kinds}
        BY DEF OfKinds, Matching
    <2> QED
        BY <1>4, <2>1, <2>2, <2>3, <2>4, <2>5 DEF HybridHonest, Honest
<1> QED
    BY <1>1, <1>5, <1>6, <1>7, <1>8 DEF IInv, AnswerOk

\* The page is not touched.
LEMMA PageStays ==
    ASSUME IInv, UNCHANGED <<store, page>>
    PROVE  PageOk'
BY DEF IInv, store, PageOk, PageTyped, PageSeen, Leading, Rank, VisibleSources, Visible

\* What is visible now was not purged before the call.
LEMMA VisibleUnburied ==
    ASSUME IInv, req # Idle
    PROVE  /\ \A x \in Visible : x \notin req.gone /\ x \in Rows
           /\ \A S : \A x \in Readable(req, S) : InScope(req, x) /\ x \in Visible
BY DEF IInv, StoreTyped, CallOk, Unburied, Visible, Readable

\* The call goes on: its arguments stay, and what it now holds is as it should be.
LEMMA Carried ==
    ASSUME IInv, req # Idle, NEW r, SameCall(req, r),
           r.id = req.id, r.offset = req.offset,
           r.hits \subseteq Rows, r.ids \subseteq Rows,
           \A x \in r.hits \cup r.ids : x \notin req.gone,
           Within(req, r.hits),
           r.pc \in {"hydrate", "rows", "rerank"} => Within(req, r.ids),
           req.tool = "describe" =>
               /\ r.id \in Sums \cap rows /\ InScope(req, r.id)
               /\ r.pc \in {"count", "fetch"} => r.id \in Leaves
               /\ r.pc = "fetch" => r.count = Cardinality(VisibleSources(r.id)),
           req.tool = "hybrid" /\ Few(req) =>
               /\ r.pc = "hydrate" => Matching(req) \subseteq r.ids
               /\ r.pc \in {"embed", "knn", "join", "pack", "rerank"} =>
                      OfKinds(req, Matching(req)) \subseteq r.hits,
           req.tool = "hybrid" /\ r.pc = "rerank" /\ r.packed => r.ids = r.hits,
           req.tool = "regex" /\ r.pc = "summaries" /\ Cardinality(r.hits) < r.limit =>
               Found(req, Msgs) \subseteq r.hits
    PROVE  CallOk(r)
<1>1. /\ CallTyped(req) /\ Unburied(req) /\ Complete(req) /\ Paging(req)
      /\ Resolved(req) /\ Thorough(req)
    BY DEF IInv, CallOk
<1>2. CallTyped(r)
    BY <1>1 DEF CallTyped, SameCall
<1>3. Unburied(r)
    BY <1>1 DEF Unburied, SameCall
<1>4. /\ InScope(r, r.id) <=> InScope(req, r.id)
      /\ Within(r, r.hits) <=> Within(req, r.hits)
      /\ Within(r, r.ids) <=> Within(req, r.ids)
      /\ Few(r) <=> Few(req)
      /\ Matching(r) = Matching(req)
      /\ OfKinds(r, Matching(req)) = OfKinds(req, Matching(req))
      /\ Found(r, Msgs) = Found(req, Msgs)
      /\ \A x : InScope(r, x) <=> InScope(req, x)
    BY SameScope
<1>5. r.tool = req.tool /\ r.whole = req.whole
    BY DEF SameCall
<1>9. Resolved(r)
    BY <1>1, <1>4 DEF Resolved, SameCall
<1>10. Thorough(r)
    BY <1>1, <1>4, <1>5 DEF Thorough
<1>6. InBounds(r)
    BY <1>4, <1>5 DEF InBounds
<1>7. Complete(r)
    BY <1>1, <1>4, <1>5 DEF Complete
<1>8. Paging(r)
    BY <1>1, <1>5 DEF Paging
<1> QED
    BY <1>2, <1>3, <1>6, <1>7, <1>8, <1>9, <1>10 DEF CallOk

\* search_messages of lcm_grep.
LEMMA GrepMessagesKeeps ==
    ASSUME IInv, GrepMessages
    PROVE  IInv'
<1>1. req # Idle /\ req.tool \in {"regex", "full_text"}
    BY DEF GrepMessages, At
<1>2. CallTyped(req) /\ Unburied(req) /\ Thorough(req) /\ StoreTyped
    BY <1>1 DEF IInv, CallOk
<1>3. PICK found \in SearchMessages(req, req.limit) :
          Goto([req EXCEPT !.hits = found], "summaries")
    BY DEF GrepMessages
<1> DEFINE r == [[req EXCEPT !.hits = found] EXCEPT !.pc = "summaries"]
<1>4. req' = r /\ UNCHANGED <<store, ans, page>>
    BY <1>3 DEF Goto
<1>5. /\ SameCall(req, r) /\ r.id = req.id /\ r.offset = req.offset
      /\ r.hits = found /\ r.ids = req.ids /\ r.pc = "summaries"
    BY <1>2 DEF CallTyped, SameCall, Fields
<1> HIDE DEF r
<1>6. found \subseteq Readable(req, Msgs)
    BY <1>2, SearchSound DEF CallTyped
<1>7. \A x \in found : x \in Rows /\ x \notin req.gone /\ InScope(req, x)
    BY <1>1, <1>6, VisibleUnburied
<1>8. r.limit = req.limit /\ req.limit \in Nat
    BY <1>2, <1>5 DEF SameCall, CallTyped
<1>9. req.tool = "regex" /\ Cardinality(r.hits) < r.limit => Found(req, Msgs) \subseteq r.hits
    BY <1>2, <1>5, <1>8, SearchThorough
<1>10. CallOk(r)
    BY <1>1, <1>2, <1>5, <1>7, <1>9, Carried DEF CallTyped, Unburied, Within
<1> QED
    BY <1>4, <1>10, GotoStep

\* fts_search of the hybrid mode.
LEMMA FtsSearchKeeps ==
    ASSUME IInv, FtsSearch
    PROVE  IInv'
<1>1. req # Idle /\ req.tool = "hybrid" /\ req.pc = "start"
    BY DEF FtsSearch, At
<1>2. CallTyped(req) /\ Unburied(req) /\ Complete(req) /\ InBounds(req) /\ StoreTyped
    BY <1>1 DEF IInv, CallOk
<1>3. PICK found \in SearchSummaries(req, req.limit * Wide) :
          Goto([req EXCEPT !.ids = found], "hydrate")
    BY DEF FtsSearch
<1> DEFINE r == [[req EXCEPT !.ids = found] EXCEPT !.pc = "hydrate"]
<1>4. req' = r /\ UNCHANGED <<store, ans, page>>
    BY <1>3 DEF Goto
<1>5. /\ SameCall(req, r) /\ r.id = req.id /\ r.offset = req.offset
      /\ r.hits = req.hits /\ r.ids = found /\ r.pc = "hydrate"
    BY <1>2 DEF CallTyped, SameCall, Fields
<1> HIDE DEF r
<1>6. req.limit * Wide \in Nat
    <2>1. req.limit \in Nat /\ Wide \in Nat
        BY <1>2, ReadsAssumption DEF CallTyped
    <2> QED
        BY <2>1
<1>7. found \subseteq Readable(req, Sums)
    BY <1>2, <1>6, SearchSound
<1>8. \A x \in found : x \in Rows /\ x \notin req.gone /\ InScope(req, x)
    BY <1>1, <1>7, VisibleUnburied
<1>9. ASSUME Few(req) PROVE Matching(req) \subseteq found
    <2>1. req.whole \subseteq fts /\ req.gone \subseteq dead
        BY <1>1, <1>2 DEF Complete, Unburied
    <2> QED
        BY <1>1, <1>2, <1>6, <1>9, <2>1, SearchComplete DEF Few
<1>10. CallOk(r)
    BY <1>1, <1>2, <1>5, <1>8, <1>9, Carried DEF CallTyped, Unburied, Within, InBounds
<1> QED
    BY <1>4, <1>10, GotoStep

\* The second statement of the keyword arm.
LEMMA FtsHydrateKeeps ==
    ASSUME IInv, FtsHydrate
    PROVE  IInv'
<1>1. req # Idle /\ req.tool = "hybrid" /\ req.pc = "hydrate"
    BY DEF FtsHydrate, At
<1>2. CallTyped(req) /\ Unburied(req) /\ Complete(req) /\ InBounds(req)
    BY <1>1 DEF IInv, CallOk
<1> DEFINE kept == OfKinds(req, req.ids \cap Visible)
           r == [[req EXCEPT !.hits = kept, !.ids = {}] EXCEPT !.pc = "embed"]
<1>3. req' = r /\ UNCHANGED <<store, ans, page>>
    BY DEF FtsHydrate, Goto
<1>4. /\ SameCall(req, r) /\ r.id = req.id /\ r.offset = req.offset
      /\ r.hits = kept /\ r.ids = {} /\ r.pc = "embed"
    BY <1>2 DEF CallTyped, SameCall, Fields
<1>5. kept \subseteq req.ids
    BY DEF OfKinds
<1>6. ASSUME Few(req) PROVE OfKinds(req, Matching(req)) \subseteq kept
    <2>1. Matching(req) \subseteq req.ids /\ Matching(req) \subseteq Visible
        BY <1>1, <1>2, <1>6 DEF Complete, Matching, Readable
    <2> QED
        BY <2>1 DEF OfKinds
<1> HIDE DEF r, kept
<1>7. \A x \in kept : x \in Rows /\ x \notin req.gone
    BY <1>2, <1>5 DEF CallTyped, Unburied
<1>8. Within(req, kept)
    BY <1>1, <1>2, <1>5 DEF InBounds, Within
<1>9. CallOk(r)
    BY <1>1, <1>4, <1>6, <1>7, <1>8, Carried
<1> QED
    BY <1>3, <1>9, GotoStep

\* The call waits for the embedding of the query, or goes on without it.
LEMMA EmbedKeeps ==
    ASSUME IInv, EmbedQuery \/ EmbedFails
    PROVE  IInv'
<1>1. /\ req # Idle /\ req.tool \in {"hybrid", "semantic"}
      /\ req.tool = "hybrid" => req.pc = "embed"
    BY DEF EmbedQuery, EmbedFails, At
<1>2. CallTyped(req) /\ Unburied(req) /\ Complete(req) /\ InBounds(req)
    BY <1>1 DEF IInv, CallOk
<1>3. ASSUME NEW pc \in {"knn", "pack"}, Goto(req, pc) PROVE IInv'
    <2> DEFINE r == [req EXCEPT !.pc = pc]
    <2>1. req' = r /\ UNCHANGED <<store, ans, page>>
        BY <1>3 DEF Goto
    <2>2. /\ SameCall(req, r) /\ r.id = req.id /\ r.offset = req.offset
          /\ r.hits = req.hits /\ r.ids = req.ids /\ r.pc = pc
        BY <1>2 DEF CallTyped, SameCall, Fields
    <2> HIDE DEF r
    <2>3. CallOk(r)
        BY <1>1, <1>2, <2>2, Carried DEF CallTyped, Unburied, InBounds, Complete
    <2> QED
        BY <2>1, <2>3, GotoStep
<1>4. ASSUME Reply({}), UNCHANGED page PROVE IInv'
    <2>1. UNCHANGED store
        BY <1>4 DEF Reply
    <2>2. PageOk'
        BY <1>4, <2>1, PageStays
    <2> QED
        BY <1>1, <1>4, <2>2, ReplyStep DEF Within, Honest, Reached
<1> QED
    BY <1>3, <1>4 DEF EmbedQuery, EmbedFails

\* search_similar: the ids are filtered by the join that follows.
LEMMA KnnKeeps ==
    ASSUME IInv, Knn
    PROVE  IInv'
<1>1. req # Idle /\ req.tool \in {"hybrid", "semantic"} /\ req.pc = "knn"
    BY DEF Knn, At
<1>2. CallTyped(req) /\ Unburied(req) /\ Complete(req) /\ InBounds(req)
    BY <1>1 DEF IInv, CallOk
<1> DEFINE near == SearchSimilar(req, req.limit)
           r == [[req EXCEPT !.ids = near] EXCEPT !.pc = "join"]
<1>3. req' = r /\ UNCHANGED <<store, ans, page>>
    BY DEF Knn, Goto
<1>4. /\ SameCall(req, r) /\ r.id = req.id /\ r.offset = req.offset
      /\ r.hits = req.hits /\ r.ids = near /\ r.pc = "join"
    BY <1>2 DEF CallTyped, SameCall, Fields
<1>5. near \subseteq Visible
    BY DEF SearchSimilar, Nearest, Visible
<1> HIDE DEF r, near
<1>6. \A x \in near : x \in Rows /\ x \notin req.gone
    BY <1>1, <1>5, VisibleUnburied
<1>7. CallOk(r)
    BY <1>1, <1>2, <1>4, <1>6, Carried DEF CallTyped, Unburied, InBounds, Complete
<1> QED
    BY <1>3, <1>7, GotoStep

\* The join with summaries and its filters.
LEMMA JoinKeeps ==
    ASSUME IInv, Join
    PROVE  IInv'
<1>1. req # Idle /\ req.pc = "join"
    BY DEF Join, At
<1>2. CallTyped(req) /\ Unburied(req) /\ Complete(req) /\ InBounds(req)
    BY <1>1 DEF IInv, CallOk
<1> DEFINE sem == SemJoin(req)
<1>3. \A x \in sem : x \in req.ids /\ Narrowed(req, x)
    BY DEF SemJoin, Nearest
<1> HIDE DEF sem
<1>4. \A x \in sem : x \in Rows /\ x \notin req.gone
    BY <1>2, <1>3 DEF CallTyped, Unburied
<1>5. CASE req.tool = "semantic" /\ Reply(sem) /\ UNCHANGED page
    <2>1. UNCHANGED store
        BY <1>5 DEF Reply
    <2>2. PageOk'
        BY <1>5, <2>1, PageStays
    <2>3. \A x \in sem : InSession(req, x)
        BY <1>3, <1>5 DEF Narrowed
    <2>4. Within(req, sem \cap Rows) /\ Honest(req, sem) /\ Reached(req, sem)
        BY <1>5 DEF Within, Honest, Reached, ScopedTools
    <2> QED
        BY <1>1, <1>4, <1>5, <2>2, <2>3, <2>4, ReplyStep
<1>6. CASE /\ req.tool = "hybrid"
           /\ Goto([req EXCEPT !.hits = @ \cup sem, !.ids = {}], "pack")
    <2> DEFINE r == [[req EXCEPT !.hits = req.hits \cup sem, !.ids = {}] EXCEPT !.pc = "pack"]
    <2>1. req' = r /\ UNCHANGED <<store, ans, page>>
        BY <1>2, <1>6 DEF Goto, CallTyped, Fields
    <2>2. /\ SameCall(req, r) /\ r.id = req.id /\ r.offset = req.offset
          /\ r.hits = req.hits \cup sem /\ r.ids = {} /\ r.pc = "pack"
        BY <1>2 DEF CallTyped, SameCall, Fields
    <2> HIDE DEF r
    <2>3. \A x \in sem : InScope(req, x)
        BY <1>3, <1>6 DEF Narrowed
    <2>4. Within(req, r.hits)
        BY <1>2, <2>2, <2>3 DEF InBounds, Within
    <2>5. r.hits \subseteq Rows /\ \A x \in r.hits \cup r.ids : x \notin req.gone
        BY <1>2, <1>4, <2>2 DEF CallTyped, Unburied
    <2>6. Few(req) => OfKinds(req, Matching(req)) \subseteq r.hits
        BY <1>1, <1>2, <1>6, <2>2 DEF Complete
    <2>7. CallOk(r)
        BY <1>1, <1>6, <2>2, <2>4, <2>5, <2>6, Carried
    <2> QED
        BY <2>1, <2>7, GotoStep
<1> QED
    BY <1>5, <1>6 DEF Join, sem

\* The pack for the reranker.
LEMMA PackKeeps ==
    ASSUME IInv, Pack
    PROVE  IInv'
<1>1. req # Idle /\ req.tool = "hybrid" /\ req.pc = "pack"
    BY DEF Pack, At
<1>2. CallTyped(req) /\ Unburied(req) /\ Complete(req) /\ InBounds(req)
    BY <1>1 DEF IInv, CallOk
<1>3. PICK kept \in SUBSET (req.hits \ Oversize) :
          Goto([req EXCEPT !.ids = kept, !.packed = (kept = req.hits)], "rerank")
    BY DEF Pack
<1> DEFINE fit == (kept = req.hits)
           r == [[req EXCEPT !.ids = kept, !.packed = fit] EXCEPT !.pc = "rerank"]
<1>11. req' = r /\ UNCHANGED <<store, ans, page>>
    BY <1>3 DEF Goto
<1>4. /\ SameCall(req, r) /\ r.id = req.id /\ r.offset = req.offset
      /\ r.hits = req.hits /\ r.ids = kept /\ r.pc = "rerank"
    BY <1>2 DEF CallTyped, SameCall, Fields
<1>5. r.packed => kept = req.hits
    BY <1>2 DEF CallTyped, Fields
<1> HIDE DEF r, fit
<1>6. r.packed => r.ids = r.hits
    BY <1>4, <1>5
<1>7. Within(req, r.hits) /\ Within(req, r.ids)
    BY <1>2, <1>4 DEF InBounds, Within
<1>8. /\ r.hits \subseteq Rows /\ r.ids \subseteq Rows
      /\ \A x \in r.hits \cup r.ids : x \notin req.gone
    BY <1>2, <1>4 DEF CallTyped, Unburied
<1>9. Few(req) => OfKinds(req, Matching(req)) \subseteq r.hits
    BY <1>1, <1>2, <1>4 DEF Complete
<1>10. CallOk(r)
    BY <1>1, <1>4, <1>6, <1>7, <1>8, <1>9, Carried
<1> QED
    BY <1>10, <1>11, GotoStep

\* The answer of the hybrid mode, from the reranker or without it.
LEMMA RerankKeeps ==
    ASSUME IInv, Rerank
    PROVE  IInv'
<1>1. req # Idle /\ req.tool = "hybrid" /\ req.pc = "rerank"
    BY DEF Rerank, At
<1>2. CallTyped(req) /\ Unburied(req) /\ Complete(req) /\ InBounds(req)
    BY <1>1 DEF IInv, CallOk
<1>3. PICK top : Reply(top) /\ (\/ top \in AnyOf(req.ids, req.limit)
                               \/ top \in AnyOf(req.hits, req.limit)
                               \/ top = {})
    BY DEF Rerank
<1>4. req.limit \in Nat /\ req.hits \subseteq Rows /\ req.ids \subseteq Rows
    BY <1>2 DEF CallTyped
<1>5. /\ \A x \in req.hits \cup req.ids : x \notin req.gone /\ InScope(req, x)
      /\ Few(req) => OfKinds(req, Matching(req)) \subseteq req.hits
      /\ req.packed => req.ids = req.hits
    BY <1>1, <1>2 DEF Unburied, InBounds, Within, ScopedTools, Complete
<1>6. top \subseteq req.hits \cup req.ids
    BY <1>3, <1>4, AnyOfAll
<1>7. Honest(req, top)
    <2>1. SUFFICES ASSUME top # {}, req.packed, Cardinality(top) < req.limit, Few(req)
                   PROVE  OfKinds(req, Matching(req)) \subseteq top
        BY DEF Honest
    <2>2. top \in AnyOf(req.hits, req.limit)
        BY <1>3, <1>5, <2>1
    <2>3. top = req.hits
        BY <1>4, <2>1, <2>2, AnyOfAll
    <2> QED
        BY <1>5, <2>1, <2>3
<1>8. Within(req, top \cap Rows) /\ Reached(req, top) /\ \A x \in top : x \notin req.gone
    BY <1>1, <1>5, <1>6 DEF Within, Reached
<1>9. PageOk'
    BY <1>3, PageStays DEF Rerank, Reply
<1> QED
    BY <1>1, <1>3, <1>7, <1>8, <1>9, ReplyStep

\* search_summaries and the answer of lcm_grep, and the verbatim mode.
LEMMA GrepAnswers ==
    ASSUME IInv, GrepSummaries \/ GrepVerbatim
    PROVE  IInv'
<1>1. req # Idle /\ req.tool \in {"regex", "full_text", "verbatim"}
    BY DEF GrepSummaries, GrepVerbatim, At
<1>2. CallTyped(req) /\ Unburied(req) /\ InBounds(req) /\ Thorough(req) /\ StoreTyped
    BY <1>1 DEF IInv, CallOk
<1>3. req.limit \in Nat /\ req.hits \subseteq Rows
    BY <1>2 DEF CallTyped
<1>4. PICK found :
          /\ \/ /\ req.pc = "summaries" /\ req.tool # "verbatim"
                /\ \E S \in SearchSummaries(req, req.limit) : found = req.hits \cup S
             \/ req.tool = "verbatim" /\ found \in VerbatimRows(req)
          /\ Reply(found)
    BY DEF GrepSummaries, GrepVerbatim, At
<1>5. \A x \in found : \/ x \in req.hits
                       \/ x \in Readable(req, Sums) \cup Readable(req, Msgs)
    BY <1>2, <1>3, <1>4, SearchSound
<1>6. \A x \in found : x \notin req.gone /\ InScope(req, x)
    BY <1>1, <1>2, <1>5, VisibleUnburied DEF Unburied, InBounds, Within, ScopedTools
<1>7. PageOk'
    BY <1>4, PageStays DEF GrepSummaries, GrepVerbatim, Reply
<1>8. Within(req, found \cap Rows) /\ Honest(req, found)
    BY <1>1, <1>6 DEF Within, Honest
<1>9. Reached(req, found)
    <2>1. SUFFICES ASSUME req.tool \in {"regex", "verbatim"}, Cardinality(found) < req.limit
                   PROVE  Found(req, Rows) \subseteq found
        BY DEF Reached
    <2>2. CASE req.tool = "verbatim"
        BY <1>2, <1>3, <1>4, <2>1, <2>2, SearchThorough
    <2>3. CASE req.tool = "regex"
        <3>1. PICK S \in SearchSummaries(req, req.limit) : found = req.hits \cup S
            BY <1>4, <2>3
        <3>2. S \subseteq Rows
            BY <1>2, <1>3, <3>1, SearchSound DEF Readable, Rows
        <3>3. found \subseteq Rows /\ S \subseteq found /\ req.hits \subseteq found
            BY <1>3, <3>1, <3>2
        <3>4. /\ Cardinality(S) <= Cardinality(found) /\ Cardinality(req.hits) <= Cardinality(found)
              /\ Cardinality(S) \in Nat /\ Cardinality(found) \in Nat
              /\ Cardinality(req.hits) \in Nat
            BY <1>3, <3>2, <3>3, Smaller, Finite
        <3>5. Cardinality(S) < req.limit /\ Cardinality(req.hits) < req.limit
            BY <1>3, <2>1, <3>4
        <3>6. Found(req, Sums) \subseteq S
            BY <1>2, <1>3, <2>3, <3>1, <3>5, SearchThorough
        <3>7. Found(req, Msgs) \subseteq req.hits
            BY <1>2, <1>4, <2>3, <3>5 DEF Thorough
        <3>8. Found(req, Rows) = Found(req, Msgs) \cup Found(req, Sums)
            BY DEF Found, Readable, Rows
        <3> QED
            BY <3>3, <3>6, <3>7, <3>8
    <2> QED
        BY <2>1, <2>2, <2>3
<1> QED
    BY <1>1, <1>4, <1>6, <1>7, <1>8, <1>9, ReplyStep

\* Rows of the same conversation are in the same scope.
LEMMA SameConversation ==
    ASSUME NEW q, NEW x, InScope(q, x), NEW y, ConvOf[y] = ConvOf[x]
    PROVE  InScope(q, y)
BY DEF InScope

\* _resolve_target.
LEMMA DescribeTargetKeeps ==
    ASSUME IInv, DescribeTarget
    PROVE  IInv'
<1>1. req # Idle /\ req.tool = "describe" /\ req.pc = "start"
    BY DEF DescribeTarget, At
<1>2. CallTyped(req) /\ Unburied(req) /\ InBounds(req) /\ StoreTyped
    BY <1>1 DEF IInv, CallOk
<1>3. CASE Reply({}) /\ UNCHANGED page
    <2>1. PageOk'
        BY <1>3, PageStays DEF Reply
    <2> QED
        BY <1>1, <1>3, <2>1, ReplyStep DEF Within, Honest, Reached
<1>4. CASE req.id \in Files /\ Reply({req.id}) /\ UNCHANGED page
    <2>1. PageOk'
        BY <1>4, PageStays DEF Reply
    <2>2. req.id \notin Rows /\ req.id \notin req.gone
        BY <1>2, <1>4, ReadsAssumption DEF StoreTyped, Unburied
    <2>3. {req.id} \cap Rows = {}
        BY <2>2
    <2>4. /\ Within(req, {req.id} \cap Rows) /\ Honest(req, {req.id})
          /\ Reached(req, {req.id})
        BY <1>1, <2>3 DEF Within, Honest, Reached
    <2> QED
        BY <1>1, <1>4, <2>1, <2>2, <2>4, ReplyStep
<1>5. CASE /\ Targeted(req) /\ (req.all \/ TargetConv(req) \in req.scope)
           /\ req.id \notin Files
           /\ Goto([req EXCEPT !.hits = {req.id}], "links")
    <2> DEFINE r == [[req EXCEPT !.hits = {req.id}] EXCEPT !.pc = "links"]
    <2>1. req' = r /\ UNCHANGED <<store, ans, page>>
        BY <1>5 DEF Goto
    <2>2. /\ SameCall(req, r) /\ r.id = req.id /\ r.offset = req.offset
          /\ r.hits = {req.id} /\ r.ids = req.ids /\ r.pc = "links"
        BY <1>2 DEF CallTyped, SameCall, Fields
    <2> HIDE DEF r
    <2>3. req.id \in Sums /\ req.id \in Visible
        BY <1>5 DEF Targeted
    <2>4. InScope(req, req.id)
        BY <1>5 DEF TargetConv, InScope
    <2>5. req.id \in Rows /\ req.id \in rows /\ req.id \notin req.gone
        BY <1>1, <2>3, VisibleUnburied DEF Visible
    <2>6. Within(req, r.hits)
        BY <2>2, <2>4 DEF Within
    <2>7. /\ r.hits \subseteq Rows /\ r.ids \subseteq Rows
          /\ \A x \in r.hits \cup r.ids : x \notin req.gone
        BY <1>2, <2>2, <2>5 DEF CallTyped, Unburied
    <2>8. CallOk(r)
        BY <1>1, <2>2, <2>3, <2>4, <2>5, <2>6, <2>7, Carried
    <2> QED
        BY <2>1, <2>8, GotoStep
<1> QED
    BY <1>3, <1>4, <1>5 DEF DescribeTarget

\* The manifest and the links: what a summary is linked with is of its
\* conversation.
LEMMA LinksInScope ==
    ASSUME NEW q, NEW s, InScope(q, s)
    PROVE  \A x \in Subtree(s) \cup Parents(s) \cup Children(s) :
               x \in Visible /\ InScope(q, x)
<1>1. \A k \in Links : ConvOf[k[1]] = ConvOf[k[2]]
    BY OneConversation
<1>2. ASSUME NEW x \in Children(s) PROVE x \in Visible /\ InScope(q, x)
    <2>1. x \in Visible /\ \E k \in Links : k[2] = s /\ x = k[1]
        BY DEF Children
    <2> QED
        BY <1>1, <2>1, SameConversation
<1>3. ASSUME NEW x \in Parents(s) PROVE x \in Visible /\ InScope(q, x)
    <2>1. x \in Visible /\ \E k \in Links : k[1] = s /\ x = k[2]
        BY DEF Parents
    <2> QED
        BY <1>1, <2>1, SameConversation
<1>4. ASSUME NEW x \in Subtree(s) PROVE x \in Visible /\ InScope(q, x)
    <2> DEFINE Above(S) == S \cup {l[1] : l \in {k \in Links : k[2] \in S}}
    <2>1. ASSUME NEW S, \A y \in S : ConvOf[y] = ConvOf[s]
          PROVE  \A y \in Above(S) : ConvOf[y] = ConvOf[s]
        BY <1>1, <2>1
    <2>2. \A y \in Above({s}) : ConvOf[y] = ConvOf[s]
        BY <2>1
    <2>3. \A y \in Above(Above({s})) : ConvOf[y] = ConvOf[s]
        <3> DEFINE A == Above({s})
        <3>1. \A y \in A : ConvOf[y] = ConvOf[s]
            BY <2>2
        <3> HIDE DEF A
        <3>2. \A y \in Above(A) : ConvOf[y] = ConvOf[s]
            BY <2>1, <3>1
        <3> QED
            BY <3>2 DEF A
    <2>4. x \in Visible /\ x \in Above(Above({s}))
        BY DEF Subtree
    <2> HIDE DEF Above
    <2> QED
        BY <2>3, <2>4, SameConversation
<1> QED
    BY <1>2, <1>3, <1>4

LEMMA DescribeLinksKeeps ==
    ASSUME IInv, DescribeLinks
    PROVE  IInv'
<1>1. req # Idle /\ req.tool = "describe" /\ req.pc = "links"
    BY DEF DescribeLinks, At
<1>2. CallTyped(req) /\ Unburied(req) /\ InBounds(req)
    BY <1>1 DEF IInv, CallOk
<1> DEFINE more == Subtree(req.id) \cup Parents(req.id)
           kids == Children(req.id)
           r == [[req EXCEPT !.hits = req.hits \cup more, !.ids = kids] EXCEPT !.pc = "rows"]
<1>3. req' = r /\ UNCHANGED <<store, ans, page>>
    <2>1. req.hits \cup Subtree(req.id) \cup Parents(req.id) = req.hits \cup more
        OBVIOUS
    <2> HIDE DEF more, kids
    <2>2. Goto([req EXCEPT !.hits = req.hits \cup more, !.ids = kids], "rows")
        BY <1>2, <2>1 DEF DescribeLinks, CallTyped, Fields, kids
    <2> QED
        BY <2>2 DEF Goto
<1>4. req.id \in Sums \cap rows /\ InScope(req, req.id)
    BY <1>1, <1>2 DEF InBounds
<1>5. \A x \in more \cup kids : x \in Visible /\ InScope(req, x)
    BY <1>4, LinksInScope
<1> HIDE DEF more, kids
<1>6. /\ SameCall(req, r) /\ r.id = req.id /\ r.offset = req.offset
      /\ r.hits = req.hits \cup more /\ r.ids = kids /\ r.pc = "rows"
    BY <1>2 DEF CallTyped, SameCall, Fields
<1> HIDE DEF r
<1>7. \A x \in more \cup kids : x \in Rows /\ x \notin req.gone
    BY <1>1, <1>5, VisibleUnburied
<1>8. Within(req, r.hits) /\ Within(req, r.ids)
    BY <1>2, <1>5, <1>6 DEF InBounds, Within
<1>9. /\ r.hits \subseteq Rows /\ r.ids \subseteq Rows
      /\ \A x \in r.hits \cup r.ids : x \notin req.gone
    BY <1>2, <1>6, <1>7 DEF CallTyped, Unburied
<1>10. CallOk(r)
    BY <1>1, <1>4, <1>6, <1>8, <1>9, Carried
<1> QED
    BY <1>3, <1>10, GotoStep

\* The rows of the children, and the count of the messages.
LEMMA DescribeRowsKeeps ==
    ASSUME IInv, DescribeRows \/ DescribeCount
    PROVE  IInv'
<1>1. req # Idle /\ req.tool = "describe" /\ req.pc \in {"rows", "count"}
    BY DEF DescribeRows, DescribeCount, At
<1>2. CallTyped(req) /\ Unburied(req) /\ InBounds(req)
    BY <1>1 DEF IInv, CallOk
<1>3. req.id \in Sums \cap rows /\ InScope(req, req.id)
    BY <1>1, <1>2 DEF InBounds
<1>4. CASE DescribeRows
    <2> DEFINE pc == IF req.id \in Leaves THEN "count" ELSE "done"
               r == [[req EXCEPT !.hits = req.hits \cup req.ids, !.ids = {}] EXCEPT !.pc = pc]
    <2>1. req' = r /\ UNCHANGED <<store, ans, page>>
        BY <1>2, <1>4 DEF DescribeRows, Goto, CallTyped, Fields
    <2>2. /\ SameCall(req, r) /\ r.id = req.id /\ r.offset = req.offset
          /\ r.hits = req.hits \cup req.ids /\ r.ids = {} /\ r.pc = pc
        BY <1>2 DEF CallTyped, SameCall, Fields
    <2>3. r.pc \in {"count", "done"} /\ (r.pc = "count" => r.id \in Leaves)
        BY <2>2
    <2> HIDE DEF r, pc
    <2>4. req.pc = "rows"
        BY <1>4 DEF DescribeRows, At
    <2>5. Within(req, r.hits)
        BY <1>2, <2>2, <2>4 DEF InBounds, Within
    <2>6. /\ r.hits \subseteq Rows
          /\ \A x \in r.hits \cup r.ids : x \notin req.gone
        BY <1>2, <2>2 DEF CallTyped, Unburied
    <2>7. CallOk(r)
        BY <1>1, <1>3, <2>2, <2>3, <2>5, <2>6, Carried
    <2> QED
        BY <2>1, <2>7, GotoStep
<1>5. CASE DescribeCount
    <2> DEFINE n == Cardinality(VisibleSources(req.id))
               r == [[req EXCEPT !.count = n] EXCEPT !.pc = "fetch"]
    <2>1. req' = r /\ UNCHANGED <<store, ans, page>>
        BY <1>5 DEF DescribeCount, Goto
    <2>2. /\ SameCall(req, r) /\ r.id = req.id /\ r.offset = req.offset
          /\ r.hits = req.hits /\ r.ids = req.ids /\ r.pc = "fetch" /\ r.count = n
        BY <1>2 DEF CallTyped, SameCall, Fields
    <2> HIDE DEF r
    <2>3. req.id \in Leaves
        BY <1>1, <1>2, <1>5 DEF InBounds, DescribeCount, At
    <2>4. CallOk(r)
        BY <1>1, <1>2, <1>3, <2>2, <2>3, Carried DEF CallTyped, Unburied, InBounds
    <2> QED
        BY <2>1, <2>4, GotoStep
<1> QED
    BY <1>4, <1>5

\* The window of messages, and what the agent has seen of the leaf by then.
LEMMA FetchPage ==
    ASSUME IInv, DescribeFetch
    PROVE  PageOk'
<1>1. req # Idle /\ req.tool = "describe" /\ req.pc = "fetch"
    BY DEF DescribeFetch, At
<1>2. CallTyped(req) /\ InBounds(req) /\ Paging(req) /\ StoreTyped /\ PageOk
    BY <1>1 DEF IInv, CallOk
<1> DEFINE l == req.id
           S == VisibleSources(l)
           got == Window(req)
           o == req.offset
           n == o + Cardinality(got)
           fresh == o = 0 \/ page = NoPage \/ page.leaf # l
           earlier == IF fresh THEN [leaf |-> l, shown |-> {}, cut |-> FALSE] ELSE page
<1>3. /\ rows' = rows /\ dead' = dead
      /\ page' = IF got = {} THEN page
                 ELSE [leaf |-> l, next |-> n, shown |-> earlier.shown \cup got,
                       cut |-> earlier.cut \/ req.gone # dead, left |-> Remaining(req, got)]
    BY DEF DescribeFetch, Reply, store
<1>4. l \in Leaves /\ l \in rows /\ o \in Nat /\ req.limit \in Nat \ {0}
    BY <1>1, <1>2 DEF InBounds, CallTyped
<1>5. S \subseteq Rows
    BY <1>2 DEF StoreTyped, VisibleSources, Visible
<1>6. got = Slice(S, o, req.limit)
    BY DEF Window, Slice
<1>7. Visible' = Visible
    BY <1>3 DEF Visible
<1> HIDE DEF S, got, o, l
<1>8. /\ Cardinality(got) \in Nat
      /\ Cardinality(got) <= req.limit
      /\ \A m \in S : Rank(S, m) \in Nat
      /\ Cardinality(S) - (o + Cardinality(got)) <= 0 =>
             \A m \in S : Rank(S, m) < o + req.limit
    BY <1>4, <1>5, <1>6, WindowLast
<1>9. CASE got = {}
    BY <1>2, <1>3, <1>9
       DEF PageOk, PageTyped, PageSeen, Leading, VisibleSources, Visible
<1>10. CASE got # {}
    <2>1. /\ DOMAIN page' = {"leaf", "next", "shown", "cut", "left"}
          /\ page'.leaf = l /\ page'.next = n
          /\ page'.shown = earlier.shown \cup got
          /\ page'.left = Remaining(req, got)
          /\ ~page'.cut => ~earlier.cut /\ req.gone = dead
        BY <1>3, <1>10
    <2>2. PageTyped'
        BY <1>3, <1>4, <1>8, <2>1 DEF PageTyped
    <2>3. ASSUME ~page'.cut PROVE PageSeen'
        <3>1. ~earlier.cut /\ req.gone = dead
            BY <2>1, <2>3
        <3>2. \A m \in S : Rank(S, m) < o => m \in earlier.shown
            <4>1. CASE o = 0
                BY <1>8, <4>1
            <4>2. CASE o # 0
                <5>1. page # NoPage /\ page.leaf = l /\ o <= page.next
                    BY <1>1, <1>2, <1>4, <4>2 DEF Paging, o, l
                <5>2. earlier = page
                    BY <4>2, <5>1
                <5>3. Leading(l, page.next) \subseteq page.shown /\ page.next \in Nat
                    BY <1>2, <3>1, <5>1, <5>2 DEF PageOk, PageSeen, PageTyped
                <5>4. \A m \in S : Rank(S, m) < page.next => m \in page.shown
                    BY <5>3 DEF Leading, S
                <5> QED
                    BY <1>4, <1>8, <5>1, <5>2, <5>3, <5>4
            <4> QED
                BY <4>1, <4>2
        <3>3. \A m \in S : Rank(S, m) < o + req.limit => m \in page'.shown
            BY <1>4, <1>6, <1>8, <2>1, <3>2 DEF Slice
        <3> DEFINE T == VisibleSources(page.leaf)
        <3>4. T' = S
            BY <1>7, <2>1 DEF VisibleSources, S
        <3> HIDE DEF T
        <3>5. Leading(page.leaf, page.next)' \subseteq page'.shown
            <4>1. Leading(page.leaf, page.next)' = {m \in T' : Rank(T', m) < page'.next}
                BY DEF Leading, T
            <4> QED
                BY <1>4, <1>8, <2>1, <3>3, <3>4, <4>1
        <3>6. page'.left <= 0 => T' \subseteq page'.shown
            <4>1. req.count = Cardinality(S)
                BY <1>1, <1>2, <3>1 DEF Paging, S, l
            <4>2. page'.left = Cardinality(S) - (o + Cardinality(got))
                BY <2>1, <4>1 DEF Remaining, o
            <4> QED
                BY <1>8, <3>3, <3>4, <4>2
        <3> QED
            BY <3>5, <3>6 DEF PageSeen, T
    <2> QED
        BY <2>2, <2>3 DEF PageOk
<1> QED
    BY <1>9, <1>10

\* The answer of lcm_describe.
LEMMA DescribeAnswers ==
    ASSUME IInv, DescribeFetch \/ DescribeDone
    PROVE  IInv'
<1>1. req # Idle /\ req.tool = "describe" /\ req.pc \in {"fetch", "done"}
    BY DEF DescribeFetch, DescribeDone, At
<1>2. CallTyped(req) /\ Unburied(req) /\ InBounds(req)
    BY <1>1 DEF IInv, CallOk
<1>3. ASSUME NEW shown, Reply(shown), PageOk',
             \A x \in shown : x \in req.hits \/ (x \in Visible /\ InScope(req, x))
      PROVE  IInv'
    <2>1. \A x \in shown : x \notin req.gone
        BY <1>1, <1>2, <1>3, VisibleUnburied DEF Unburied
    <2>2. Within(req, shown \cap Rows)
        BY <1>2, <1>3 DEF InBounds, Within
    <2>3. Honest(req, shown) /\ Reached(req, shown)
        BY <1>1 DEF Honest, Reached
    <2> QED
        BY <1>1, <1>3, <2>1, <2>2, <2>3, ReplyStep
<1>4. CASE DescribeFetch
    <2>1. req.id \in Leaves /\ InScope(req, req.id)
        BY <1>1, <1>2, <1>4 DEF InBounds, DescribeFetch, At
    <2>2. \A x \in Window(req) : x \in Visible /\ ConvOf[x] = ConvOf[req.id]
        BY <2>1, OneConversation DEF Window, VisibleSources
    <2>3. \A x \in Window(req) : x \in Visible /\ InScope(req, x)
        BY <2>1, <2>2, SameConversation
    <2>4. Reply(req.hits \cup Window(req))
        BY <1>4 DEF DescribeFetch
    <2>5. PageOk'
        BY <1>4, FetchPage
    <2> QED
        BY <1>3, <2>3, <2>4, <2>5
<1>5. CASE DescribeDone
    <2>1. Reply(req.hits)
        BY <1>5 DEF DescribeDone
    <2>2. PageOk'
        BY <1>5, PageStays DEF DescribeDone, Reply
    <2> QED
        BY <1>3, <2>1, <2>2
<1> QED
    BY <1>4, <1>5

\* lcm_search_entities and lcm_get_entity.
LEMMA EntityKeeps ==
    ASSUME IInv, SearchEntities \/ GetEntity \/ GetMentions
    PROVE  IInv'
<1>1. req # Idle /\ req.tool \in {"search_entities", "get_entity"}
    BY DEF SearchEntities, GetEntity, GetMentions, At
<1>2. CallTyped(req) /\ Unburied(req)
    BY <1>1 DEF IInv, CallOk
<1>3. \A x \in VisibleMentions(req.id) : x \in Rows /\ x \notin req.gone
    BY <1>1, VisibleUnburied DEF VisibleMentions
<1>4. ASSUME NEW shown, Reply(shown), UNCHANGED page, \A x \in shown : x \notin req.gone
      PROVE  IInv'
    <2>1. PageOk'
        BY <1>4, PageStays DEF Reply
    <2>2. /\ Within(req, shown \cap Rows) /\ Honest(req, shown) /\ Reached(req, shown)
          /\ req.tool # "semantic"
        BY <1>1 DEF Within, Honest, Reached, ScopedTools
    <2> QED
        BY <1>1, <1>4, <2>1, <2>2, ReplyStep
<1>5. CASE SearchEntities
    <2>1. UNCHANGED page /\ (Reply(VisibleMentions(req.id)) \/ Reply({}))
        BY <1>5 DEF SearchEntities
    <2> QED
        BY <1>3, <1>4, <2>1
<1>6. CASE Reply({}) /\ UNCHANGED page
    BY <1>4, <1>6
<1>7. CASE Goto([req EXCEPT !.hits = VisibleMentions(req.id)], "mentions")
    <2> DEFINE r == [[req EXCEPT !.hits = VisibleMentions(req.id)] EXCEPT !.pc = "mentions"]
    <2>1. req' = r /\ UNCHANGED <<store, ans, page>>
        BY <1>7 DEF Goto
    <2>2. /\ SameCall(req, r) /\ r.id = req.id /\ r.offset = req.offset
          /\ r.hits = VisibleMentions(req.id) /\ r.ids = req.ids /\ r.pc = "mentions"
        BY <1>2 DEF CallTyped, SameCall, Fields
    <2> HIDE DEF r
    <2>3. CallOk(r)
        BY <1>1, <1>2, <1>3, <2>2, Carried DEF CallTyped, Unburied, Within, ScopedTools
    <2> QED
        BY <2>1, <2>3, GotoStep
<1>8. CASE GetMentions
    <2> DEFINE last == Newest(VisibleMentions(req.id), req.limit)
    <2>1. \A x \in last : x \in VisibleMentions(req.id)
        BY DEF Newest
    <2> HIDE DEF last
    <2>2. \A x \in req.hits \cup last : x \notin req.gone
        BY <1>2, <1>3, <2>1 DEF Unburied
    <2>3. Reply(req.hits \cup last) /\ UNCHANGED page
        BY <1>8 DEF GetMentions, last
    <2> QED
        BY <1>4, <2>2, <2>3
<1>9. CASE GetEntity
    BY <1>6, <1>7, <1>9 DEF GetEntity
<1> QED
    BY <1>5, <1>8, <1>9

-----------------------------------------------------------------------------
(***************************************************************************)
(* Calls come in, and the store changes.                                   *)
(***************************************************************************)

\* The scope of the current session holds conversations of the session only, and
\* those it cannot do without: a key in use leads to all its conversations by its
\* active one, a session id without keys to all of its own.
LEMMA SessionResolved ==
    ASSUME ConvsTyped, NEW k, k # NoKey, NEW s \in SessionScope(k)
    PROVE  /\ \A c \in s : c \in Convs /\ OfSession(k, c)
           /\ \A c \in convs : Belongs(k, c) => c \in s
<1>1. active \subseteq convs /\ convs \subseteq Convs
    BY DEF ConvsTyped
<1>2. CASE ByKey(k) # {}
    <2>1. PICK b \in ByKey(k) : s = Family(b)
        BY <1>2 DEF SessionScope
    <2>2. KeyOf[b] = k /\ b \in convs
        BY <1>1, <2>1 DEF ByKey
    <2>3. s = {d \in convs : KeyOf[d] = k}
        BY <2>1, <2>2 DEF Family
    <2> QED
        BY <1>1, <2>2, <2>3 DEF OfSession, Belongs
<1>3. CASE ByKey(k) = {}
    <2>1. PICK b \in BySid(k) : s = Family(b)
        BY <1>3 DEF SessionScope
    <2>2. SidOf[b] = k /\ b \in convs
        BY <2>1 DEF BySid
    <2>3. \A d \in convs : KeyOf[d] # k
        BY <1>3 DEF ConvsTyped, ByKey
    <2>4. CASE KeyOf[b] # NoKey
        <3>1. s = {d \in convs : KeyOf[d] = KeyOf[b]}
            BY <2>1, <2>4 DEF Family
        <3>2. \A c \in convs : ~Belongs(k, c)
            BY <2>2, <2>3, <2>4 DEF Belongs
        <3> QED
            BY <1>1, <2>2, <2>4, <3>1, <3>2 DEF OfSession
    <2>5. CASE KeyOf[b] = NoKey
        <3>1. s = {d \in convs : SidOf[d] = k}
            BY <2>1, <2>2, <2>5 DEF Family
        <3> QED
            BY <1>1, <2>3, <3>1 DEF OfSession, Belongs
    <2> QED
        BY <2>4, <2>5
<1> QED
    BY <1>2, <1>3

\* resolve_lcm_conversation_scope
LEMMA CallResolved ==
    ASSUME StoreTyped, NEW tool, NEW w, NEW s,
           \/ s \in Scopes
           \/ \E k : s = [sc |-> {}, all |-> FALSE, who |-> k] /\ Searched(tool) = {},
           NEW q, q.scope = s.sc, q.all = s.all, q.who = s.who, q.keys = SessionKeys(s.sc),
           q.whole = Searched(tool)
    PROVE  Resolved(q)
<1>1. q.keys \subseteq {KeyOf[c] : c \in q.scope} \ {NoKey}
    BY DEF SessionKeys
<1>2. \A x \in q.whole : ConvOf[x] \in convs
    BY DEF Searched, StoreTyped, ConvsTyped
<1>3. CASE s \in Scopes /\ q.who # NoKey
    <2>1. PICK k \in Callers : \E c \in SessionScope(k) : s = [sc |-> c, all |-> FALSE, who |-> k]
        BY <1>3 DEF Scopes
    <2>2. s.sc \in SessionScope(k) /\ q.who = k /\ k # NoKey
        BY <2>1, ReadsAssumption
    <2>3. /\ \A c \in q.scope : c \in Convs /\ OfSession(k, c)
          /\ \A c \in convs : Belongs(k, c) => c \in q.scope
        BY <2>2, SessionResolved DEF StoreTyped
    <2> QED
        BY <1>1, <1>2, <2>2, <2>3 DEF Resolved, InScope
<1>4. CASE \E k : s = [sc |-> {}, all |-> FALSE, who |-> k] /\ Searched(tool) = {}
    BY <1>1, <1>4 DEF Resolved
<1>5. CASE q.who = NoKey
    BY <1>1, <1>5 DEF Resolved
<1> QED
    BY <1>3, <1>4, <1>5

\* A call comes in.
LEMMA BeginStep ==
    ASSUME IInv, NEW w \in Windows, NEW q, Begin(q),
           DOMAIN q = Fields,
           q.pc = "start", q.hits = {}, q.ids = {}, q.gone = dead,
           q.limit = w[1],
           q.whole = Searched(q.tool), Resolved(q),
           \/ q.offset = 0
           \/ page # NoPage /\ page.leaf = q.id /\ q.offset = Clamped(page.next)
    PROVE  IInv'
<1>1. /\ rows' = rows /\ dead' = dead /\ fts' = fts /\ ans' = ans
      /\ convs' = convs /\ active' = active
      /\ req' = q
      /\ page' = IF q.offset > 0 THEN page ELSE NoPage
    BY DEF Begin, store
<1>2. StoreTyped'
    BY <1>1 DEF IInv, StoreTyped, ConvsTyped
<1>3. PageOk'
    BY <1>1 DEF IInv, PageOk, PageTyped, PageSeen, Leading, Rank, VisibleSources, Visible
<1>4. AnswerOk'
    BY <1>1, AnswerStays DEF IInv
<1>5. CallTyped(q) /\ (q.offset > 0 => q.offset <= page.next)
    <2>1. q.limit \in Nat \ {0}
        BY ReadsAssumption
    <2>2. page # NoPage => page.next \in Nat
        BY DEF IInv, PageOk, PageTyped
    <2>3. q.offset \in Nat /\ (q.offset > 0 => q.offset <= page.next)
        BY <2>2, ReadsAssumption DEF Clamped
    <2> QED
        BY <2>1, <2>3 DEF CallTyped
<1>6. Resolved(q)' /\ Thorough(q)' /\ Complete(q)'
    BY <1>1 DEF Resolved, Thorough, Complete, Searched, Belongs, OfSession, InScope
<1>7. CallOk(req)'
    BY <1>1, <1>5, <1>6 DEF CallOk, CallTyped, Unburied, InBounds, Within, Resolved, Thorough,
       Complete, Paging
<1> QED
    BY <1>2, <1>3, <1>4, <1>7 DEF IInv

LEMMA CallsKeep ==
    ASSUME IInv, Grep \/ Describe \/ EntityCall
    PROVE  IInv'
<1> USE DEF IInv
<1>1. ASSUME Grep PROVE IInv'
    <2>1. PICK tool \in Greps, s \in Scopes, w \in Windows :
              \E ks : Begin([NewCall(tool, s, w) EXCEPT !.kinds = ks])
        BY <1>1 DEF Grep
    <2>2. PICK ks : Begin([NewCall(tool, s, w) EXCEPT !.kinds = ks])
        BY <2>1
    <2> DEFINE q == [NewCall(tool, s, w) EXCEPT !.kinds = ks]
    <2>3. /\ DOMAIN q = Fields
          /\ q.pc = "start" /\ q.hits = {} /\ q.ids = {} /\ q.gone = dead
          /\ q.limit = w[1] /\ q.tool = tool /\ q.offset = 0
          /\ q.whole = Searched(tool)
          /\ q.scope = s.sc /\ q.all = s.all /\ q.who = s.who /\ q.keys = SessionKeys(s.sc)
        BY DEF NewCall, Fields
    <2> HIDE DEF q
    <2>4. Begin(q)
        BY <2>2 DEF q
    <2>5. Resolved(q)
        BY <2>3, CallResolved
    <2> QED
        BY <2>3, <2>4, <2>5, BeginStep
<1>2. ASSUME Describe PROVE IInv'
    <2>1. PICK s \in Scopes, id \in Sums \cup Files, w \in Windows :
              \E off \in {0} \cup (IF page # NoPage /\ page.leaf = id THEN {Clamped(page.next)}
                                  ELSE {}) :
                  Begin([NewCall("describe", s, w) EXCEPT !.id = id, !.offset = off])
        BY <1>2 DEF Describe
    <2>2. PICK off : /\ off = 0 \/ (page # NoPage /\ page.leaf = id /\ off = Clamped(page.next))
                     /\ Begin([NewCall("describe", s, w) EXCEPT !.id = id, !.offset = off])
        BY <2>1
    <2> DEFINE q == [NewCall("describe", s, w) EXCEPT !.id = id, !.offset = off]
    <2>3. /\ DOMAIN q = Fields
          /\ q.pc = "start" /\ q.hits = {} /\ q.ids = {} /\ q.gone = dead
          /\ q.limit = w[1] /\ q.tool = "describe" /\ q.offset = off /\ q.id = id
          /\ q.whole = Searched("describe")
          /\ q.scope = s.sc /\ q.all = s.all /\ q.who = s.who /\ q.keys = SessionKeys(s.sc)
        BY DEF NewCall, Fields
    <2> HIDE DEF q
    <2>4. Begin(q)
        BY <2>2 DEF q
    <2>5. Resolved(q)
        BY <2>3, CallResolved
    <2> QED
        BY <2>2, <2>3, <2>4, <2>5, BeginStep
<1>3. ASSUME EntityCall PROVE IInv'
    <2>1. PICK k \in Callers, w \in Windows, tool \in {"get_entity", "search_entities"} : \E id :
              Begin([NewCall(tool, [sc |-> {}, all |-> FALSE, who |-> k], w) EXCEPT !.id = id])
        BY <1>3 DEF EntityCall
    <2> DEFINE s == [sc |-> {}, all |-> FALSE, who |-> k]
    <2>2. PICK id : Begin([NewCall(tool, s, w) EXCEPT !.id = id])
        BY <2>1
    <2> DEFINE q == [NewCall(tool, s, w) EXCEPT !.id = id]
    <2>3. /\ DOMAIN q = Fields
          /\ q.pc = "start" /\ q.hits = {} /\ q.ids = {} /\ q.gone = dead
          /\ q.limit = w[1] /\ q.tool = tool /\ q.offset = 0
          /\ q.whole = Searched(tool) /\ Searched(tool) = {}
          /\ q.scope = s.sc /\ q.all = s.all /\ q.who = s.who /\ q.keys = SessionKeys(s.sc)
        BY DEF NewCall, Fields, Searched
    <2> HIDE DEF q
    <2>4. Begin(q)
        BY <2>2 DEF q
    <2>5. Resolved(q)
        BY <2>3, CallResolved
    <2> QED
        BY <2>3, <2>4, <2>5, BeginStep
<1> QED
    BY <1>1, <1>2, <1>3

\* The store grows or is purged under the call.
LEMMA StoreStep ==
    ASSUME IInv, rows \subseteq rows', dead \subseteq dead', fts \subseteq fts',
           convs \subseteq convs', StoreTyped',
           req' = req, ans' = NoAnswer, PageOk', req # Idle => Paging(req)'
    PROVE  IInv'
<1>1. rows' \subseteq Rows /\ dead' \subseteq Rows
    BY DEF StoreTyped
<1>2. AnswerOk'
    BY DEF AnswerOk, NothingBuried, ScopeHonoured, HybridHonest, Answered
<1>3. ASSUME req # Idle PROVE CallOk(req)'
    <2>1. /\ CallTyped(req) /\ Unburied(req) /\ InBounds(req) /\ Complete(req)
          /\ Resolved(req) /\ Thorough(req)
        BY <1>3 DEF IInv, CallOk
    <2>2. CallTyped(req)' /\ Unburied(req)' /\ InBounds(req)'
        BY <2>1 DEF CallTyped, Unburied, InBounds, Within, InScope
    <2>3. ASSUME req.tool = "hybrid" PROVE Complete(req)'
        <3>1. req.whole \subseteq rows \cap fts \cap Sums
            BY <2>1, <2>3 DEF Complete
        <3>2. Matching(req)' \subseteq Matching(req)
            BY <3>1 DEF Matching, Readable, Visible, InScope
        <3>3. OfKinds(req, Matching(req))' \subseteq OfKinds(req, Matching(req))
            BY <3>2 DEF OfKinds
        <3>4. Few(req)' => Few(req)
            <4>1. Candidates(req) \subseteq Candidates(req)' /\ Candidates(req)' \subseteq Rows
                BY <1>1 DEF Candidates, InScope
            <4> DEFINE C == Candidates(req)
                       D == Candidates(req)'
            <4>2. C \subseteq D /\ D \subseteq Rows /\ C \subseteq Rows
                BY <4>1
            <4> HIDE DEF C, D
            <4>3. Cardinality(C) <= Cardinality(D)
                BY <4>2, Smaller
            <4>4. Cardinality(C) \in Nat /\ Cardinality(D) \in Nat
                BY <4>2, Finite
            <4>5. req.limit * Wide \in Nat
                <5>1. req.limit \in Nat /\ Wide \in Nat
                    BY <2>1, ReadsAssumption DEF CallTyped
                <5> QED
                    BY <5>1
            <4>6. Cardinality(D) <= req.limit * Wide => Cardinality(C) <= req.limit * Wide
                BY <4>3, <4>4, <4>5
            <4> QED
                BY <4>6 DEF Few, C, D
        <3> QED
            BY <2>1, <2>3, <3>1, <3>2, <3>3, <3>4 DEF Complete
    <2>4. Complete(req)'
        BY <2>3 DEF Complete
    <2>5. Resolved(req)'
        <3>1. \A k, c : Belongs(k, c)' => Belongs(k, c)
            BY DEF Belongs
        <3>2. /\ Resolved(req)' <=>
                    /\ req.keys \subseteq {KeyOf[c] : c \in req.scope} \ {NoKey}
                    /\ req.who # NoKey =>
                         /\ \A c \in req.scope : c \in Convs /\ OfSession(req.who, c)
                         /\ \A x \in req.whole :
                              Belongs(req.who, ConvOf[x])' => InScope(req, x)
            BY DEF Resolved, OfSession, InScope, Belongs
        <3> QED
            BY <2>1, <3>1, <3>2 DEF Resolved
    <2>6. Thorough(req)'
        <3>1. ASSUME req.tool = "regex" PROVE Found(req, Msgs)' \subseteq Found(req, Msgs)
            BY <2>1, <3>1 DEF Thorough, Found, Readable, Visible, InScope
        <3> QED
            BY <2>1, <3>1 DEF Thorough
    <2> QED
        BY <1>3, <2>2, <2>4, <2>5, <2>6 DEF CallOk
<1> QED
    BY <1>2, <1>3 DEF IInv

\* The messages of a leaf that exists are there, so only a purge changes which
\* of them are visible.
LEMMA SourcesThere ==
    ASSUME StoreTyped, rows \subseteq rows', NEW l \in Leaves \cap rows
    PROVE  VisibleSources(l) = Sources[l] \ dead /\ VisibleSources(l)' = Sources[l] \ dead'
BY DEF StoreTyped, VisibleSources, Visible

\* A write, a tick or a reset: nothing is purged and the page stays.
LEMMA WriteStep ==
    ASSUME IInv, rows \subseteq rows', dead' = dead, fts \subseteq fts',
           convs \subseteq convs', StoreTyped',
           req' = req, ans' = NoAnswer, page' = page
    PROVE  IInv'
<1>1. StoreTyped
    BY DEF IInv
<1>2. \A l \in Leaves \cap rows : VisibleSources(l)' = VisibleSources(l)
    BY <1>1, SourcesThere
<1>3. PageOk'
    <2>1. ASSUME page # NoPage PROVE PageTyped' /\ (~page.cut => PageSeen')
        <3>1. PageTyped /\ (~page.cut => PageSeen)
            BY <2>1 DEF IInv, PageOk
        <3>2. VisibleSources(page.leaf)' = VisibleSources(page.leaf)
            <4>1. page.leaf \in Leaves \cap rows
                BY <3>1 DEF PageTyped
            <4> QED
                BY <1>1, <4>1 DEF StoreTyped, VisibleSources, Visible
        <3>3. PageTyped'
            BY <3>1 DEF PageTyped
        <3>4. Leading(page.leaf, page.next)' = Leading(page.leaf, page.next)
            BY <3>2 DEF Leading
        <3>5. ASSUME ~page.cut PROVE PageSeen'
            BY <3>1, <3>2, <3>4, <3>5 DEF PageSeen
        <3> QED
            BY <3>3, <3>5
    <2> QED
        BY <2>1 DEF PageOk
<1>4. ASSUME req # Idle PROVE Paging(req)'
    <2>1. Paging(req) /\ InBounds(req)
        BY <1>4 DEF IInv, CallOk
    <2>2. ASSUME req.tool = "describe", req.pc = "fetch"
          PROVE  VisibleSources(req.id)' = VisibleSources(req.id)
        <3>1. req.id \in Leaves \cap rows
            BY <2>1, <2>2 DEF InBounds
        <3> QED
            BY <1>1, <3>1 DEF StoreTyped, VisibleSources, Visible
    <2> QED
        BY <2>1, <2>2 DEF Paging
<1> QED
    BY <1>3, <1>4, StoreStep

\* run_purge: a page whose messages it takes is no longer vouched for, nor is the
\* count of a call under way.
LEMMA PurgeKeeps ==
    ASSUME IInv, NEW L \in SUBSET Leaves, Purge(L)
    PROVE  IInv'
<1>1. /\ rows' = rows /\ fts' = fts /\ req' = req /\ ans' = NoAnswer
      /\ convs' = convs /\ active' = active
      /\ dead' = dead \cup L \cup Uncovered(L)
      /\ L # {} /\ L \cap dead = {}
      /\ page' = IF page # NoPage /\ (dead' \ dead) \cap Sources[page.leaf] # {}
                 THEN [page EXCEPT !.cut = TRUE] ELSE page
    BY DEF Purge
<1>2. StoreTyped
    BY DEF IInv
<1>3. dead' \subseteq Rows /\ dead \subseteq dead' /\ dead' # dead
    BY <1>1, <1>2, ReadsAssumption DEF StoreTyped, Uncovered, Rows, Sums
<1>4. PageOk'
    <2>1. CASE page = NoPage
        BY <1>1, <2>1 DEF PageOk
    <2>2. CASE page # NoPage
        <3>1. PageTyped /\ (~page.cut => PageSeen)
            BY <2>2 DEF IInv, PageOk
        <3>2. CASE (dead' \ dead) \cap Sources[page.leaf] # {}
            <4>1. page' = [page EXCEPT !.cut = TRUE]
                BY <1>1, <2>2, <3>2
            <4>2. PageTyped' /\ page'.cut
                BY <1>1, <3>1, <4>1 DEF PageTyped
            <4> QED
                BY <4>2 DEF PageOk
        <3>3. CASE (dead' \ dead) \cap Sources[page.leaf] = {}
            <4>1. page' = page
                BY <1>1, <3>3
            <4>2. VisibleSources(page.leaf)' = VisibleSources(page.leaf)
                BY <1>1, <1>3, <3>3, <4>1 DEF VisibleSources, Visible
            <4>3. PageTyped'
                BY <1>1, <3>1, <4>1 DEF PageTyped
            <4>4. Leading(page.leaf, page.next)' = Leading(page.leaf, page.next)
                BY <4>1, <4>2 DEF Leading
            <4>5. ASSUME ~page.cut PROVE PageSeen'
                BY <3>1, <4>1, <4>2, <4>4, <4>5 DEF PageSeen
            <4> QED
                BY <4>1, <4>3, <4>5 DEF PageOk
        <3> QED
            BY <3>2, <3>3
    <2> QED
        BY <2>1, <2>2
<1>5. ASSUME req # Idle PROVE Paging(req)'
    <2>1. Paging(req) /\ Unburied(req)
        BY <1>5 DEF IInv, CallOk
    <2>2. req.gone # dead'
        BY <1>3, <2>1 DEF Unburied
    <2>3. ASSUME page # NoPage
          PROVE  page' # NoPage /\ page'.leaf = page.leaf /\ page'.next = page.next
        <3>1. PageTyped
            BY <2>3 DEF IInv, PageOk
        <3> QED
            BY <1>1, <2>3, <3>1 DEF PageTyped, NoPage
    <2> QED
        BY <1>1, <2>1, <2>2, <2>3 DEF Paging
<1>6. StoreTyped'
    BY <1>1, <1>2, <1>3 DEF StoreTyped, ConvsTyped
<1> QED
    BY <1>1, <1>3, <1>4, <1>5, <1>6, StoreStep

-----------------------------------------------------------------------------
(***************************************************************************)
(* Every step.                                                             *)
(***************************************************************************)
LEMMA InvStep == IInv /\ [Next]_vars => IInv'
<1> SUFFICES ASSUME IInv, [Next]_vars PROVE IInv'
    OBVIOUS
<1>1. StoreTyped
    BY DEF IInv
<1>2. ASSUME NEW x \in Rows, WriteRow(x) PROVE IInv'
    <2>1. /\ rows' = rows \cup {x} /\ dead' = dead /\ fts \subseteq fts'
          /\ convs' = convs /\ active' = active /\ ConvOf[x] \in convs
          /\ req' = req /\ ans' = NoAnswer /\ page' = page
          /\ x \in Leaves => Sources[x] \subseteq rows
        BY <1>2 DEF WriteRow
    <2>2. \A l \in Leaves \cap rows' : Sources[l] \subseteq rows'
        BY <1>1, <2>1 DEF StoreTyped
    <2>3. ConvsTyped'
        BY <1>1, <2>1 DEF StoreTyped, ConvsTyped
    <2>4. StoreTyped'
        BY <1>1, <2>1, <2>2, <2>3 DEF StoreTyped
    <2> QED
        BY <2>1, <2>4, WriteStep
<1>3. ASSUME rows' = rows, dead' = dead, fts' = fts, req' = req, page' = page,
             convs' = convs, active' = active, ans' = NoAnswer
      PROVE  IInv'
    <2>1. StoreTyped'
        BY <1>1, <1>3 DEF StoreTyped, ConvsTyped
    <2> QED
        BY <1>3, <2>1, WriteStep
<1>4. ASSUME NEW s \in Sums, Embed(s) PROVE IInv'
    BY <1>3, <1>4 DEF Embed
<1>5. ASSUME NEW l \in Leaves, Extract(l) PROVE IInv'
    BY <1>3, <1>5 DEF Extract
<1>6. ASSUME NEW c \in Convs, OpenConversation(c) PROVE IInv'
    <2>1. /\ rows' = rows /\ dead' = dead /\ fts' = fts /\ req' = req /\ page' = page
          /\ ans' = NoAnswer /\ convs' = convs \cup {c}
          /\ active' = {c} \cup {d \in active : KeyOf[d] # KeyOf[c]
                                             \/ (KeyOf[c] = NoKey /\ SidOf[d] # SidOf[c])}
        BY <1>6 DEF OpenConversation
    <2>2. ConvsTyped /\ StoreTyped
        BY <1>1 DEF StoreTyped
    <2>3. ASSUME NEW d \in convs', KeyOf[d] # NoKey
          PROVE  \E e \in active' : KeyOf[e] = KeyOf[d]
        <3>1. CASE KeyOf[d] = KeyOf[c]
            BY <2>1, <3>1
        <3>2. CASE KeyOf[d] # KeyOf[c]
            <4>1. PICK e \in active : KeyOf[e] = KeyOf[d]
                BY <2>1, <2>2, <2>3, <3>2 DEF ConvsTyped
            <4> QED
                BY <2>1, <3>2, <4>1
        <3> QED
            BY <3>1, <3>2
    <2>4. ConvsTyped'
        BY <2>1, <2>2, <2>3 DEF ConvsTyped
    <2>5. StoreTyped'
        BY <2>1, <2>2, <2>4 DEF StoreTyped
    <2> QED
        BY <2>1, <2>5, WriteStep
<1>7. CASE Delivered
    BY <1>3, <1>7 DEF Delivered, store
<1>8. ASSUME NEW L \in SUBSET Leaves, Purge(L) PROVE IInv'
    BY <1>8, PurgeKeeps
<1>9. CASE Grep \/ Describe \/ EntityCall
    BY <1>9, CallsKeep
<1>10. CASE GrepMessages \/ GrepSummaries \/ GrepVerbatim
    BY <1>10, GrepMessagesKeeps, GrepAnswers
<1>11. CASE FtsSearch \/ FtsHydrate \/ EmbedQuery \/ EmbedFails \/ Knn \/ Join \/ Pack \/ Rerank
    BY <1>11, FtsSearchKeeps, FtsHydrateKeeps, EmbedKeeps, KnnKeeps, JoinKeeps, PackKeeps,
       RerankKeeps
<1>12. CASE DescribeTarget \/ DescribeLinks \/ DescribeRows \/ DescribeCount
    BY <1>12, DescribeTargetKeeps, DescribeLinksKeeps, DescribeRowsKeeps
<1>13. CASE DescribeFetch \/ DescribeDone
    BY <1>13, DescribeAnswers
<1>14. CASE SearchEntities \/ GetEntity \/ GetMentions
    BY <1>14, EntityKeeps
<1>15. CASE UNCHANGED vars
    <2>1. UNCHANGED <<store, ans, page>> /\ req' = req
        BY <1>15 DEF vars
    <2>2. CASE req = Idle
        <3>1. StoreTyped' /\ PageOk'
            BY <1>1, <2>1, PageStays DEF store, StoreTyped, ConvsTyped
        <3>2. AnswerOk'
            BY <2>1, AnswerStays DEF store, IInv
        <3> QED
            BY <2>1, <2>2, <3>1, <3>2 DEF IInv
    <2>3. CASE req # Idle
        BY <2>1, <2>3, GotoStep DEF IInv
    <2> QED
        BY <2>2, <2>3
<1> QED
    BY <1>2, <1>4, <1>5, <1>6, <1>7, <1>8, <1>9, <1>10, <1>11, <1>12, <1>13, <1>14, <1>15
       DEF Next

LEMMA Inv == Spec => []IInv
BY InvInit, InvStep, PTL DEF Spec

-----------------------------------------------------------------------------
(***************************************************************************)
(* The theorems.                                                           *)
(***************************************************************************)

\* No tool shows what had been purged when its call came in, although the ids
\* it read before may be purged, indexed or linked by the time it uses them.
THEOREM PurgedStaysHidden == Spec => []NothingBuried
<1>1. IInv => NothingBuried
    BY DEF IInv, AnswerOk
<1> QED
    BY <1>1, Inv, PTL

\* A search of the current session (append_conversation_scope_constraint,
\* get_conversation_family_ids) answers from the session and no other, and in
\* mode regex or verbatim reaches all its segments unless the answer is full.
\* Mode semantic is excepted where the formula says so: without a key, and with
\* conversationId.
THEOREM AnswersInScope == Spec => []ScopeHonoured
<1>1. IInv => ScopeHonoured
    BY DEF IInv, AnswerOk
<1> QED
    BY <1>1, Inv, PTL

\* run_hybrid_search: a part of the search that fails never hides what the
\* keyword search alone would find, unless the answer says so.
THEOREM DegradingHidesNothing == Spec => []HybridHonest
<1>1. IInv => HybridHonest
    BY DEF IInv, AnswerOk
<1> QED
    BY <1>1, Inv, PTL

\* An agent that follows the hints of lcm_describe's pages to the end has seen
\* every visible message of the leaf.
THEOREM PagingComplete == Spec => []PagesComplete
<1>1. IInv => PagesComplete
    BY DEF IInv, PageOk, PageSeen, PagesComplete
<1> QED
    BY <1>1, Inv, PTL
==============================================================================
