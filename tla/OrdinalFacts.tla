---------------------------- MODULE OrdinalFacts ----------------------------
(***************************************************************************)
(* Facts that the proofs about context items share: the least and the      *)
(* greatest of a set of ordinals, the place of an ordinal among others,    *)
(* and sums of token counts over sets of ordinals.                         *)
(***************************************************************************)
EXTENDS Integers, FiniteSetsExt, FiniteSetTheorems, WellFoundedInduction, TLAPS

\* A non-empty set of naturals has a least element.
LEMMA LeastNat ==
    ASSUME NEW S, S \subseteq Nat, S # {}
    PROVE  \E x \in S : \A y \in S : x <= y
<1>1. PICK x \in S : \A y \in S : ~(<<y, x>> \in OpToRel(<, Nat))
    BY NatLessThanWellFounded, WFMin
<1>2. ASSUME NEW y \in S, y < x PROVE FALSE
    <2>1. <<y, x>> \in Nat \X Nat /\ <<y, x>>[1] < <<y, x>>[2]
        BY <1>2
    <2>2. <<y, x>> \in OpToRel(<, Nat)
        BY <2>1, Zenon DEF OpToRel
    <2> QED
        BY <1>1, <2>2
<1>3. ASSUME NEW y \in S PROVE x <= y
    <2>1. x \in Nat /\ y \in Nat /\ ~(y < x)
        BY <1>2
    <2> QED
        BY <2>1
<1> QED
    BY <1>3

\* What Min returns on ordinals.
LEMMA MinFacts ==
    ASSUME NEW S, S \subseteq Nat, S # {}
    PROVE  /\ Min(S) \in S
           /\ \A y \in S : Min(S) <= y
BY LeastNat DEF Min

\* The values of a function at finitely many places.
LEMMA ImageFinite ==
    ASSUME NEW S, IsFiniteSet(S), NEW f
    PROVE  IsFiniteSet({f[x] : x \in S})
<1> DEFINE T == {f[x] : x \in S}
           g == [x \in S |-> f[x]]
<1>1. g \in Surjection(S, T)
    BY DEF Surjection
<1> QED
    BY <1>1, FS_Surjection

\* How many ordinals of D are below o.
Place(D, o) == Cardinality({p \in D : p < o})

\* Places run from 0 to one less than the number of ordinals, in their order.
LEMMA PlaceFacts ==
    ASSUME NEW D, D \subseteq Nat, IsFiniteSet(D)
    PROVE  /\ Cardinality(D) \in Nat
           /\ \A o \in D : Place(D, o) \in 0 .. Cardinality(D) - 1
           /\ \A o, p \in D : o < p => Place(D, o) < Place(D, p)
<1> DEFINE Below(o) == {p \in D : p < o}
<1>1. ASSUME NEW o \in D
      PROVE  /\ Cardinality(D) \in Nat
             /\ Cardinality(Below(o)) \in Nat
             /\ Cardinality(Below(o)) <= Cardinality(D)
             /\ Cardinality(Below(o)) # Cardinality(D)
    <2>1. o \in D \ Below(o)
        OBVIOUS
    <2> QED
        BY <2>1, FS_Subset, FS_CardinalityType
<1>2. ASSUME NEW o \in D, NEW p \in D, o < p
      PROVE  Cardinality(Below(o)) < Cardinality(Below(p))
    <2>1. /\ \A q \in Nat : q < o => q < p
          /\ ~(o < o)
        BY <1>2
    <2>2. /\ Below(o) \subseteq Below(p)
          /\ o \in Below(p)
          /\ o \notin Below(o)
        BY <1>2, <2>1
    <2>3. IsFiniteSet(Below(p))
        BY FS_Subset
    <2>4. Cardinality(Below(o)) # Cardinality(Below(p))
        BY <2>2, <2>3, FS_Subset
    <2>5. Cardinality(Below(o)) <= Cardinality(Below(p))
        BY <2>2, <2>3, FS_Subset
    <2> QED
        BY <1>1, <2>4, <2>5
<1>3. \A o \in D : Cardinality(Below(o)) \in 0 .. Cardinality(D) - 1
    BY <1>1
<1> QED
    BY <1>2, <1>3, FS_CardinalityType DEF Place

\* Every number below the count of ordinals is the place of one of them.
LEMMA PlaceOnto ==
    ASSUME NEW D, D \subseteq Nat, IsFiniteSet(D),
           NEW i \in 0 .. Cardinality(D) - 1
    PROVE  \E o \in D : Place(D, o) = i
<1> DEFINE T == 0 .. Cardinality(D) - 1
           f == [o \in D |-> Place(D, o)]
<1>1. Cardinality(D) \in Nat
    BY PlaceFacts
<1>2. ASSUME NEW o \in D, NEW p \in D, o # p PROVE f[o] # f[p]
    <2>1. o < p \/ p < o
        BY <1>2
    <2>2. /\ Place(D, o) \in 0 .. Cardinality(D) - 1
          /\ Place(D, p) \in 0 .. Cardinality(D) - 1
          /\ o < p => Place(D, o) < Place(D, p)
          /\ p < o => Place(D, p) < Place(D, o)
        BY PlaceFacts
    <2>3. Place(D, o) # Place(D, p)
        BY <1>1, <2>1, <2>2
    <2> QED
        BY <2>3
<1>3. f \in [D -> T]
    BY PlaceFacts
<1>4. f \in Injection(D, T)
    BY <1>2, <1>3 DEF Injection, IsInjective
<1>5. IsFiniteSet(T) /\ Cardinality(T) = Cardinality(D)
    BY <1>1, FS_Interval
<1>6. f \in Surjection(D, T)
    BY <1>4, <1>5, FS_Injection
<1> QED
    BY <1>6 DEF Surjection

\* What Max returns on ordinals: the one of the highest place.
LEMMA MaxFacts ==
    ASSUME NEW S, S \subseteq Nat, IsFiniteSet(S), S # {}
    PROVE  /\ Max(S) \in S
           /\ \A y \in S : y <= Max(S)
<1>1. Cardinality(S) \in Nat \ {0}
    BY FS_EmptySet, PlaceFacts
<1>2. Cardinality(S) - 1 \in 0 .. Cardinality(S) - 1
    BY <1>1
<1>3. PICK o \in S : Place(S, o) = Cardinality(S) - 1
    BY <1>2, PlaceOnto
<1>4. ASSUME NEW p \in S, o < p PROVE FALSE
    <2>1. Place(S, p) \in 0 .. Cardinality(S) - 1 /\ Place(S, o) < Place(S, p)
        BY <1>4, PlaceFacts
    <2> QED
        BY <1>1, <1>3, <2>1
<1>5. \A p \in S : o >= p
    BY <1>4
<1>6. \A x \in S : (\A y \in S : x >= y) => (\A y \in S : y <= x)
    OBVIOUS
<1> QED
    BY <1>5, <1>6 DEF Max

-----------------------------------------------------------------------------
(***************************************************************************)
(* Sums of tokens.  MapThenSumSet takes the elements of a set in an order  *)
(* of its own; these lemmas say that the order does not matter.            *)
(***************************************************************************)

\* g is the recursion of MapThenSumSet over the subsets of S.
Adds(g, F, S) ==
    g = [s \in SUBSET S |->
            IF s = {} THEN 0
            ELSE F[CHOOSE x \in s : TRUE] + g[s \ {CHOOSE x \in s : TRUE}]]

\* v is the sum of F over S.
IsSum(v, F, S) == \E g : Adds(g, F, S) /\ v = g[S]

\* A non-empty family of finite sets has one of least cardinality.
LEMMA SmallestSet ==
    ASSUME NEW U, IsFiniteSet(U), NEW B, B \subseteq SUBSET U, B # {}
    PROVE  \E T \in B : \A V \in B : Cardinality(T) <= Cardinality(V)
<1> DEFINE N == {Cardinality(T) : T \in B}
<1>1. \A T \in B : Cardinality(T) \in Nat
    BY FS_Subset, FS_CardinalityType
<1>2. N \subseteq Nat /\ N # {}
    BY <1>1
<1>3. PICK n \in N : \A m \in N : n <= m
    BY <1>2, LeastNat
<1> QED
    BY <1>3

\* The recursion has a solution on a finite set.
LEMMA SumsExist ==
    ASSUME NEW F, NEW S, IsFiniteSet(S)
    PROVE  \E g : Adds(g, F, S)
<1> DEFINE Pick(s) == CHOOSE x \in s : TRUE
           Value(g, s) == IF s = {} THEN 0 ELSE F[Pick(s)] + g[s \ {Pick(s)}]
           Upto(g, n) == \A s \in SUBSET S : Cardinality(s) <= n => g[s] = Value(g, s)
           Good(n) == \E g : g = [s \in SUBSET S |-> g[s]] /\ Upto(g, n)
           Bad == {n \in Nat : ~Good(n)}
<1>1. \A s \in SUBSET S : IsFiniteSet(s) /\ Cardinality(s) \in Nat
    BY FS_Subset, FS_CardinalityType
<1>2. Good(0)
    <2> DEFINE g == [s \in SUBSET S |-> 0]
    <2>1. g = [s \in SUBSET S |-> g[s]]
        OBVIOUS
    <2>2. ASSUME NEW s \in SUBSET S, Cardinality(s) <= 0 PROVE g[s] = Value(g, s)
        <3>1. s = {}
            BY <2>2, <1>1, FS_EmptySet
        <3> QED
            BY <3>1
    <2> QED
        BY <2>1, <2>2
<1>3. ASSUME NEW n \in Nat, Good(n) PROVE Good(n + 1)
    <2>1. PICK g : g = [s \in SUBSET S |-> g[s]] /\ Upto(g, n)
        BY <1>3
    <2> DEFINE h == [s \in SUBSET S |-> IF Cardinality(s) <= n THEN g[s] ELSE Value(g, s)]
    <2>2. h = [s \in SUBSET S |-> h[s]]
        OBVIOUS
    <2>3. ASSUME NEW s \in SUBSET S, Cardinality(s) <= n + 1 PROVE h[s] = Value(h, s)
        <3>1. CASE s = {}
            <4>1. Cardinality(s) <= n
                BY <3>1, FS_EmptySet
            <4> QED
                BY <2>1, <4>1, <3>1
        <3>2. CASE s # {}
            <4> DEFINE t == s \ {Pick(s)}
            <4>1. Pick(s) \in s
                BY <3>2
            <4>2. t \in SUBSET S /\ Cardinality(t) = Cardinality(s) - 1
                BY <4>1, <1>1, FS_RemoveElement
            <4>3. Cardinality(t) <= n
                BY <4>2, <2>3, <1>1
            <4>4. h[t] = g[t]
                BY <4>2, <4>3
            <4>5. h[s] = Value(g, s)
                BY <2>1
            <4> QED
                BY <4>4, <4>5, <3>2
        <3> QED
            BY <3>1, <3>2
    <2> HIDE DEF h
    <2> QED
        BY <2>2, <2>3
<1> HIDE DEF Good
<1>4. Bad = {}
    <2>1. SUFFICES ASSUME Bad # {} PROVE FALSE
        OBVIOUS
    <2>2. PICK n \in Bad : \A m \in Bad : n <= m
        BY <2>1, LeastNat
    <2>3. n # 0
        BY <1>2, <2>2
    <2>4. n - 1 \in Nat /\ n - 1 \notin Bad
        BY <2>2, <2>3
    <2>5. Good(n - 1 + 1)
        BY <2>4, <1>3
    <2> QED
        BY <2>5, <2>2
<1>5. Good(Cardinality(S))
    BY <1>4, FS_CardinalityType
<1>6. PICK g : g = [s \in SUBSET S |-> g[s]] /\ Upto(g, Cardinality(S))
    BY <1>5 DEF Good
<1>7. \A s \in SUBSET S : g[s] = Value(g, s)
    BY <1>6, FS_Subset
<1>8. g = [s \in SUBSET S |-> Value(g, s)]
    BY <1>6, <1>7
<1> QED
    BY <1>8 DEF Adds

\* Any element may be taken first.
Taken(g, F, S) ==
    /\ g[{}] = 0
    /\ \A s \in SUBSET S : g[s] \in Int
    /\ \A s \in SUBSET S : \A x \in s : g[s] = F[x] + g[s \ {x}]

\* Whatever element is taken first.
LEMMA SumsTake ==
    ASSUME NEW S, NEW F, NEW g, Adds(g, F, S), IsFiniteSet(S), \A x \in S : F[x] \in Int
    PROVE  Taken(g, F, S)
<1> DEFINE Pick(s) == CHOOSE x \in s : TRUE
<1>1. g[{}] = 0
    BY DEF Adds
<1>2. \A s \in SUBSET S : s # {} =>
          Pick(s) \in s /\ g[s] = F[Pick(s)] + g[s \ {Pick(s)}]
    BY DEF Adds
<1>3. \A s \in SUBSET S : IsFiniteSet(s) /\ Cardinality(s) \in Nat
    BY FS_Subset, FS_CardinalityType
<1>4. \A s \in SUBSET S : \A x \in s :
          s \ {x} \in SUBSET S /\ Cardinality(s \ {x}) < Cardinality(s)
    <2> TAKE s \in SUBSET S
    <2> TAKE x \in s
    <2>1. Cardinality(s \ {x}) = Cardinality(s) - 1
        BY <1>3, FS_RemoveElement
    <2> QED
        BY <2>1, <1>3
<1> HIDE DEF Pick
<1>5. \A s \in SUBSET S : g[s] \in Int
    <2> DEFINE B == {s \in SUBSET S : g[s] \notin Int}
    <2>1. SUFFICES ASSUME B # {} PROVE FALSE
        OBVIOUS
    <2>2. PICK s \in B : \A t \in B : Cardinality(s) <= Cardinality(t)
        BY <2>1, SmallestSet
    <2>3. s # {}
        <3>1. g[s] \notin Int
            BY <2>2
        <3> QED
            BY <3>1, <1>1
    <2> DEFINE t == s \ {Pick(s)}
    <2>4. Pick(s) \in s /\ g[s] = F[Pick(s)] + g[t] /\ t \in SUBSET S
          /\ Cardinality(t) < Cardinality(s)
        BY <2>2, <2>3, <1>2, <1>4
    <2>5. t \notin B
        BY <2>2, <2>4, <1>3
    <2>6. g[t] \in Int /\ F[Pick(s)] \in Int
        BY <2>4, <2>5
    <2> QED
        BY <2>2, <2>4, <2>6
<1>6. \A s \in SUBSET S : \A x \in s : g[s] = F[x] + g[s \ {x}]
    <2> DEFINE B == {s \in SUBSET S : \E x \in s : g[s] # F[x] + g[s \ {x}]}
    <2>1. SUFFICES ASSUME B # {} PROVE FALSE
        OBVIOUS
    <2>2. PICK s \in B : \A t \in B : Cardinality(s) <= Cardinality(t)
        BY <2>1, SmallestSet
    <2>3. PICK x \in s : g[s] # F[x] + g[s \ {x}]
        BY <2>2
    <2> DEFINE y == Pick(s)
               u == s \ {x}
               w == s \ {y}
               v == (s \ {x}) \ {y}
    <2>4. y \in s /\ g[s] = F[y] + g[w]
        BY <2>2, <1>2
    <2>5. x # y
        BY <2>3, <2>4
    <2>6. u \in SUBSET S /\ w \in SUBSET S /\ Cardinality(u) < Cardinality(s)
          /\ Cardinality(w) < Cardinality(s)
        BY <2>2, <2>4, <1>4
    <2>7. u \notin B /\ w \notin B
        BY <2>2, <2>6, <1>3
    <2>8. y \in u /\ x \in w /\ w \ {x} = v
        BY <2>4, <2>5
    <2>9. g[u] = F[y] + g[v]
        BY <2>6, <2>7, <2>8
    <2>10. g[w] = F[x] + g[v]
        BY <2>6, <2>7, <2>8
    <2>11. v \in SUBSET S /\ g[v] \in Int /\ F[x] \in Int /\ F[y] \in Int
        BY <2>2, <2>4, <1>5
    <2>12. g[s] = F[x] + g[u]
        BY <2>4, <2>9, <2>10, <2>11
    <2> QED
        BY <2>12, <2>3
<1> QED
    BY <1>1, <1>5, <1>6 DEF Taken

\* Sums of values that correspond are equal.
LEMMA SumsCorrespond ==
    ASSUME NEW S, NEW F, NEW g, Adds(g, F, S), IsFiniteSet(S), \A x \in S : F[x] \in Int,
           NEW T, NEW G, NEW h, Adds(h, G, T), IsFiniteSet(T), \A y \in T : G[y] \in Int,
           NEW b, \A x \in S : b[x] \in T /\ F[x] = G[b[x]],
           \A x, y \in S : x # y => b[x] # b[y]
    PROVE  \A s \in SUBSET S : g[s] = h[{b[x] : x \in s}]
<1>0. \A u \in SUBSET T : \A y \in u : h[u] = G[y] + h[u \ {y}]
    <2>1. Taken(h, G, T)
        BY SumsTake
    <2> QED
        BY <2>1 DEF Taken
<1> DEFINE Img(s) == {b[x] : x \in s}
           B == {s \in SUBSET S : g[s] # h[Img(s)]}
<1>1. SUFFICES ASSUME B # {} PROVE FALSE
    OBVIOUS
<1>2. PICK s \in B : \A t \in B : Cardinality(s) <= Cardinality(t)
    BY <1>1, SmallestSet
<1>3. g[{}] = 0 /\ h[{}] = 0
    <2>1. Taken(g, F, S) /\ Taken(h, G, T)
        BY SumsTake
    <2> QED
        BY <2>1 DEF Taken
<1>4. Img({}) = {}
    OBVIOUS
<1>5. s # {}
    BY <1>2, <1>3, <1>4
<1>6. PICK x \in s : TRUE
    BY <1>5
<1> DEFINE t == s \ {x}
<1>7. t \in SUBSET S /\ t \notin B
    <2>1. IsFiniteSet(s)
        BY <1>2, FS_Subset
    <2>2. Cardinality(s) \in Nat /\ Cardinality(t) = Cardinality(s) - 1
        BY <2>1, <1>6, FS_RemoveElement, FS_CardinalityType
    <2> QED
        BY <2>2, <1>2
<1>8. Img(s) \ {b[x]} = Img(t)
    BY <1>2, <1>6
<1>9. Img(s) \in SUBSET T /\ b[x] \in Img(s)
    BY <1>2, <1>6
<1>10. g[s] = F[x] + g[t]
    <2>1. Taken(g, F, S)
        BY SumsTake
    <2> QED
        BY <2>1, <1>2, <1>6 DEF Taken
<1> HIDE DEF Img
<1>11. h[Img(s)] = G[b[x]] + h[Img(s) \ {b[x]}]
    BY <1>0, <1>9
<1>12. g[t] = h[Img(t)]
    BY <1>7
<1>13. F[x] = G[b[x]]
    BY <1>2, <1>6
<1> QED
    BY <1>2, <1>8, <1>10, <1>11, <1>12, <1>13

\* The sum of F over S.
SumOf(F, S) == CHOOSE v : IsSum(v, F, S)

\* There is one.
LEMMA SumOfIs ==
    ASSUME NEW S, IsFiniteSet(S), NEW F, \A x \in S : F[x] \in Int
    PROVE  /\ IsSum(SumOf(F, S), F, S)
           /\ SumOf(F, S) \in Int
           /\ \A v : IsSum(v, F, S) => v = SumOf(F, S)
<1>1. \E v : IsSum(v, F, S)
    BY SumsExist DEF IsSum
<1>2. IsSum(SumOf(F, S), F, S)
    BY <1>1 DEF SumOf
<1>3. ASSUME NEW v, NEW w, IsSum(v, F, S), IsSum(w, F, S) PROVE v = w
    <2>1. PICK g : Adds(g, F, S) /\ v = g[S]
        BY <1>3 DEF IsSum
    <2>2. PICK h : Adds(h, F, S) /\ w = h[S]
        BY <1>3 DEF IsSum
    <2> DEFINE b == [x \in S |-> x]
    <2>3. /\ \A x \in S : b[x] \in S /\ F[x] = F[b[x]]
          /\ \A x, y \in S : x # y => b[x] # b[y]
        OBVIOUS
    <2>4. {b[x] : x \in S} = S
        OBVIOUS
    <2> HIDE DEF b
    <2>5. \A s \in SUBSET S : g[s] = h[{b[x] : x \in s}]
        BY <2>1, <2>2, <2>3, SumsCorrespond
    <2> QED
        BY <2>1, <2>2, <2>4, <2>5
<1>4. ASSUME NEW v, IsSum(v, F, S) PROVE v \in Int
    BY <1>4, SumsTake DEF IsSum, Taken
<1> QED
    BY <1>2, <1>3, <1>4

\* Equal summands, equal sums, under other names and in other places.
Matches(b, F, S, G, T) ==
    /\ IsFiniteSet(S) /\ IsFiniteSet(T)
    /\ \A y \in T : G[y] \in Int
    /\ \A x \in S : b[x] \in T /\ F[x] = G[b[x]]
    /\ \A x, y \in S : x # y => b[x] # b[y]
    /\ \A y \in T : \E x \in S : b[x] = y

\* Renaming the elements, one to one, leaves the sum.
LEMMA SumRenamed ==
    ASSUME NEW b, NEW F, NEW S, NEW G, NEW T, Matches(b, F, S, G, T)
    PROVE  SumOf(F, S) = SumOf(G, T)
<1> USE DEF Matches
<1>1. \A x \in S : F[x] \in Int
    OBVIOUS
<1>2. PICK g : Adds(g, F, S) /\ SumOf(F, S) = g[S]
    BY <1>1, SumOfIs DEF IsSum
<1>3. PICK h : Adds(h, G, T) /\ SumOf(G, T) = h[T]
    BY SumOfIs DEF IsSum
<1>4. \A s \in SUBSET S : g[s] = h[{b[x] : x \in s}]
    BY <1>1, <1>2, <1>3, SumsCorrespond
<1>5. {b[x] : x \in S} = T
    OBVIOUS
<1> QED
    BY <1>2, <1>3, <1>4, <1>5

\* Two functions that agree on a set have one sum over it.
LEMMA SumSame ==
    ASSUME NEW S, IsFiniteSet(S), NEW F, NEW G, \A x \in S : G[x] \in Int /\ F[x] = G[x]
    PROVE  SumOf(F, S) = SumOf(G, S)
<1> DEFINE b == [x \in S |-> x]
<1>1. /\ \A x \in S : b[x] \in S /\ F[x] = G[b[x]]
      /\ \A x, y \in S : x # y => b[x] # b[y]
      /\ \A y \in S : \E x \in S : b[x] = y
    OBVIOUS
<1>2. \A x \in S : G[x] \in Int
    OBVIOUS
<1> HIDE DEF b
<1>3. Matches(b, F, S, G, S)
    BY <1>1, <1>2 DEF Matches
<1> QED
    BY <1>3, SumRenamed

\* One element more.
LEMMA SumAdd ==
    ASSUME NEW S, IsFiniteSet(S), NEW F, NEW x, x \notin S,
           \A y \in S \cup {x} : F[y] \in Int
    PROVE  SumOf(F, S \cup {x}) = F[x] + SumOf(F, S)
<1> DEFINE U == S \cup {x}
<1>1. IsFiniteSet(U)
    BY FS_AddElement
<1>2. PICK g : Adds(g, F, U) /\ SumOf(F, U) = g[U]
    BY <1>1, SumOfIs DEF IsSum
<1>3. PICK h : Adds(h, F, S) /\ SumOf(F, S) = h[S]
    BY SumOfIs DEF IsSum
<1> DEFINE b == [y \in S |-> y]
<1>4. /\ \A y \in S : b[y] \in U /\ F[y] = F[b[y]]
      /\ \A y, z \in S : y # z => b[y] # b[z]
    OBVIOUS
<1>5. {b[y] : y \in S} = S
    OBVIOUS
<1> HIDE DEF b
<1>6. h[S] = g[S]
    <2>1. \A s \in SUBSET S : h[s] = g[{b[y] : y \in s}]
        BY <1>1, <1>2, <1>3, <1>4, SumsCorrespond
    <2> QED
        BY <2>1, <1>5
<1>7. U \ {x} = S
    OBVIOUS
<1>8. g[U] = F[x] + g[U \ {x}]
    BY <1>1, <1>2, SumsTake DEF Taken
<1> QED
    BY <1>2, <1>3, <1>6, <1>7, <1>8

\* Nothing sums to 0, a single element to its value.
LEMMA SumEmpty ==
    ASSUME NEW F
    PROVE  SumOf(F, {}) = 0
<1>1. IsFiniteSet({}) /\ \A x \in {} : F[x] \in Int
    BY FS_EmptySet
<1>2. PICK g : Adds(g, F, {}) /\ SumOf(F, {}) = g[{}]
    BY <1>1, SumOfIs DEF IsSum
<1> QED
    BY <1>1, <1>2, SumsTake DEF Taken

\* Over two disjoint sets.
LEMMA SumUnion ==
    ASSUME NEW S, IsFiniteSet(S), NEW T, IsFiniteSet(T), S \cap T = {}, NEW F,
           \A x \in S \cup T : F[x] \in Int
    PROVE  SumOf(F, S \cup T) = SumOf(F, S) + SumOf(F, T)
<1> DEFINE B == {s \in SUBSET S : SumOf(F, s \cup T) # SumOf(F, s) + SumOf(F, T)}
<1>1. SUFFICES ASSUME B # {} PROVE FALSE
    OBVIOUS
<1>2. PICK s \in B : \A t \in B : Cardinality(s) <= Cardinality(t)
    BY <1>1, SmallestSet
<1>3. SumOf(F, T) \in Int
    BY SumOfIs
<1>4. s # {}
    <2>1. ASSUME s = {} PROVE FALSE
        <3>1. s \cup T = T /\ SumOf(F, s) = 0
            BY <2>1, SumEmpty
        <3> QED
            BY <3>1, <1>3, <1>2
    <2> QED
        BY <2>1
<1>5. PICK x \in s : TRUE
    BY <1>4
<1> DEFINE t == s \ {x}
<1>6. IsFiniteSet(s) /\ IsFiniteSet(t) /\ IsFiniteSet(t \cup T)
    BY <1>2, FS_Subset, FS_Union
<1>7. t \in SUBSET S /\ t \notin B
    <2>1. Cardinality(s) \in Nat /\ Cardinality(t) = Cardinality(s) - 1
        BY <1>6, <1>5, FS_RemoveElement, FS_CardinalityType
    <2> QED
        BY <2>1, <1>2
<1>8. SumOf(F, t \cup T) = SumOf(F, t) + SumOf(F, T)
    BY <1>7
<1>9. t \cup {x} = s /\ (t \cup T) \cup {x} = s \cup T /\ x \notin t /\ x \notin t \cup T
    BY <1>2, <1>5
<1>10. F[x] \in Int /\ (\A y \in t \cup {x} : F[y] \in Int)
       /\ \A y \in (t \cup T) \cup {x} : F[y] \in Int
    BY <1>2, <1>5
<1>11. SumOf(F, t) \in Int
    BY <1>6, <1>10, SumOfIs
<1> HIDE DEF t
<1>12. SumOf(F, s) = F[x] + SumOf(F, t)
    BY <1>6, <1>9, <1>10, SumAdd
<1>13. SumOf(F, s \cup T) = F[x] + SumOf(F, t \cup T)
    BY <1>6, <1>9, <1>10, SumAdd
<1> QED
    BY <1>2, <1>3, <1>8, <1>10, <1>11, <1>12, <1>13

\* Sums of naturals are naturals.
LEMMA SumNat ==
    ASSUME NEW S, IsFiniteSet(S), NEW F, \A x \in S : F[x] \in Nat
    PROVE  SumOf(F, S) \in Nat
<1> DEFINE B == {s \in SUBSET S : SumOf(F, s) \notin Nat}
<1>1. SUFFICES ASSUME B # {} PROVE FALSE
    OBVIOUS
<1>2. PICK s \in B : \A t \in B : Cardinality(s) <= Cardinality(t)
    BY <1>1, SmallestSet
<1>3. s # {}
    BY <1>2, SumEmpty
<1>4. PICK x \in s : TRUE
    BY <1>3
<1> DEFINE t == s \ {x}
<1>5. IsFiniteSet(s) /\ IsFiniteSet(t)
    BY <1>2, FS_Subset
<1>6. t \in SUBSET S /\ t \notin B
    <2>1. Cardinality(s) \in Nat /\ Cardinality(t) = Cardinality(s) - 1
        BY <1>5, <1>4, FS_RemoveElement, FS_CardinalityType
    <2> QED
        BY <2>1, <1>2
<1>7. t \cup {x} = s /\ x \notin t /\ F[x] \in Nat /\ \A y \in t \cup {x} : F[y] \in Int
    BY <1>2, <1>4
<1>8. SumOf(F, t) \in Nat
    BY <1>6
<1> HIDE DEF t
<1>9. SumOf(F, s) = F[x] + SumOf(F, t)
    BY <1>5, <1>7, SumAdd
<1> QED
    BY <1>2, <1>7, <1>8, <1>9
=============================================================================
