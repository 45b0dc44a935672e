---------------------------- MODULE SessionProofs ----------------------------
(***************************************************************************)
(* What serves one session, for any instance: the registry of session      *)
(* locks (SessionLocks), the transcript assembled for a request            *)
(* (Assembly) and the syntheses it asks for (Synthesis).                   *)
(***************************************************************************)
EXTENDS SessionLocks, Synthesis, Assembly, OrdinalFacts

-----------------------------------------------------------------------------
(* Session locks. *)

\* A thread outside acquire_sync refers to no session and no lock object, and
\* only such a thread does.
Phases ==
    \A t \in Threads : /\ sess[t] = NoLock <=> pc[t] = "idle"
                       /\ mine[t] = NoLock <=> pc[t] = "idle"

\* The inductive invariant: exclusion holds because the threads of a session
\* all have the object of the dictionary, which holds because no record that is
\* counted on is pruned, which holds because the counts are exact.
LocksInv ==
    /\ TypeOK
    /\ Phases
    /\ RecordsKept
    /\ SessionExclusive
    /\ IdleBounded

-----------------------------------------------------------------------------
\* The threads that a function f sends to s, as a finite set: f is sess before
\* or after a step.
LEMMA UserSet ==
    ASSUME NEW f, NEW s
    PROVE  LET U == {t \in Threads : f[t] = s}
           IN  /\ IsFiniteSet(U)
               /\ Cardinality(U) \in Nat
               /\ Cardinality(U) = 0 <=> U = {}
<1> DEFINE U == {t \in Threads : f[t] = s}
<1>1. IsFiniteSet(U)
  <2>1. U \in SUBSET Threads
    OBVIOUS
  <2> HIDE DEF U
  <2> QED  BY <2>1, FS_Subset, RegistryAssumption
<1>2. Cardinality(U) \in Nat /\ (Cardinality(U) = 0 <=> U = {})
  <2> HIDE DEF U
  <2> QED  BY <1>1, FS_CardinalityType, FS_EmptySet
<1> QED  BY <1>1, <1>2

\* Any set of sessions is finite, and larger sets are not smaller in number.
LEMMA SessionSets ==
    ASSUME NEW A \in SUBSET Sessions, NEW B \in SUBSET A
    PROVE  /\ IsFiniteSet(A) /\ Cardinality(A) \in Nat
           /\ IsFiniteSet(B) /\ Cardinality(B) \in Nat
           /\ Cardinality(B) <= Cardinality(A)
<1>1. IsFiniteSet(A)
  BY FS_Subset, RegistryAssumption
<1>2. IsFiniteSet(B) /\ Cardinality(B) <= Cardinality(A)
  BY <1>1, FS_Subset
<1> QED  BY <1>1, <1>2, FS_CardinalityType

\* Counting in: the users of s gain t, the users of another session do not change.
LEMMA CountIn ==
    ASSUME TypeOK, NEW t \in Threads, NEW s \in Sessions,
           sess[t] = NoLock, sess' = [sess EXCEPT ![t] = s]
    PROVE  /\ Cardinality(Users(s)') = Cardinality(Users(s)) + 1
           /\ \A r \in Sessions \ {s} : Users(r)' = Users(r)
           /\ \A r \in Sessions : Users(r) \subseteq Users(r)'
<1>1. s # NoLock /\ NoLock \notin Sessions
  BY RegistryAssumption
<1>2. t \notin Users(s) /\ Users(s)' = Users(s) \cup {t}
  BY <1>1 DEF TypeOK, Users
<1>3. IsFiniteSet(Users(s))
  BY UserSet DEF Users
<1>4. Cardinality(Users(s)') = Cardinality(Users(s)) + 1
  BY <1>2, <1>3, FS_AddElement
<1>5. \A r \in Sessions \ {s} : Users(r)' = Users(r)
  BY <1>1 DEF TypeOK, Users
<1>6. \A r \in Sessions : Users(r) \subseteq Users(r)'
  BY <1>2, <1>5
<1> QED  BY <1>4, <1>5, <1>6

\* Counting out: the users of t's session lose t.
LEMMA CountOut ==
    ASSUME TypeOK, NEW t \in Threads, sess[t] \in Sessions,
           sess' = [sess EXCEPT ![t] = NoLock]
    PROVE  /\ Cardinality(Users(sess[t])) \in Nat \ {0}
           /\ Cardinality({u \in Threads : sess'[u] = sess[t]})
                = Cardinality(Users(sess[t])) - 1
           /\ \A r \in Sessions \ {sess[t]} : Users(r)' = Users(r)
<1> DEFINE s == sess[t]
           V == {u \in Threads : sess'[u] = s}
<1>1. s # NoLock /\ NoLock \notin Sessions
  BY RegistryAssumption
<1>2. t \in Users(s) /\ V = Users(s) \ {t}
  BY <1>1 DEF TypeOK, Users
<1>3. IsFiniteSet(Users(s)) /\ Cardinality(Users(s)) \in Nat
      /\ (Cardinality(Users(s)) = 0 <=> Users(s) = {})
  BY UserSet DEF Users
<1>4. Cardinality(V) = Cardinality(Users(s)) - 1
  <2> HIDE DEF V
  <2> QED  BY <1>2, <1>3, FS_RemoveElement
<1>5. \A r \in Sessions \ {s} : Users(r)' = Users(r)
  BY <1>1 DEF TypeOK, Users
<1> QED  BY <1>2, <1>3, <1>4, <1>5

-----------------------------------------------------------------------------
LEMMA InitInv == LocksInit => LocksInv
<1> SUFFICES ASSUME LocksInit PROVE LocksInv
  OBVIOUS
<1>1. NoLock \notin Sessions /\ NoLock \notin LockIds
  BY RegistryAssumption
<1>2. TypeOK
  BY DEF LocksInit, TypeOK
<1>3. Phases /\ SessionExclusive
  BY DEF LocksInit, Phases, SessionExclusive
<1>4. RecordsKept
  <2>1. \A s \in Sessions : Users(s) = {}
    BY <1>1 DEF LocksInit, Users
  <2> QED  BY <2>1, FS_EmptySet DEF LocksInit, RecordsKept
<1>5. IdleBounded
  <2>1. {s \in Registered : Users(s) = {}} = {}
    BY DEF LocksInit, Registered
  <2> QED  BY <2>1, FS_EmptySet, RegistryAssumption DEF IdleBounded
<1> QED  BY <1>2, <1>3, <1>4, <1>5 DEF LocksInv

\* Steps that leave the dictionary and the threads' references alone.
LEMMA LocksQuiet ==
    ASSUME LocksInv, UNCHANGED <<reg, refcount, sess, mine>>
    PROVE  RecordsKept' /\ IdleBounded'
<1>1. \A s \in Sessions : Users(s)' = Users(s)
  BY DEF Users
<1>2. RecordsKept'
  BY <1>1 DEF LocksInv, RecordsKept
<1>3. Registered' = Registered
  BY DEF Registered
<1>4. {s \in Registered : Users(s) = {}}' = {s \in Registered : Users(s) = {}}
  BY <1>1, <1>3 DEF Registered, Users
<1> QED  BY <1>2, <1>4 DEF LocksInv, IdleBounded

LEMMA AcquireStep ==
    ASSUME LocksInv, NEW t \in Threads, NEW s \in Sessions, AcquireRecord(t, s)
    PROVE  LocksInv'
<1>1. PICK l \in LockIds :
        /\ IF reg[s] = NoLock THEN Fresh(l) ELSE l = reg[s]
        /\ reg' = [reg EXCEPT ![s] = l]
        /\ mine' = [mine EXCEPT ![t] = l]
  BY DEF AcquireRecord
<1>2. /\ refcount' = [refcount EXCEPT ![s] = @ + 1]
      /\ sess' = [sess EXCEPT ![t] = s]
      /\ pc' = [pc EXCEPT ![t] = "waiting"]
      /\ pc[t] = "idle"
  BY DEF AcquireRecord
<1>3. l # NoLock /\ s # NoLock
  BY RegistryAssumption
<1>4. TypeOK'
  BY <1>1, <1>2 DEF LocksInv, TypeOK
<1>5. Phases'
  BY <1>1, <1>2, <1>3 DEF LocksInv, TypeOK, Phases
<1>6. sess[t] = NoLock
  BY <1>2 DEF LocksInv, Phases
<1>7. /\ Cardinality(Users(s)') = Cardinality(Users(s)) + 1
      /\ \A r \in Sessions \ {s} : Users(r)' = Users(r)
      /\ \A r \in Sessions : Users(r) \subseteq Users(r)'
  BY <1>2, <1>6, CountIn DEF LocksInv
<1>8. RecordsKept'
  <2>1. \A u \in Threads : sess'[u] # NoLock => mine'[u] = reg'[sess'[u]]
    <3> SUFFICES ASSUME NEW u \in Threads, sess'[u] # NoLock
                 PROVE  mine'[u] = reg'[sess'[u]]
      OBVIOUS
    <3>1. CASE u = t
      BY <3>1, <1>1, <1>2 DEF LocksInv, TypeOK
    <3>2. CASE u # t
      <4>1. sess'[u] = sess[u] /\ mine'[u] = mine[u] /\ mine[u] = reg[sess[u]]
        BY <3>2, <1>1, <1>2 DEF LocksInv, TypeOK, RecordsKept
      <4>2. mine[u] # NoLock
        BY <4>1 DEF LocksInv, Phases
      <4>3. CASE sess[u] = s
        BY <4>1, <4>2, <4>3, <1>1 DEF LocksInv, TypeOK
      <4>4. CASE sess[u] # s
        BY <4>1, <4>4, <1>1 DEF LocksInv, TypeOK
      <4> QED  BY <4>3, <4>4
    <3> QED  BY <3>1, <3>2
  <2>2. \A r \in Sessions : refcount'[r] = Cardinality(Users(r)')
    <3> SUFFICES ASSUME NEW r \in Sessions PROVE refcount'[r] = Cardinality(Users(r)')
      OBVIOUS
    <3>1. refcount[r] = Cardinality(Users(r)) /\ refcount[s] = Cardinality(Users(s))
      BY DEF LocksInv, RecordsKept
    <3>2. CASE r = s
      BY <3>1, <3>2, <1>2, <1>7 DEF LocksInv, TypeOK
    <3>3. CASE r # s
      BY <3>1, <3>3, <1>2, <1>7 DEF LocksInv, TypeOK
    <3> QED  BY <3>2, <3>3
  <2> QED  BY <2>1, <2>2 DEF RecordsKept
<1>9. SessionExclusive'
  BY <1>2 DEF LocksInv, TypeOK, SessionExclusive
<1>10. IdleBounded'
  <2> DEFINE A == {r \in Registered : Users(r) = {}}
             B == {r \in Registered : Users(r) = {}}'
  <2>1. s \notin B
    <3>1. t \in Users(s)'
      BY <1>2 DEF Users, LocksInv, TypeOK
    <3> QED  BY <3>1
  <2>2. \A r \in Sessions \ {s} : reg'[r] = reg[r]
    BY <1>1 DEF LocksInv, TypeOK
  <2>3. B \subseteq A
    BY <2>1, <2>2, <1>7 DEF Registered
  <2>4. A \in SUBSET Sessions
    BY DEF Registered
  <2>5. Cardinality(A) <= HighWaterMark
    BY DEF LocksInv, IdleBounded
  <2>6. Cardinality(A) \in Nat /\ Cardinality(B) \in Nat
        /\ Cardinality(B) <= Cardinality(A)
    <3> HIDE DEF A, B
    <3> QED  BY <2>3, <2>4, SessionSets
  <2>7. Cardinality(B) <= HighWaterMark
    <3> HIDE DEF A, B
    <3> QED  BY <2>5, <2>6, RegistryAssumption
  <2> QED  BY <2>7 DEF IdleBounded
<1> QED  BY <1>4, <1>5, <1>8, <1>9, <1>10 DEF LocksInv

\* Pruning with exact counts: the surviving records are the ones in use.
LEMMA PruneFacts ==
    ASSUME TypeOK, NEW n \in [Sessions -> Nat], reg' = Pruned(n),
           \A s \in Sessions : n[s] = 0 <=> Users(s)' = {}
    PROVE  /\ reg' \in [Sessions -> LockIds \cup {NoLock}]
           /\ \A s \in Sessions : Users(s)' # {} => reg'[s] = reg[s]
           /\ IdleBounded'
<1>1. \A s \in Sessions : Users(s)' # {} => reg'[s] = reg[s]
  BY DEF Pruned
<1>2. {s \in Registered : Users(s) = {}}' = {}
  BY DEF Pruned, Registered
<1>3. IdleBounded'
  BY <1>2, FS_EmptySet, RegistryAssumption DEF IdleBounded
<1>4. reg' \in [Sessions -> LockIds \cup {NoLock}]
  BY DEF Pruned, TypeOK
<1> QED  BY <1>1, <1>3, <1>4

LEMMA ReleaseStep ==
    ASSUME LocksInv, NEW t \in Threads, ReleaseRecord(t)
    PROVE  LocksInv'
<1>1. /\ pc[t] = "leaving"
      /\ pc' = [pc EXCEPT ![t] = "idle"]
      /\ sess' = [sess EXCEPT ![t] = NoLock]
      /\ mine' = [mine EXCEPT ![t] = NoLock]
  BY DEF ReleaseRecord
<1>2. sess[t] \in Sessions /\ reg[sess[t]] = mine[t] /\ mine[t] # NoLock
  BY <1>1 DEF LocksInv, Phases, RecordsKept, TypeOK
<1>3. PICK s \in Sessions : s = sess[t]
  BY <1>2
<1>4. refcount' = [refcount EXCEPT ![s] = @ - 1]
  BY <1>2, <1>3 DEF ReleaseRecord
<1>5. reg' = IF Cardinality(Registered) > HighWaterMark THEN Pruned(refcount') ELSE reg
  BY <1>2, <1>3, <1>4 DEF ReleaseRecord
<1>6. /\ Cardinality(Users(s)) \in Nat \ {0}
      /\ Cardinality(Users(s)') = Cardinality(Users(s)) - 1
      /\ \A r \in Sessions \ {s} : Users(r)' = Users(r)
  <2>1. /\ Cardinality(Users(sess[t])) \in Nat \ {0}
        /\ Cardinality({u \in Threads : sess'[u] = sess[t]})
             = Cardinality(Users(sess[t])) - 1
        /\ \A r \in Sessions \ {sess[t]} : Users(r)' = Users(r)
    BY <1>1, <1>2, CountOut DEF LocksInv
  <2>2. Users(s)' = {u \in Threads : sess'[u] = sess[t]}
    BY <1>3 DEF Users
  <2> QED  BY <2>1, <2>2, <1>3
<1>7. \A r \in Sessions : refcount'[r] = Cardinality(Users(r)') /\ refcount'[r] \in Nat
  <2> SUFFICES ASSUME NEW r \in Sessions
               PROVE  refcount'[r] = Cardinality(Users(r)') /\ refcount'[r] \in Nat
    OBVIOUS
  <2>1. refcount[r] = Cardinality(Users(r)) /\ refcount[r] \in Nat
    BY DEF LocksInv, RecordsKept, TypeOK
  <2>2. CASE r = s
    BY <2>1, <2>2, <1>4, <1>6 DEF LocksInv, TypeOK
  <2>3. CASE r # s
    BY <2>1, <2>3, <1>4, <1>6 DEF LocksInv, TypeOK
  <2> QED  BY <2>2, <2>3
<1>8. refcount' \in [Sessions -> Nat]
  BY <1>4, <1>7 DEF LocksInv, TypeOK
<1>9. \A r \in Sessions : refcount'[r] = 0 <=> Users(r)' = {}
  <2>1. \A r \in Sessions : Cardinality(Users(r)') = 0 <=> Users(r)' = {}
    BY UserSet DEF Users
  <2> QED  BY <2>1, <1>7
<1>10. /\ reg' \in [Sessions -> LockIds \cup {NoLock}]
       /\ \A r \in Sessions : Users(r)' # {} => reg'[r] = reg[r]
       /\ IdleBounded'
  <2>1. CASE Cardinality(Registered) > HighWaterMark
    <3>1. PICK n \in [Sessions -> Nat] : n = refcount'
      BY <1>8
    <3>2. reg' = Pruned(n) /\ \A r \in Sessions : n[r] = 0 <=> Users(r)' = {}
      BY <3>1, <2>1, <1>5, <1>9 DEF Pruned
    <3> QED  BY <3>2, PruneFacts DEF LocksInv
  <2>2. CASE ~(Cardinality(Registered) > HighWaterMark)
    <3> DEFINE B == {r \in Registered : Users(r) = {}}'
    <3>1. reg' = reg /\ Registered' = Registered
      BY <2>2, <1>5 DEF Registered
    <3>2. B \subseteq Registered /\ Registered \in SUBSET Sessions
      BY <3>1 DEF Registered
    <3>3. Cardinality(B) \in Nat /\ Cardinality(Registered) \in Nat
          /\ Cardinality(B) <= Cardinality(Registered)
      <4> HIDE DEF B
      <4> QED  BY <3>2, SessionSets
    <3>4. Cardinality(B) <= HighWaterMark
      <4> HIDE DEF B
      <4> QED  BY <3>3, <2>2, RegistryAssumption
    <3>5. IdleBounded'
      BY <3>4 DEF IdleBounded
    <3> QED  BY <3>1, <3>5 DEF LocksInv, TypeOK
  <2> QED  BY <2>1, <2>2
<1>11. TypeOK'
  BY <1>1, <1>8, <1>10 DEF LocksInv, TypeOK
<1>12. Phases'
  BY <1>1 DEF LocksInv, TypeOK, Phases
<1>13. RecordsKept'
  <2> SUFFICES ASSUME NEW u \in Threads, sess'[u] # NoLock
               PROVE  mine'[u] = reg'[sess'[u]]
    BY <1>7 DEF RecordsKept
  <2>1. u # t /\ sess'[u] = sess[u] /\ mine'[u] = mine[u] /\ mine[u] = reg[sess[u]]
    BY <1>1 DEF LocksInv, TypeOK, RecordsKept
  <2>2. PICK r \in Sessions : r = sess[u]
    BY <2>1 DEF LocksInv, TypeOK
  <2>3. u \in Users(r)'
    BY <2>1, <2>2 DEF Users
  <2> QED  BY <2>1, <2>2, <2>3, <1>10
<1>14. SessionExclusive'
  BY <1>1 DEF LocksInv, TypeOK, SessionExclusive
<1> QED  BY <1>10, <1>11, <1>12, <1>13, <1>14 DEF LocksInv

LEMMA PruneStep ==
    ASSUME LocksInv, Prune
    PROVE  LocksInv'
<1>1. UNCHANGED <<refcount, pc, sess, mine>>
  BY DEF Prune
<1>2. \A r \in Sessions : Users(r)' = Users(r)
  BY <1>1 DEF Users
<1>3. \A r \in Sessions : refcount[r] = Cardinality(Users(r)')
  BY <1>2 DEF LocksInv, RecordsKept
<1>4. PICK n \in [Sessions -> Nat] : n = refcount
  BY DEF LocksInv, TypeOK
<1>5. reg' = Pruned(n) /\ \A r \in Sessions : n[r] = 0 <=> Users(r)' = {}
  <2>1. reg' = Pruned(n)
    BY <1>4 DEF Prune
  <2>2. \A r \in Sessions : Cardinality(Users(r)') = 0 <=> Users(r)' = {}
    BY UserSet DEF Users
  <2> QED  BY <2>1, <2>2, <1>3, <1>4
<1>6. /\ reg' \in [Sessions -> LockIds \cup {NoLock}]
      /\ \A r \in Sessions : Users(r)' # {} => reg'[r] = reg[r]
      /\ IdleBounded'
  BY <1>5, PruneFacts DEF LocksInv
<1>7. TypeOK' /\ Phases' /\ SessionExclusive'
  BY <1>1, <1>6 DEF LocksInv, TypeOK, Phases, SessionExclusive
<1>8. RecordsKept'
  <2> SUFFICES ASSUME NEW u \in Threads, sess'[u] # NoLock
               PROVE  mine'[u] = reg'[sess'[u]]
    BY <1>1, <1>3 DEF RecordsKept
  <2>1. PICK r \in Sessions : r = sess[u]
    BY <1>1 DEF LocksInv, TypeOK
  <2>2. u \in Users(r)' /\ mine[u] = reg[r]
    BY <2>1, <1>1 DEF Users, LocksInv, RecordsKept
  <2> QED  BY <2>1, <2>2, <1>1, <1>6
<1> QED  BY <1>6, <1>7, <1>8 DEF LocksInv

\* The invariant is inductive.
LEMMA StepInv == LocksInv /\ [LocksNext]_locksVars => LocksInv'
<1> SUFFICES ASSUME LocksInv, [LocksNext]_locksVars PROVE LocksInv'
  OBVIOUS
<1>1. CASE UNCHANGED locksVars
  <2>1. RecordsKept' /\ IdleBounded'
    BY <1>1, LocksQuiet DEF locksVars
  <2> QED  BY <1>1, <2>1 DEF locksVars, LocksInv, TypeOK, Phases, SessionExclusive
<1>2. ASSUME NEW t \in Threads, EnterBody(t) PROVE LocksInv'
  <2>1. RecordsKept' /\ IdleBounded'
    BY <1>2, LocksQuiet DEF EnterBody
  <2>2. TypeOK' /\ Phases'
    BY <1>2 DEF EnterBody, LocksInv, TypeOK, Phases
  <2>3. \A u \in Threads : pc[u] = "body" => sess[u] # sess[t]
    BY <1>2 DEF EnterBody, LocksInv, Phases, RecordsKept
  <2>4. SessionExclusive'
    BY <1>2, <2>3 DEF EnterBody, LocksInv, TypeOK, SessionExclusive
  <2> QED  BY <2>1, <2>2, <2>4 DEF LocksInv
<1>3. ASSUME NEW t \in Threads, LeaveBody(t) \/ GiveUp(t) PROVE LocksInv'
  <2>1. UNCHANGED <<reg, refcount, sess, mine>>
    BY <1>3 DEF LeaveBody, GiveUp
  <2>2. RecordsKept' /\ IdleBounded'
    BY <2>1, LocksQuiet
  <2>3. TypeOK' /\ Phases' /\ SessionExclusive'
    BY <1>3 DEF LeaveBody, GiveUp, LocksInv, TypeOK, Phases, SessionExclusive
  <2> QED  BY <2>2, <2>3 DEF LocksInv
<1> QED
  BY <1>1, <1>2, <1>3, AcquireStep, ReleaseStep, PruneStep DEF LocksNext

LEMMA LocksInvariance == LocksSpec => []LocksInv
BY InitInv, StepInv, PTL DEF LocksSpec

-----------------------------------------------------------------------------
\* acquire_sync and its prune keep every variable within its type; in
\* particular no refcount goes below zero.
THEOREM LocksTyped == LocksSpec => []TypeOK
BY LocksInvariance, PTL DEF LocksInv

\* For any number of threads and sessions, pruning included, the lock of a
\* session is held by one thread at a time.
THEOREM Exclusion == LocksSpec => []SessionExclusive
BY LocksInvariance, PTL DEF LocksInv

\* For any number of threads and sessions, a record in use is never dropped
\* from the dictionary and its refcount is exact.
THEOREM NoRecordLost == LocksSpec => []RecordsKept
BY LocksInvariance, PTL DEF LocksInv

\* For any number of sessions, the records nobody uses are at most as many as
\* the high-water mark.
THEOREM RegistryBounded == LocksSpec => []IdleBounded
BY LocksInvariance, PTL DEF LocksInv

-----------------------------------------------------------------------------
(* Synthesis. *)

\* The three properties share one inductive invariant, because the latch, the
\* cache and its references speak about the same rows: a call that builds owns
\* a row of its key (Latch), so that a row's fingerprint is what its call
\* selected (ReadyExact); only finished calls are referred to (RefsServed), so
\* that a purge never takes the row from under a call that still builds it; and
\* a call that no purge has overtaken finds its leaves live when it records its
\* references (FlightLive), so that they are complete (Reached).

RowFields == {"id", "win", "fp", "prompt", "status", "content"}

CallFields == {"pc", "tier", "win", "sel", "prompt", "used", "text", "pick", "flagged"}

\* The domains of the tables and of the calls' variables.
Shapes ==
    /\ DOMAIN leaves = Leaves
    /\ DOMAIN unseen = Calls
    /\ DOMAIN call = Calls
    /\ \A c \in Calls : DOMAIN call[c] = CallFields
    /\ \A c \in Around : call[c].sel \subseteq Leaves
    /\ \A r \in rows : DOMAIN r = RowFields /\ r.id \in Around
    /\ refs \subseteq Around \X Leaves

\* Calls of the tool run the custom tier, and only they use the cache.
Lanes ==
    /\ \A c \in Around : call[c].tier \in {"none", "custom"}
                         /\ call[c].pc \notin {"verify", "judge"}
    /\ \A c \in Direct : call[c].pc \notin {"selected", "keyed", "lost", "stored"}

\* A call has one row, a key has one row, and a call that has not inserted its
\* row has none.
RowsUnique ==
    /\ \A r, s \in rows : r.id = s.id => r = s
    /\ \A r, s \in rows : SameKey(r, s.win, s.fp, s.prompt) => r = s
    /\ \A r \in rows : call[r.id].pc \notin {"idle", "selected", "keyed", "lost"}

\* A call that builds owns the row of its key.
Latch ==
    \A c \in Around : Building(c) =>
        \E r \in rows : /\ r.id = c
                        /\ SameKey(r, call[c].win, call[c].sel, call[c].prompt)

\* A finished row holds the text of exactly the leaves that its call selected.
ReadyExact ==
    \A r \in rows : r.status = "ready" =>
        /\ r.content = r.fp
        /\ r.fp = call[r.id].sel
        /\ call[r.id].pc \in {"stored", "served", "dead"}
        /\ call[r.id].pc = "dead" => r.id \in tainted

\* A text covers what was selected.
TextExact ==
    \A c \in Around : call[c].pc \in {"text", "stored", "served"} => call[c].text = call[c].sel

\* What was selected was there.
SelectedSeen ==
    \A c \in Around : \A l \in call[c].sel : l \notin unseen[c] /\ leaves[l] # "absent"

\* The leaves of a call that nothing overtook are live until it has finished.
FlightLive ==
    \A c \in Around : InFlight(c) /\ c \notin tainted =>
        \A l \in call[c].sel : leaves[l] = "live"

\* References are recorded as a call's last write.
RefsServed == \A x \in refs : call[x[1]].pc = "served"

\* The references of a finished call that nothing overtook reach every live leaf
\* of its text, and the others are deleted.
Reached ==
    \A r \in rows :
        r.status = "ready" /\ r.id \notin tainted /\ call[r.id].pc = "served" =>
            \A l \in r.content : /\ leaves[l] # "suppressed"
                                 /\ leaves[l] = "live" => <<r.id, l>> \in refs

IInv ==
    /\ Shapes /\ Lanes /\ RowsUnique /\ Latch /\ ReadyExact /\ TextExact
    /\ SelectedSeen /\ FlightLive /\ RefsServed /\ Reached

-----------------------------------------------------------------------------
(* Steps that leave the tables alone.                                      *)

\* What such a step of c may do: the call advances without touching the cache,
\* and a call that dies is overtaken.
Quiet(c) ==
    /\ rows' = rows /\ refs' = refs /\ leaves' = leaves /\ unseen' = unseen
    /\ tainted \subseteq tainted'
    /\ DOMAIN call' = Calls /\ DOMAIN call'[c] = CallFields
    /\ \A d \in Calls \ {c} : call'[d] = call[d]
    /\ call'[c].win = call[c].win /\ call'[c].sel = call[c].sel
    /\ \/ call'[c] = call[c]
       \/ /\ c \in Direct
          /\ call'[c].pc \notin {"selected", "keyed", "lost", "stored"}
       \/ /\ c \in Around /\ call'[c].tier = call[c].tier
          /\ \/ InFlight(c) /\ call'[c].pc = "dead" /\ c \in tainted'
             \/ call[c].pc \in {"idle", "selected", "keyed", "lost"} /\ call'[c].pc = "done"
             \/ call[c].pc = "selected" /\ call'[c].pc = "keyed"
             \/ call[c].pc = "keyed" /\ call'[c].pc = "lost"
             \/ call[c].pc = "lost" /\ call'[c].pc = "served" /\ call'[c].text = call[c].sel
             \/ /\ call[c].pc \in {"dispatch", "draft"}
                /\ call'[c].prompt = call[c].prompt
                /\ \/ call'[c].pc \in {"failing", "draft"}
                   \/ call'[c].pc = "text" /\ call'[c].text = call[c].sel

\* A quiet step keeps the invariant.
LEMMA QuietStep ==
    ASSUME IInv, NEW c \in Calls, Quiet(c)
    PROVE  IInv'
  <1> USE DEF IInv
  <1>0. c \in Around \/ c \in Direct
    BY DEF Calls
  <1>1. Around \subseteq Calls /\ Direct \subseteq Calls /\ Around \cap Direct = {}
    BY SynthesisAssumption DEF Calls
  <1>2. \A r \in rows : r.id \in Around
    BY DEF Shapes
  <1>3. Shapes'
    BY <1>1 DEF Quiet, Shapes
  <1>4. Lanes'
    BY <1>1 DEF Quiet, Lanes
  <1>5. RowsUnique'
    BY <1>1, <1>2 DEF Quiet, RowsUnique, InFlight, SameKey
  <1>6. Latch'
    BY <1>1 DEF Quiet, Latch, Building, SameKey
  <1>7. ReadyExact'
    BY <1>1, <1>2 DEF Quiet, ReadyExact, InFlight
  <1>8. TextExact'
    BY <1>1 DEF Quiet, TextExact
  <1>9. SelectedSeen'
    BY <1>1 DEF Quiet, SelectedSeen
  <1>10. FlightLive'
    BY <1>1 DEF Quiet, FlightLive, InFlight
  <1>11. RefsServed'
    BY <1>1, <1>2 DEF Quiet, RefsServed, InFlight, Shapes
  <1>12. Reached'
    BY <1>1, <1>2 DEF Quiet, Reached, RowsUnique
  <1>13. QED
    BY <1>3, <1>4, <1>5, <1>6, <1>7, <1>8, <1>9, <1>10, <1>11, <1>12

\* What a change of the program counter and one or two more variables of the call
\* c leaves as it is.
LEMMA GotoKeeps ==
    ASSUME Shapes, NEW c \in Calls, NEW p, Goto(c, p)
    PROVE  /\ DOMAIN call' = Calls /\ DOMAIN call'[c] = CallFields
           /\ \A d \in Calls \ {c} : call'[d] = call[d]
           /\ call'[c].pc = p
           /\ call'[c].win = call[c].win /\ call'[c].sel = call[c].sel
           /\ call'[c].tier = call[c].tier /\ call'[c].prompt = call[c].prompt
           /\ call'[c].text = call[c].text
  BY DEF Goto, Shapes, CallFields

\* The actions of a call that leave the tables alone are quiet steps.
LEMMA QuietActions ==
    ASSUME IInv, NEW c \in Calls,
           \/ RefuseCall(c) \/ ReadPrompt(c) \/ (InsertRow(c) /\ Refused(c))
           \/ InsertRowFault(c) \/ LoserAnswer(c) \/ Dispatch(c) \/ AfterDrafts(c)
           \/ AfterVerify(c) \/ AfterJudge(c) \/ ReturnDirect(c) \/ Crash(c)
           \/ \E tier \in {"monthly", "yearly"} : RequestDirect(c, tier)
           \/ \E i \in DOMAIN passes[c] :
                PassReturns(c, i) \/ PassUpdateFault(c, i)
                \/ SweepOrphan(c, i) \/ SweepTerminal(c, i)
    PROVE  Quiet(c)
  <1> USE DEF NoFault, Fault
  <1>0. /\ c \in Around \/ c \in Direct
        /\ Around \cap Direct = {}
        /\ Shapes
        /\ c \in Direct => call[c].pc \notin {"selected", "keyed", "lost", "stored"}
        /\ c \in Around => call[c].tier \in {"none", "custom"}
                           /\ call[c].pc \notin {"verify", "judge"}
    BY SynthesisAssumption DEF Calls, IInv, Lanes
  <1>1. CASE RefuseCall(c)
    BY <1>0, <1>1, GotoKeeps DEF RefuseCall, Quiet
  <1>2. CASE ReadPrompt(c)
    <2>1. c \in Around
      BY <1>0, <1>2 DEF ReadPrompt
    <2>2. CASE Goto(c, "done")
      BY <1>0, <1>2, <2>1, <2>2, GotoKeeps DEF ReadPrompt, Quiet
    <2>3. CASE ~Goto(c, "done")
      BY <1>0, <1>2, <2>1, <2>3 DEF ReadPrompt, Quiet, Shapes, CallFields
    <2>4. QED
      BY <2>2, <2>3
  <1>3. CASE InsertRow(c) /\ Refused(c)
    BY <1>0, <1>3, GotoKeeps DEF InsertRow, Quiet
  <1>4. CASE InsertRowFault(c)
    BY <1>0, <1>4, GotoKeeps DEF InsertRowFault, Quiet
  <1>5. CASE LoserAnswer(c)
    <2>1. c \in Around
      BY <1>0, <1>5 DEF LoserAnswer
    <2>2. CASE Goto(c, "done")
      BY <1>0, <1>5, <2>1, <2>2, GotoKeeps DEF LoserAnswer, Quiet
    <2>3. CASE ~Goto(c, "done")
      <3>1. PICK r \in rows :
              /\ r.fp = call[c].sel
              /\ call' = [call EXCEPT
                    ![c].pc = IF r.status = "ready" THEN "served" ELSE "done",
                    ![c].text = r.content]
        BY <1>5, <2>3 DEF LoserAnswer, SameKey
      <3>2. r.status = "ready" => r.content = call[c].sel
        BY <3>1 DEF IInv, ReadyExact
      <3>3. QED
        BY <1>0, <1>5, <2>1, <3>1, <3>2 DEF LoserAnswer, Quiet, Shapes, CallFields
    <2>4. QED
      BY <2>2, <2>3
  <1>6. CASE Dispatch(c)
    <2>1. tainted \subseteq tainted'
      BY <1>6 DEF Dispatch, StartPasses
    <2>2. CASE Goto(c, "failing")
      BY <1>0, <1>6, <2>1, <2>2, GotoKeeps DEF Dispatch, Quiet
    <2>3. CASE ~Goto(c, "failing")
      BY <1>0, <1>6, <2>1, <2>3 DEF Dispatch, Quiet, Shapes, CallFields
    <2>4. QED
      BY <2>2, <2>3
  <1>7. CASE AfterDrafts(c)
    <2>1. tainted \subseteq tainted'
      BY <1>7 DEF AfterDrafts, StartPasses
    <2>2. CASE Goto(c, "failing")
      BY <1>0, <1>7, <2>1, <2>2, GotoKeeps DEF AfterDrafts, Quiet
    <2>3. CASE Goto(c, "judge") /\ call[c].tier = "yearly"
      BY <1>0, <1>7, <2>1, <2>3, GotoKeeps DEF AfterDrafts, Quiet
    <2>4. CASE call' = [call EXCEPT ![c].pc = "text", ![c].text = call[c].sel,
                                    ![c].pick = Nth(Survivors(c), 0)]
      BY <1>0, <1>7, <2>1, <2>4 DEF AfterDrafts, Quiet, Shapes, CallFields
    <2>5. CASE /\ call' = [call EXCEPT ![c].pc = "verify", ![c].pick = Nth(Survivors(c), 0)]
               /\ call[c].tier = "monthly"
      BY <1>0, <1>7, <2>1, <2>5 DEF AfterDrafts, Quiet, Shapes, CallFields
    <2>6. QED
      BY <1>7, <2>2, <2>3, <2>4, <2>5 DEF AfterDrafts
  <1>8. CASE AfterVerify(c)
    <2>1. c \in Direct
      BY <1>0, <1>8 DEF AfterVerify
    <2>2. CASE Goto(c, "failing")
      BY <1>0, <1>8, <2>1, <2>2, GotoKeeps DEF AfterVerify, Quiet
    <2>3. CASE ~Goto(c, "failing")
      <3>1. PICK b : call' = [call EXCEPT ![c].pc = "text", ![c].flagged = b]
        BY <1>8, <2>3 DEF AfterVerify
      <3>2. QED
        BY <1>0, <1>8, <2>1, <3>1, ZenonT(40) DEF AfterVerify, Quiet, Shapes, CallFields
    <2>4. QED
      BY <2>2, <2>3
  <1>9. CASE AfterJudge(c)
    <2>1. c \in Direct
      BY <1>0, <1>9 DEF AfterJudge
    <2>2. CASE Goto(c, "failing")
      BY <1>0, <1>9, <2>1, <2>2, GotoKeeps DEF AfterJudge, Quiet
    <2>3. CASE ~Goto(c, "failing")
      <3>1. PICK i : call' = [call EXCEPT ![c].pc = "text", ![c].text = call[c].sel,
                                          ![c].pick = i]
        BY <1>9, <2>3 DEF AfterJudge
      <3>2. UNCHANGED <<rows, refs, leaves, unseen, tainted>>
        BY <1>9 DEF AfterJudge
      <3>3. QED
        BY <1>0, <2>1, <3>1, <3>2 DEF Quiet, Shapes, CallFields
    <2>4. QED
      BY <2>2, <2>3
  <1>10. CASE ReturnDirect(c)
    BY <1>0, <1>10, GotoKeeps DEF ReturnDirect, Quiet
  <1>11. CASE Crash(c)
    BY <1>0, <1>11, GotoKeeps DEF Crash, Quiet, InFlight
  <1>12. ASSUME NEW tier, RequestDirect(c, tier) PROVE Quiet(c)
    BY <1>0, <1>12 DEF RequestDirect, Quiet, Shapes, CallFields
  <1>13. ASSUME NEW i, PassReturns(c, i) \/ PassUpdateFault(c, i)
                       \/ SweepOrphan(c, i) \/ SweepTerminal(c, i)
         PROVE  Quiet(c)
    <2>1. UNCHANGED <<rows, refs, leaves, unseen, call>> /\ tainted \subseteq tainted'
      BY <1>13 DEF PassReturns, PassUpdateFault, SweepOrphan, SweepTerminal
    <2>2. QED
      BY <1>0, <2>1 DEF Quiet, Shapes
  <1>14. QED
    BY <1>1, <1>2, <1>3, <1>4, <1>5, <1>6, <1>7, <1>8, <1>9, <1>10, <1>11, <1>12, <1>13

-----------------------------------------------------------------------------
(* Steps that write the tables.                                            *)

\* The selection of leaves begins a call.
LEMMA SelectStep ==
    ASSUME IInv, NEW c \in Calls, SelectLeaves(c)
    PROVE  IInv'
  <1> USE DEF IInv
  <1>0. /\ Around \subseteq Calls /\ Around \cap Direct = {} /\ c \in Around
        /\ call[c].pc = "idle" /\ UNCHANGED <<leaves, rows, refs, tainted>>
    BY SynthesisAssumption DEF Calls, SelectLeaves, NoFault
  <1>1. PICK win \in Windows :
          call' = [call EXCEPT ![c].pc = IF WindowLeaves(win) = {} THEN "done" ELSE "selected",
                               ![c].tier = "custom",
                               ![c].win = win,
                               ![c].sel = SourceLeaves(WindowLeaves(win))]
    BY DEF SelectLeaves
  <1>2. /\ DOMAIN call' = Calls /\ DOMAIN call'[c] = CallFields
        /\ \A d \in Calls \ {c} : call'[d] = call[d]
        /\ call'[c].pc \in {"done", "selected"} /\ call'[c].tier = "custom"
        /\ call'[c].sel = SourceLeaves(WindowLeaves(win))
    BY <1>0, <1>1 DEF Shapes, CallFields
  <1>3. \A l \in call'[c].sel : l \in Leaves /\ leaves[l] = "live"
    BY <1>2, SynthesisAssumption DEF SourceLeaves, WindowLeaves
  <1>4. /\ DOMAIN unseen' = Calls
        /\ \A d \in Calls \ {c} : unseen'[d] = unseen[d]
        /\ unseen'[c] = {l \in Leaves : leaves[l] # "live"}
    BY <1>0 DEF SelectLeaves, Shapes
  <1>5. \A r \in rows : r.id # c /\ r.id \in Around
    BY <1>0 DEF RowsUnique, Shapes
  <1>6. \A x \in refs : x[1] # c /\ x[1] \in Around
    BY <1>0 DEF RefsServed, Shapes
  <1>7. Shapes'
    BY <1>0, <1>2, <1>3, <1>4 DEF Shapes
  <1>8. Lanes' /\ RowsUnique'
    BY <1>0, <1>2, <1>5 DEF Lanes, RowsUnique, Calls
  <1>9. Latch' /\ TextExact'
    BY <1>0, <1>2 DEF Latch, Building, TextExact
  <1>10. ReadyExact' /\ Reached'
    BY <1>0, <1>2, <1>5 DEF ReadyExact, Reached
  <1>11. SelectedSeen' /\ FlightLive'
    BY <1>0, <1>2, <1>3, <1>4 DEF SelectedSeen, FlightLive, InFlight
  <1>12. RefsServed'
    BY <1>0, <1>2, <1>6 DEF RefsServed
  <1>13. QED
    BY <1>7, <1>8, <1>9, <1>10, <1>11, <1>12

\* The winner of the latch inserts a row of a new key.
LEMMA InsertStep ==
    ASSUME IInv, NEW c \in Calls, InsertRow(c), ~Refused(c)
    PROVE  IInv'
  <1> USE DEF IInv
  <1> DEFINE new == [id |-> c, win |-> call[c].win, fp |-> call[c].sel,
                     prompt |-> call[c].prompt, status |-> "building", content |-> {}]
  <1>0. /\ Around \subseteq Calls /\ Around \cap Direct = {} /\ c \in Around
        /\ call[c].pc = "keyed" /\ UNCHANGED <<leaves, refs, tainted, unseen>>
    BY SynthesisAssumption DEF Calls, InsertRow, NoFault, Lanes
  <1>1. rows' = rows \cup {new} /\ Goto(c, "dispatch")
    BY DEF InsertRow
  <1>2. /\ DOMAIN call' = Calls /\ DOMAIN call'[c] = CallFields
        /\ \A d \in Calls \ {c} : call'[d] = call[d]
        /\ call'[c].pc = "dispatch"
        /\ call'[c].win = call[c].win /\ call'[c].sel = call[c].sel
        /\ call'[c].tier = call[c].tier /\ call'[c].prompt = call[c].prompt
        /\ call'[c].text = call[c].text
    BY <1>1, GotoKeeps
  <1>3. /\ DOMAIN new = RowFields /\ new.id = c /\ new.win = call[c].win
        /\ new.fp = call[c].sel /\ new.prompt = call[c].prompt /\ new.status = "building"
    BY DEF RowFields
  <1> HIDE DEF new
  <1>4. \A r \in rows : r.id # c /\ r.id \in Around
    BY <1>0 DEF RowsUnique, Shapes
  <1>5. \A x \in refs : x[1] # c /\ x[1] \in Around
    BY <1>0 DEF RefsServed, Shapes
  <1>6. \A r \in rows : /\ ~SameKey(r, new.win, new.fp, new.prompt)
                       /\ ~SameKey(new, r.win, r.fp, r.prompt)
    BY <1>3 DEF Refused, Latched, SameKey
  <1>7. Shapes' /\ Lanes'
    BY <1>0, <1>1, <1>2, <1>3 DEF Shapes, Lanes, Calls
  <1>8. RowsUnique'
    BY <1>0, <1>1, <1>2, <1>3, <1>4, <1>6 DEF RowsUnique
  <1>9. Latch'
    <2> SUFFICES ASSUME NEW d \in Around, Building(d)'
                 PROVE  \E r \in rows' : /\ r.id = d
                          /\ SameKey(r, call'[d].win, call'[d].sel, call'[d].prompt)
      BY DEF Latch
    <2>1. CASE d = c
      BY <2>1, <1>1, <1>2, <1>3 DEF SameKey
    <2>2. CASE d # c
      BY <2>2, <1>0, <1>1, <1>2 DEF Latch, Building
    <2>3. QED
      BY <2>1, <2>2
  <1>10. TextExact' /\ SelectedSeen' /\ FlightLive'
    BY <1>0, <1>2 DEF TextExact, SelectedSeen, FlightLive, InFlight
  <1>11. ReadyExact' /\ Reached'
    BY <1>0, <1>1, <1>2, <1>3, <1>4 DEF ReadyExact, Reached
  <1>12. RefsServed'
    BY <1>0, <1>2, <1>5 DEF RefsServed
  <1>13. QED
    BY <1>7, <1>8, <1>9, <1>10, <1>11, <1>12

\* A row as _mark_cache_failed of c leaves it.
Marked(c, r) == IF r.id = c THEN [r EXCEPT !.status = "failed"] ELSE r

\* A failure marks the call's own row.
LEMMA FailStep ==
    ASSUME IInv, NEW c \in Calls, MarkFailed(c)
    PROVE  IInv'
  <1> USE DEF IInv
  <1>0. /\ Around \subseteq Calls /\ Around \cap Direct = {} /\ call[c].pc = "failing"
        /\ UNCHANGED <<leaves, refs, unseen>> /\ tainted \subseteq tainted'
        /\ Goto(c, "done")
        /\ rows' = rows \/ rows' = {Marked(c, r) : r \in rows}
    BY SynthesisAssumption DEF Calls, MarkFailed, Marked, NoFault, Fault
  <1>1. /\ DOMAIN call' = Calls /\ DOMAIN call'[c] = CallFields
        /\ \A d \in Calls \ {c} : call'[d] = call[d]
        /\ call'[c].pc = "done"
        /\ call'[c].win = call[c].win /\ call'[c].sel = call[c].sel
        /\ call'[c].tier = call[c].tier /\ call'[c].prompt = call[c].prompt
        /\ call'[c].text = call[c].text
    BY <1>0, GotoKeeps
  <1>2. \A r \in rows : r.id \in Around /\ DOMAIN r = RowFields
    BY DEF Shapes
  <1>3. ASSUME NEW r \in rows
        PROVE  /\ DOMAIN Marked(c, r) = RowFields
               /\ Marked(c, r).id = r.id
               /\ Marked(c, r).win = r.win
               /\ Marked(c, r).fp = r.fp
               /\ Marked(c, r).prompt = r.prompt
               /\ Marked(c, r).status = "ready" => r.id # c /\ Marked(c, r) = r
    <2>1. DOMAIN r = RowFields
      BY <1>2
    <2>2. CASE r.id = c
      BY <2>1, <2>2 DEF RowFields, Marked
    <2>3. CASE r.id # c
      BY <2>1, <2>3 DEF Marked
    <2>4. QED
      BY <2>2, <2>3
  <1>4. \A r \in rows : r.status = "ready" => r.id # c
    BY <1>0, <1>2 DEF ReadyExact
  <1>5. ASSUME NEW s \in rows'
        PROVE  /\ DOMAIN s = RowFields
               /\ s.id \in Around
               /\ s.status = "ready" => s \in rows /\ s.id # c
               /\ \E r \in rows : s.id = r.id
    <2>1. CASE s \in rows
      BY <2>1, <1>2, <1>4
    <2>2. CASE s \notin rows
      <3>1. PICK r \in rows : s = Marked(c, r)
        BY <2>2, <1>0
      <3>2. QED
        BY <3>1, <1>2, <1>3
    <2>3. QED
      BY <2>1, <2>2
  <1>6. \A x \in refs : x[1] # c /\ x[1] \in Around
    BY <1>0 DEF RefsServed, Shapes
  <1>7. Shapes' /\ Lanes'
    <2>1. \A r \in rows' : DOMAIN r = RowFields /\ r.id \in Around
      BY <1>5
    <2>2. QED
      BY <1>0, <1>1, <2>1 DEF Shapes, Lanes, Calls
  <1>8. RowsUnique'
    <2>1. \A r \in rows' : call'[r.id].pc \notin {"idle", "selected", "keyed", "lost"}
      BY <1>0, <1>1, <1>2, <1>5 DEF RowsUnique
    <2>2. CASE rows' = rows
      BY <2>1, <2>2 DEF RowsUnique
    <2>3. CASE rows' = {Marked(c, r) : r \in rows}
      <3>1. \A r, s \in rows : Marked(c, r).id = Marked(c, s).id => Marked(c, r) = Marked(c, s)
        <4> SUFFICES ASSUME NEW r \in rows, NEW s \in rows, Marked(c, r).id = Marked(c, s).id
                     PROVE  Marked(c, r) = Marked(c, s)
          OBVIOUS
        <4>1. r.id = s.id
          BY <1>3
        <4>2. r = s
          BY <4>1 DEF RowsUnique
        <4>3. QED
          BY <4>2
      <3>2. \A r, s \in rows : SameKey(Marked(c, r), Marked(c, s).win, Marked(c, s).fp, Marked(c, s).prompt)
                                => Marked(c, r) = Marked(c, s)
        BY <1>3 DEF RowsUnique, SameKey
      <3>3. QED
        BY <2>1, <2>3, <3>1, <3>2 DEF RowsUnique
    <2>4. QED
      BY <1>0, <2>2, <2>3
  <1>9. Latch'
    <2> SUFFICES ASSUME NEW d \in Around, Building(d)'
                 PROVE  \E r \in rows' : /\ r.id = d
                          /\ SameKey(r, call'[d].win, call'[d].sel, call'[d].prompt)
      BY DEF Latch
    <2>1. d # c /\ call'[d] = call[d] /\ Building(d)
      BY <1>0, <1>1 DEF Building
    <2>2. PICK r \in rows : r.id = d /\ SameKey(r, call[d].win, call[d].sel, call[d].prompt)
      BY <2>1 DEF Latch
    <2>3. r \in rows'
      BY <1>0, <2>1, <2>2 DEF Marked
    <2>4. QED
      BY <2>1, <2>2, <2>3
  <1>10. TextExact' /\ SelectedSeen' /\ FlightLive'
    BY <1>0, <1>1 DEF TextExact, SelectedSeen, FlightLive, InFlight
  <1>11. ReadyExact' /\ Reached'
    <2>1. \A r \in rows' : r.status = "ready" =>
            /\ r \in rows
            /\ r.id \in Calls \ {c}
            /\ call'[r.id] = call[r.id]
      BY <1>0, <1>1, <1>5
    <2>2. QED
      BY <1>0, <2>1 DEF ReadyExact, Reached
  <1>12. RefsServed'
    BY <1>0, <1>1, <1>6 DEF RefsServed
  <1>13. QED
    BY <1>7, <1>8, <1>9, <1>10, <1>11, <1>12

\* The UPDATE that finishes a row: the row is the one that the call inserted, so
\* its fingerprint is what the text covers, and its key stays its own.
LEMMA StoreStep ==
    ASSUME IInv, NEW c \in Calls, StoreText(c)
    PROVE  IInv'
  <1> USE DEF IInv
  <1>0. /\ Around \subseteq Calls /\ Around \cap Direct = {} /\ c \in Around
        /\ call[c].pc = "text" /\ Goto(c, "stored")
        /\ UNCHANGED <<leaves, refs, unseen>> /\ tainted \subseteq tainted'
    BY SynthesisAssumption DEF Calls, StoreText, NoFault, Fault
  <1>1. /\ DOMAIN call' = Calls /\ DOMAIN call'[c] = CallFields
        /\ \A d \in Calls \ {c} : call'[d] = call[d]
        /\ call'[c].pc = "stored"
        /\ call'[c].win = call[c].win /\ call'[c].sel = call[c].sel
        /\ call'[c].tier = call[c].tier /\ call'[c].prompt = call[c].prompt
        /\ call'[c].text = call[c].text
    BY <1>0, GotoKeeps
  <1>2. \A r \in rows : r.id \in Around /\ DOMAIN r = RowFields
    BY DEF Shapes
  <1>3. \A x \in refs : x[1] # c /\ x[1] \in Around
    BY <1>0 DEF RefsServed, Shapes
  <1>4. \A r \in rows : r.id = c => r.status # "ready" /\ r.fp = call[c].sel
    BY <1>0 DEF ReadyExact, Latch, Building, RowsUnique, SameKey
  <1>5. /\ Lanes' /\ TextExact' /\ SelectedSeen' /\ RefsServed'
        /\ FlightLive'
    BY <1>0, <1>1, <1>3
    DEF Lanes, TextExact, SelectedSeen, FlightLive, InFlight, RefsServed, Calls
  <1>6. CASE rows' = rows
    <2>1. Shapes' /\ RowsUnique'
      BY <1>0, <1>1, <1>2, <1>6 DEF Shapes, RowsUnique
    <2>2. Latch'
      BY <1>0, <1>1, <1>6 DEF Latch, Building
    <2>3. ReadyExact' /\ Reached'
      BY <1>0, <1>1, <1>2, <1>4, <1>6 DEF ReadyExact, Reached
    <2>4. QED
      BY <1>5, <2>1, <2>2, <2>3
  <1>7. CASE rows' # rows
    <2>1. PICK r \in rows : /\ r.id = c /\ ~KeyTaken(c, r)
                            /\ rows' = (rows \ {r}) \cup {ReadyRow(c, r)}
      BY <1>7 DEF StoreText
    <2> DEFINE new == ReadyRow(c, r)
    <2>2. /\ DOMAIN new = RowFields /\ new.id = c /\ new.win = r.win /\ new.fp = r.fp
          /\ new.prompt = call[c].used /\ new.status = "ready"
          /\ new.content = call[c].sel
      BY <2>1, <1>0, <1>2 DEF ReadyRow, RowFields, TextExact
    <2> HIDE DEF new
    <2>3. rows' = (rows \ {r}) \cup {new}
      BY <2>1 DEF new
    <2>4. \A s \in rows \ {r} : s.id # c
      BY <2>1 DEF RowsUnique
    <2>5. \A s \in rows \ {r} : /\ ~SameKey(s, new.win, new.fp, new.prompt)
                               /\ ~SameKey(new, s.win, s.fp, s.prompt)
      BY <2>1, <2>2 DEF KeyTaken, SameKey
    <2>6. Shapes'
      BY <1>0, <1>1, <2>2, <2>3 DEF Shapes
    <2>7. RowsUnique'
      BY <1>0, <1>1, <1>2, <2>2, <2>3, <2>4, <2>5 DEF RowsUnique
    <2>8. Latch'
      BY <1>0, <1>1, <2>1, <2>3 DEF Latch, Building
    <2>9. ReadyExact'
      BY <1>0, <1>1, <1>2, <1>4, <2>1, <2>2, <2>3, <2>4 DEF ReadyExact
    <2>10. Reached'
      BY <1>0, <1>1, <1>2, <2>2, <2>3, <2>4 DEF Reached
    <2>11. QED
      BY <1>5, <2>6, <2>7, <2>8, <2>9, <2>10
  <1>8. QED
    BY <1>6, <1>7

\* The references of a call that nothing overtook name all of its leaves.
LEMMA RefsStep ==
    ASSUME IInv, NEW c \in Calls, RecordRefs(c)
    PROVE  IInv'
  <1> USE DEF IInv
  <1>0. /\ Around \subseteq Calls /\ Around \cap Direct = {} /\ c \in Around
        /\ call[c].pc = "stored" /\ Goto(c, "served")
        /\ UNCHANGED <<leaves, rows, unseen>> /\ tainted \subseteq tainted'
    BY SynthesisAssumption DEF Calls, RecordRefs, NoFault, Fault, Lanes
  <1>1. /\ DOMAIN call' = Calls /\ DOMAIN call'[c] = CallFields
        /\ \A d \in Calls \ {c} : call'[d] = call[d]
        /\ call'[c].pc = "served"
        /\ call'[c].win = call[c].win /\ call'[c].sel = call[c].sel
        /\ call'[c].tier = call[c].tier /\ call'[c].prompt = call[c].prompt
        /\ call'[c].text = call[c].text
    BY <1>0, GotoKeeps
  <1>2. \A r \in rows : r.id \in Around /\ DOMAIN r = RowFields
    BY DEF Shapes
  <1>3. Referable(c) \subseteq call[c].sel /\ call[c].sel \subseteq Leaves
    BY <1>0 DEF Referable, Shapes
  <1>4. refs' = refs \/ refs' = refs \cup ({c} \X Referable(c))
    BY DEF RecordRefs
  <1>5. refs \subseteq refs' /\ refs' \subseteq Around \X Leaves
        /\ \A x \in refs' : x[1] = c \/ x \in refs
    BY <1>0, <1>3, <1>4 DEF Shapes
  <1>6. Shapes' /\ Lanes'
    BY <1>0, <1>1, <1>5 DEF Shapes, Lanes, Calls
  <1>7. RowsUnique' /\ ReadyExact'
    BY <1>0, <1>1, <1>2 DEF RowsUnique, ReadyExact
  <1>8. Latch' /\ TextExact' /\ SelectedSeen' /\ FlightLive'
    BY <1>0, <1>1 DEF Latch, Building, TextExact, SelectedSeen, FlightLive, InFlight
  <1>9. RefsServed'
    BY <1>0, <1>1, <1>5 DEF RefsServed, Shapes
  <1>10. Reached'
    <2> SUFFICES ASSUME NEW r \in rows, r.status = "ready", r.id \notin tainted',
                        call'[r.id].pc = "served", NEW l \in r.content
                 PROVE  leaves[l] # "suppressed" /\ (leaves[l] = "live" => <<r.id, l>> \in refs')
      BY <1>0 DEF Reached
    <2>1. CASE r.id = c
      <3>1. r.content = call[c].sel /\ c \notin tainted
        BY <1>0, <2>1 DEF ReadyExact
      <3>2. \A k \in call[c].sel : leaves[k] = "live"
        BY <1>0, <3>1 DEF FlightLive, InFlight
      <3>3. Referable(c) = call[c].sel
        BY <3>2 DEF Referable
      <3>4. refs' = refs \cup ({c} \X Referable(c))
        BY <1>0, <2>1 DEF RecordRefs, Fault
      <3>5. QED
        BY <2>1, <3>1, <3>2, <3>3, <3>4
    <2>2. CASE r.id # c
      BY <2>2, <1>0, <1>1, <1>2, <1>5 DEF Reached
    <2>3. QED
      BY <2>1, <2>2
  <1>11. QED
    BY <1>6, <1>7, <1>8, <1>9, <1>10

\* A purge takes the rows that refer to its leaf; every other row that may be
\* read again is of a call that the purge overtook, or does not use the leaf.
LEMMA PurgeStep ==
    ASSUME IInv, NEW k \in Leaves, Purge(k)
    PROVE  IInv'
  <1> USE DEF IInv
  <1>0. /\ Around \subseteq Calls /\ Around \cap Direct = {}
        /\ leaves[k] = "live" /\ DOMAIN leaves' = Leaves /\ leaves'[k] = "suppressed"
        /\ \A l \in Leaves \ {k} : leaves'[l] = leaves[l]
        /\ rows' = rows \ Invalidated(k) /\ rows' \subseteq rows
        /\ refs' \subseteq refs
        /\ tainted' = tainted \cup Overtaken(k)
        /\ UNCHANGED <<call, unseen>>
    BY SynthesisAssumption DEF Calls, Purge, Shapes
  <1>1. \A r \in Invalidated(k) : r \in rows /\ call[r.id].pc = "served"
    BY DEF Invalidated, RefsServed
  <1>2. \A c \in Around : call[c].sel \subseteq Leaves
    BY DEF Shapes
  <1>3. Shapes' /\ Lanes' /\ RowsUnique' /\ RefsServed' /\ TextExact'
    BY <1>0 DEF Shapes, Lanes, RowsUnique, RefsServed, TextExact
  <1>4. Latch'
    BY <1>0, <1>1 DEF Latch, Building
  <1>5. ReadyExact'
    BY <1>0 DEF ReadyExact
  <1>6. SelectedSeen'
    BY <1>0, <1>2 DEF SelectedSeen
  <1>7. FlightLive'
    <2> SUFFICES ASSUME NEW c \in Around, InFlight(c), c \notin tainted', NEW l \in call[c].sel
                 PROVE  leaves'[l] = "live"
      BY <1>0 DEF FlightLive, InFlight
    <2>1. l # k
      BY <1>0 DEF Overtaken
    <2>2. QED
      BY <1>0, <1>2, <2>1 DEF FlightLive
  <1>8. Reached'
    <2> SUFFICES ASSUME NEW r \in rows', r.status = "ready", r.id \notin tainted',
                        call[r.id].pc = "served", NEW l \in r.content
                 PROVE  /\ leaves'[l] # "suppressed"
                        /\ leaves'[l] = "live" => <<r.id, l>> \in refs'
      BY <1>0 DEF Reached
    <2>1. r \in rows /\ r \notin Invalidated(k) /\ r.id \notin tainted
      BY <1>0
    <2>2. leaves[l] # "suppressed" /\ (leaves[l] = "live" => <<r.id, l>> \in refs)
      BY <2>1 DEF Reached
    <2>3. l \in Leaves
      BY <1>2, <2>1 DEF ReadyExact, Shapes
    <2>4. l # k
      BY <1>0, <2>1, <2>2 DEF Invalidated
    <2>5. \A s \in Invalidated(k) : s.id # r.id
      BY <1>1, <2>1 DEF RowsUnique
    <2>6. <<r.id, l>> \in refs => <<r.id, l>> \in refs'
      BY <2>5 DEF Purge
    <2>7. QED
      BY <1>0, <2>2, <2>3, <2>4, <2>6
  <1>9. QED
    BY <1>3, <1>4, <1>5, <1>6, <1>7, <1>8

\* A deletion takes the references to its leaf and overtakes the calls that
\* selected it.
LEMMA DeleteStep ==
    ASSUME IInv, NEW k \in Leaves, DeleteLeaf(k)
    PROVE  IInv'
  <1> USE DEF IInv
  <1>0. /\ Around \subseteq Calls
        /\ DOMAIN leaves' = Leaves /\ leaves'[k] = "deleted"
        /\ \A l \in Leaves \ {k} : leaves'[l] = leaves[l]
        /\ refs' \subseteq refs /\ \A x \in refs : x[2] # k => x \in refs'
        /\ tainted' = tainted \cup Overtaken(k)
        /\ UNCHANGED <<call, unseen, rows>>
    BY DEF Calls, DeleteLeaf, Shapes
  <1>1. \A c \in Around : call[c].sel \subseteq Leaves
    BY DEF Shapes
  <1>2. Shapes' /\ Lanes' /\ RowsUnique' /\ RefsServed' /\ TextExact'
    BY <1>0 DEF Shapes, Lanes, RowsUnique, RefsServed, TextExact
  <1>3. Latch' /\ ReadyExact'
    BY <1>0 DEF Latch, Building, ReadyExact
  <1>4. SelectedSeen'
    BY <1>0, <1>1 DEF SelectedSeen
  <1>5. FlightLive'
    <2> SUFFICES ASSUME NEW c \in Around, InFlight(c), c \notin tainted', NEW l \in call[c].sel
                 PROVE  leaves'[l] = "live"
      BY <1>0 DEF FlightLive, InFlight
    <2>1. l # k
      BY <1>0 DEF Overtaken
    <2>2. QED
      BY <1>0, <1>1, <2>1 DEF FlightLive
  <1>6. Reached'
    <2> SUFFICES ASSUME NEW r \in rows, r.status = "ready", r.id \notin tainted',
                        call[r.id].pc = "served", NEW l \in r.content
                 PROVE  /\ leaves'[l] # "suppressed"
                        /\ leaves'[l] = "live" => <<r.id, l>> \in refs'
      BY <1>0 DEF Reached
    <2>1. leaves[l] # "suppressed" /\ (leaves[l] = "live" => <<r.id, l>> \in refs)
      BY <1>0 DEF Reached
    <2>2. l \in Leaves
      BY <1>1 DEF ReadyExact, Shapes
    <2>3. QED
      BY <1>0, <2>1, <2>2
  <1>7. QED
    BY <1>2, <1>3, <1>4, <1>5, <1>6

\* A new leaf is in no selection yet.
LEMMA NewLeafStep ==
    ASSUME IInv, NEW k \in Leaves, NewLeaf(k)
    PROVE  IInv'
  <1> USE DEF IInv
  <1>0. /\ leaves[k] = "absent" /\ DOMAIN leaves' = Leaves /\ leaves'[k] = "live"
        /\ \A l \in Leaves \ {k} : leaves'[l] = leaves[l]
        /\ UNCHANGED <<call, unseen, rows, refs, tainted>>
    BY DEF NewLeaf, NoFault, Shapes
  <1>1. \A c \in Around : \A l \in call[c].sel : l \in Leaves /\ l # k
    BY <1>0 DEF Shapes, SelectedSeen
  <1>2. Shapes' /\ Lanes' /\ RowsUnique' /\ RefsServed' /\ TextExact'
    BY <1>0 DEF Shapes, Lanes, RowsUnique, RefsServed, TextExact
  <1>3. Latch' /\ ReadyExact'
    BY <1>0 DEF Latch, Building, ReadyExact
  <1>4. SelectedSeen' /\ FlightLive'
    BY <1>0, <1>1 DEF SelectedSeen, FlightLive, InFlight
  <1>5. \A r \in rows : r.status = "ready" => \A l \in r.content : l \in Leaves /\ l # k
    BY <1>1 DEF ReadyExact, Shapes
  <1>6. Reached'
    BY <1>0, <1>5 DEF Reached
  <1>7. QED
    BY <1>2, <1>3, <1>4, <1>6

\* The invariant is inductive.
LEMMA InvStep == IInv /\ [Next]_vars => IInv'
  <1> SUFFICES ASSUME IInv, [Next]_vars PROVE IInv'
    OBVIOUS
  <1>1. ASSUME NEW c \in Calls, CallStep(c) PROVE IInv'
    <2>1. CASE SelectLeaves(c)
      BY <2>1, SelectStep
    <2>2. CASE InsertRow(c) /\ ~Refused(c)
      BY <2>2, InsertStep
    <2>3. CASE MarkFailed(c)
      BY <2>3, FailStep
    <2>4. CASE StoreText(c)
      BY <2>4, StoreStep
    <2>5. CASE RecordRefs(c)
      BY <2>5, RefsStep
    <2>6. CASE ~(\/ SelectLeaves(c) \/ (InsertRow(c) /\ ~Refused(c)) \/ MarkFailed(c)
                \/ StoreText(c) \/ RecordRefs(c))
      <3>1. Quiet(c)
        BY <1>1, <2>6, QuietActions DEF CallStep
      <3>2. QED
        BY <3>1, QuietStep
    <2>7. QED
      BY <2>1, <2>2, <2>3, <2>4, <2>5, <2>6
  <1>2. ASSUME NEW l \in Leaves, Purge(l) \/ DeleteLeaf(l) \/ NewLeaf(l) PROVE IInv'
    BY <1>2, PurgeStep, DeleteStep, NewLeafStep
  <1>3. CASE \/ \E k \in Replaced : RegisterPrompt(k)
             \/ UNCHANGED vars
    <2>1. UNCHANGED <<leaves, rows, refs, call, unseen, tainted>>
      BY <1>3 DEF RegisterPrompt, NoFault, vars
    <2>2. QED
      BY <2>1 DEF IInv, Shapes, Lanes, RowsUnique, Latch, Building, ReadyExact, TextExact,
         SelectedSeen, FlightLive, InFlight, RefsServed, Reached
  <1>4. QED
    BY <1>1, <1>2, <1>3 DEF Next

\* It holds at the start, where no call has done anything.
LEMMA InvInit == Init => IInv
  <1> SUFFICES ASSUME Init PROVE IInv
    OBVIOUS
  <1>1. /\ DOMAIN leaves = Leaves /\ DOMAIN unseen = Calls /\ DOMAIN call = Calls
        /\ rows = {} /\ refs = {}
    BY DEF Init
  <1>2. \A c \in Calls : /\ DOMAIN call[c] = CallFields
                        /\ call[c].sel = {}
                        /\ call[c].tier = "none"
                        /\ call[c].pc \in {"idle", "done"}
    BY DEF Init, NoCall, CallFields
  <1>3. Around \subseteq Calls /\ Direct \subseteq Calls
    BY DEF Calls
  <1>4. Shapes /\ Lanes
    BY <1>1, <1>2, <1>3 DEF Shapes, Lanes
  <1>5. QED
    BY <1>1, <1>2, <1>3, <1>4
    DEF IInv, RowsUnique, Latch, Building, ReadyExact, TextExact, SelectedSeen, FlightLive,
        InFlight, RefsServed, Reached

\* The invariant of the cache holds in every reachable state.
LEMMA Invariance == Spec => []IInv
  BY InvInit, InvStep, PTL DEF Spec

-----------------------------------------------------------------------------
(* What the cache promises.                                                *)

\* No two calls build the text of one key at once, and no key has two rows, for
\* any number of calls, prompt replacements and faults.
THEOREM OneBuilderPerKey == Spec => []SingleFlight
  <1>1. IInv => SingleFlight
    <2> SUFFICES ASSUME IInv PROVE SingleFlight
      OBVIOUS
    <2>1. ASSUME NEW c \in Around, NEW d \in Around, c # d, Building(c), Building(d)
          PROVE  <<call[c].win, call[c].sel, call[c].prompt>>
                   # <<call[d].win, call[d].sel, call[d].prompt>>
      <3>1. PICK r \in rows : r.id = c /\ SameKey(r, call[c].win, call[c].sel, call[c].prompt)
        BY <2>1 DEF IInv, Latch
      <3>2. PICK s \in rows : s.id = d /\ SameKey(s, call[d].win, call[d].sel, call[d].prompt)
        BY <2>1 DEF IInv, Latch
      <3>3. QED
        BY <2>1, <3>1, <3>2 DEF IInv, RowsUnique, SameKey
    <2>2. QED
      BY <2>1 DEF IInv, RowsUnique, SingleFlight
  <1>2. QED
    BY <1>1, Invariance, PTL

\* A text that is served, from the cache or made anew, covers exactly the leaves
\* the call selected, and none that was gone by then.
THEOREM ServedTextsExact == Spec => []ServedExact
  <1>1. IInv => ServedExact
    BY DEF IInv, TextExact, SelectedSeen, ServedExact
  <1>2. QED
    BY <1>1, Invariance, PTL

\* A purge reaches every finished text that used the leaf, save those of calls
\* that a purge or a deletion overtook or that lost a write.
THEOREM PurgeReaches == Spec => []PurgeReachesCache
  <1>1. IInv => PurgeReachesCache
    <2> SUFFICES ASSUME IInv, NEW r \in rows, r.status = "ready", r.id \notin tainted,
                        NEW l \in r.content
                 PROVE  leaves[l] # "suppressed"
      BY DEF PurgeReachesCache
    <2>1. r.id \in Around /\ r.content = call[r.id].sel
          /\ call[r.id].pc \in {"stored", "served"}
      BY DEF IInv, ReadyExact, Shapes
    <2>2. CASE call[r.id].pc = "stored"
      BY <2>1, <2>2 DEF IInv, FlightLive, InFlight
    <2>3. CASE call[r.id].pc = "served"
      BY <2>3 DEF IInv, Reached
    <2>4. QED
      BY <2>1, <2>2, <2>3
  <1>2. QED
    BY <1>1, Invariance, PTL

-----------------------------------------------------------------------------
(* Assembly: pieces of a sequence. *)

\* The pieces strung together: f[i] is the first i of them.
Running(f, pieces, m) ==
    f = [i \in 1..m |-> IF i = 1 THEN pieces[i] ELSE f[i-1] \o pieces[i]]

\* Pieces can be strung together.
LEMMA RunningExists ==
    ASSUME NEW pieces, NEW n \in Nat
    PROVE  \E f : Running(f, pieces, n)
<1> DEFINE Bad == {m \in Nat : ~\E f : Running(f, pieces, m)}
<1>1. SUFFICES ASSUME Bad # {} PROVE FALSE
    OBVIOUS
<1>2. PICK m \in Bad : \A k \in Bad : m <= k
    BY <1>1, LeastNat
<1>3. m # 0
    <2>1. Running(<< >>, pieces, 0)
        BY DEF Running
    <2> QED
        BY <1>2, <2>1
<1>4. m - 1 \in Nat /\ m - 1 \notin Bad
    BY <1>2, <1>3
<1>5. PICK f : Running(f, pieces, m - 1)
    BY <1>4
<1> DEFINE g == [i \in 1..m |-> IF i = m THEN IF i = 1 THEN pieces[i] ELSE f[i-1] \o pieces[i]
                                ELSE f[i]]
<1>6. ASSUME NEW i \in 1..m
      PROVE  g[i] = IF i = 1 THEN pieces[i] ELSE g[i-1] \o pieces[i]
    <2>1. CASE i = m
        <3>1. i # 1 => i - 1 \in 1..m /\ i - 1 # m
            BY <2>1, <1>2
        <3> QED
            BY <2>1, <3>1
    <2>2. CASE i # m
        <3>1. i \in 1..(m - 1)
            BY <2>2, <1>2
        <3>2. f[i] = IF i = 1 THEN pieces[i] ELSE f[i-1] \o pieces[i]
            BY <1>5, <3>1 DEF Running
        <3>3. i # 1 => i - 1 \in 1..m /\ i - 1 # m
            BY <2>2, <1>2
        <3> QED
            BY <2>2, <3>2, <3>3
    <2> QED
        BY <2>1, <2>2
<1>7. Running(g, pieces, m)
    <2> HIDE DEF g
    <2>1. g = [i \in 1..m |-> g[i]]
        BY DEF g
    <2> QED
        BY <2>1, <1>6 DEF Running
<1> QED
    BY <1>2, <1>7

\* One after another.
LEMMA Joined ==
    ASSUME NEW S, NEW s \in Seq(S), NEW t \in Seq(S)
    PROVE  /\ s \o t \in Seq(S)
           /\ Len(s) \in Nat /\ Len(t) \in Nat /\ Len(s \o t) = Len(s) + Len(t)
           /\ \A i \in 1..Len(s) : (s \o t)[i] = s[i]
           /\ \A k \in 1..Len(t) : (s \o t)[Len(s) + k] = t[k]
OBVIOUS

\* Piece o of the string out begins after position off[o]; nothing else is
\* in out.
Layout(out, pieces, n, off) ==
    /\ \A o \in 1..n : off[o] \in Nat /\ off[o] + Len(pieces[o]) <= Len(out)
    /\ \A o \in 1..n : \A k \in 1..Len(pieces[o]) : out[off[o] + k] = pieces[o][k]
    /\ \A i \in 1..Len(out) : \E o \in 1..n : i - off[o] \in 1..Len(pieces[o])
    /\ \A o, p \in 1..n : o < p => off[o] + Len(pieces[o]) <= off[p]

\* One more piece.
LEMMA LayoutGrows ==
    ASSUME NEW S, NEW m \in Nat \ {0}, NEW pieces, \A o \in 1..m : pieces[o] \in Seq(S),
           NEW s \in Seq(S), NEW off, Layout(s, pieces, m - 1, off)
    PROVE  \E to : Layout(s \o pieces[m], pieces, m, to)
<1> DEFINE to == [o \in 1..m |-> IF o = m THEN Len(s) ELSE off[o]]
           t == pieces[m]
           out == s \o t
<1>0. /\ \A o \in 1..m : Len(pieces[o]) \in Nat
      /\ m \in 1..m /\ t \in Seq(S)
    OBVIOUS
<1>1. /\ Len(s) \in Nat /\ Len(t) \in Nat /\ Len(out) = Len(s) + Len(t)
      /\ \A i \in 1..Len(s) : out[i] = s[i]
      /\ \A k \in 1..Len(t) : out[Len(s) + k] = t[k]
    BY <1>0, Joined
<1>2. to[m] = Len(s) /\ \A o \in 1..(m-1) : to[o] = off[o] /\ o \in 1..m
    OBVIOUS
<1>3. \A o \in 1..m : o = m \/ o \in 1..(m-1)
    OBVIOUS
<1> HIDE DEF to, t, out
<1>t. pieces[m] = t
    BY DEF t
<1>4. ASSUME NEW o \in 1..(m-1)
      PROVE  /\ to[o] \in Nat /\ to[o] + Len(pieces[o]) <= Len(s)
             /\ \A k \in 1..Len(pieces[o]) : s[to[o] + k] = pieces[o][k]
    BY <1>2 DEF Layout
<1>5. \A o \in 1..m : to[o] \in Nat /\ to[o] + Len(pieces[o]) <= Len(out)
    <2> TAKE o \in 1..m
    <2>1. CASE o = m
        BY <1>1, <1>2, <1>t, <2>1
    <2>2. CASE o \in 1..(m-1)
        BY <1>0, <1>1, <1>4, <2>2
    <2> QED
        BY <1>3, <2>1, <2>2
<1>6. ASSUME NEW o \in 1..m, NEW k \in 1..Len(pieces[o])
      PROVE  out[to[o] + k] = pieces[o][k]
    <2>1. CASE o = m
        BY <1>1, <1>2, <1>t, <2>1
    <2>2. CASE o \in 1..(m-1)
        <3>1. to[o] + k \in 1..Len(s)
            BY <1>0, <1>1, <1>4, <2>2
        <3> QED
            BY <1>1, <1>4, <2>2, <3>1
    <2> QED
        BY <1>3, <2>1, <2>2
<1>7. ASSUME NEW i \in 1..Len(out) PROVE \E o \in 1..m : i - to[o] \in 1..Len(pieces[o])
    <2>1. CASE i \in 1..Len(s)
        <3>1. PICK o \in 1..(m-1) : i - off[o] \in 1..Len(pieces[o])
            BY <2>1 DEF Layout
        <3> QED
            BY <1>2, <3>1
    <2>2. CASE i \notin 1..Len(s)
        <3>1. i - to[m] \in 1..Len(pieces[m])
            BY <1>1, <1>2, <1>t, <2>2
        <3> QED
            BY <1>0, <3>1
    <2> QED
        BY <2>1, <2>2
<1>8. ASSUME NEW o \in 1..m, NEW p \in 1..m, o < p
      PROVE  to[o] + Len(pieces[o]) <= to[p]
    <2>1. o \in 1..(m-1)
        BY <1>8
    <2>2. CASE p = m
        BY <1>2, <1>4, <2>1, <2>2
    <2>3. CASE p \in 1..(m-1)
        BY <1>2, <1>8, <2>1, <2>3 DEF Layout
    <2> QED
        BY <1>3, <2>2, <2>3
<1>9. Layout(out, pieces, m, to)
    BY <1>5, <1>6, <1>7, <1>8 DEF Layout
<1> QED
    BY <1>9, <1>t DEF out

\* Stringing the pieces together lays them out in their order.
LEMMA Flattened ==
    ASSUME NEW n \in Nat, NEW S, NEW pieces \in [1..n -> Seq(S)]
    PROVE  /\ FlattenSeq(pieces) \in Seq(S)
           /\ \E off : Layout(FlattenSeq(pieces), pieces, n, off)
<1>0. Len(pieces) = n /\ \A o \in 1..n : pieces[o] \in Seq(S)
    OBVIOUS
<1>e. << >> \in Seq(S) /\ Layout(<< >>, pieces, 0, << >>)
    BY DEF Layout
<1>1. CASE n = 0
    <2>1. FlattenSeq(pieces) = pieces /\ pieces = << >>
        BY <1>0, <1>1 DEF FlattenSeq
    <2> QED
        BY <1>1, <1>e, <2>1
<1>2. CASE n # 0
    <2> DEFINE f == CHOOSE f : f = [i \in 1..Len(pieces) |->
                        IF i = 1 THEN pieces[i] ELSE f[i-1] \o pieces[i]]
    <2>1. Running(f, pieces, n)
        BY <1>0, RunningExists DEF Running
    <2>2. FlattenSeq(pieces) = f[n]
        BY <1>0, <1>2 DEF FlattenSeq
    <2> HIDE DEF f
    <2>3. \A i \in 1..n : f[i] = IF i = 1 THEN pieces[i] ELSE f[i-1] \o pieces[i]
        BY <2>1 DEF Running
    <2> DEFINE Good(m) == f[m] \in Seq(S) /\ \E off : Layout(f[m], pieces, m, off)
               Bad == {m \in 1..n : ~Good(m)}
    <2>4. Good(1)
        <3>1. 1 \in 1..n
            BY <1>2
        <3>2. f[1] = pieces[1] /\ pieces[1] \in Seq(S)
            BY <1>0, <2>3, <3>1
        <3>3. \E to : Layout(<< >> \o pieces[1], pieces, 1, to)
            <4>1. \A o \in 1..1 : pieces[o] \in Seq(S)
                BY <3>2
            <4>2. 1 \in Nat \ {0} /\ 1 - 1 = 0
                OBVIOUS
            <4> QED
                BY <1>e, <4>1, <4>2, LayoutGrows
        <3>4. << >> \o pieces[1] = pieces[1]
            BY <3>2
        <3> QED
            BY <3>2, <3>3, <3>4
    <2>5. ASSUME NEW m \in 2..n, Good(m - 1) PROVE Good(m)
        <3>1. m \in 1..n /\ m # 1 /\ m \in Nat \ {0} /\ \A o \in 1..m : o \in 1..n
            OBVIOUS
        <3>2. f[m] = f[m-1] \o pieces[m]
            BY <2>3, <3>1
        <3>3. PICK off : Layout(f[m-1], pieces, m - 1, off)
            BY <2>5
        <3>4. \E to : Layout(f[m-1] \o pieces[m], pieces, m, to)
            BY <1>0, <2>5, <3>1, <3>3, LayoutGrows
        <3>5. f[m-1] \o pieces[m] \in Seq(S)
            BY <1>0, <2>5, <3>1, Joined
        <3> QED
            BY <3>2, <3>4, <3>5
    <2> HIDE DEF Good
    <2>6. Bad = {}
        <3>1. SUFFICES ASSUME Bad # {} PROVE FALSE
            OBVIOUS
        <3>2. Bad \subseteq Nat
            OBVIOUS
        <3>3. PICK m \in Bad : \A k \in Bad : m <= k
            BY <3>1, <3>2, LeastNat
        <3>4. m # 1
            BY <2>4, <3>3
        <3>5. m \in 2..n /\ m - 1 \in 1..n /\ m - 1 \notin Bad
            BY <3>3, <3>4
        <3> QED
            BY <2>5, <3>3, <3>5
    <2>7. Good(n)
        BY <1>2, <2>6
    <2> QED
        BY <2>2, <2>7 DEF Good
<1> QED
    BY <1>1, <1>2

-----------------------------------------------------------------------------
(* Assembly: rows and items. *)

\* The parts, rows and items there are.
Parts == [type : {"tool", "text"}, text : BlockTypes, id : BlockIds, raw : Blocks]

ContextRows ==
    [kind : {"message", "summary"}, role : Roles, parts : Seq(Parts), tokens : Nat,
     text : BOOLEAN]

RuntimeItems ==
    [ord : Nat, tokens : Nat, isMessage : BOOLEAN, role : Roles, id : BlockIds,
     blocks : Seq(Blocks), synthetic : BOOLEAN]

LEMMA Literals ==
    /\ CallTypes \subseteq BlockTypes /\ ToolRawTypes \subseteq BlockTypes
    /\ {"text", "blank", "toolCall", "tool_result"} \subseteq BlockTypes
    /\ {"toolResult", "user", "assistant"} \subseteq Roles
    /\ NoCallId \in BlockIds /\ CallIds \subseteq BlockIds
    /\ \A o, i \in Nat : SyntheticId(o, i) \in BlockIds
    /\ NoBlock \in Blocks /\ HostBlocks \subseteq Blocks
<1>1. /\ CallTypes \subseteq BlockTypes /\ ToolRawTypes \subseteq BlockTypes
      /\ {"text", "blank", "toolCall", "tool_result", "none"} \subseteq BlockTypes
      /\ {"toolResult", "user", "assistant"} \subseteq Roles
    BY DEF BlockTypes, ToolRawTypes, CallTypes, Roles
<1>2. /\ NoCallId \in BlockIds /\ CallIds \subseteq BlockIds
      /\ \A o, i \in Nat : SyntheticId(o, i) \in BlockIds
    BY DEF BlockIds
<1>3. NoBlock \in Blocks /\ HostBlocks \subseteq Blocks
    BY <1>1, <1>2 DEF NoBlock, Blocks, HostBlocks
<1> QED
    BY <1>1, <1>2, <1>3

\* What the engine and the importer store is a row.
LEMMA RowsTyped ==
    ASSUME NEW m \in Messages \cup Imported
    PROVE  /\ MessageRow(m, MessageParts(m)) \in ContextRows
           /\ MessageRow(m, ImportedParts(m)) \in ContextRows
<1>1. /\ m \in HostMessages
      /\ m.form = "str" => m.blocks # << >>
    BY AssemblyAssumption
<1>2. /\ m.blocks \in Seq(Blocks) /\ m.id \in BlockIds
      /\ m.role \in Roles /\ m.size \in Nat
    <2>1. /\ m.blocks \in Seq(HostBlocks) /\ m.id \in CallIds \cup {NoCallId}
          /\ m.role \in Roles /\ m.size \in Nat
        BY <1>1 DEF HostMessages
    <2> QED
        BY <2>1, Literals
<1>3. ASSUME NEW b \in Blocks PROVE BlockPart(m, b) \in Parts
    <2>1. b.type \in BlockTypes /\ b.id \in BlockIds
        BY DEF Blocks
    <2> QED
        BY <1>2, <2>1, Literals DEF BlockPart, Parts
<1>4. MessageParts(m) \in Seq(Parts)
    <2>1. CASE m.form = "str"
        <3>1. m.blocks[1] \in Blocks
            BY <1>1, <1>2, <2>1
        <3>2. m.blocks[1].type \in BlockTypes
            BY <3>1 DEF Blocks
        <3>3. [type |-> "text", text |-> m.blocks[1].type, id |-> m.id, raw |-> NoBlock] \in Parts
            BY <1>2, <3>2, Literals DEF Parts
        <3> QED
            BY <2>1, <3>3 DEF MessageParts
    <2>2. CASE m.form # "str"
        <3>1. \A i \in DOMAIN m.blocks : BlockPart(m, m.blocks[i]) \in Parts
            BY <1>2, <1>3
        <3>2. [i \in DOMAIN m.blocks |-> BlockPart(m, m.blocks[i])] \in Seq(Parts)
            BY <1>2, <3>1
        <3> QED
            BY <2>2, <3>2 DEF MessageParts, Map
    <2> QED
        BY <2>1, <2>2
<1>5. ImportedParts(m) \in Seq(Parts)
    <2>1. \A i \in DOMAIN m.blocks : [BlockPart(m, m.blocks[i]) EXCEPT !.raw = m.blocks[i]] \in Parts
        <3> TAKE i \in DOMAIN m.blocks
        <3>1. m.blocks[i] \in Blocks /\ BlockPart(m, m.blocks[i]) \in Parts
            BY <1>2, <1>3
        <3> QED
            BY <3>1 DEF Parts
    <2> DEFINE part(i) == [BlockPart(m, m.blocks[i]) EXCEPT !.raw = m.blocks[i]]
    <2>2. ImportedParts(m) = [i \in DOMAIN m.blocks |-> part(i)]
        BY DEF ImportedParts, Map
    <2>3. \A i \in DOMAIN m.blocks : part(i) \in Parts
        BY <2>1
    <2> HIDE DEF part
    <2>4. [i \in DOMAIN m.blocks |-> part(i)] \in Seq(Parts)
        BY <1>2, <2>3
    <2> QED
        BY <2>2, <2>4
<1> QED
    BY <1>2, <1>4, <1>5 DEF MessageRow, ContextRows

\* A summary, too.
LEMMA SummaryTyped == SummaryRow \in ContextRows
<1>1. << >> \in Seq(Parts)
    OBVIOUS
<1> QED
    BY <1>1, Literals DEF SummaryRow, ContextRows

\* What is read back for a row.
LEMMA ItemTyped ==
    ASSUME NEW items \in Seq(ContextRows), NEW o \in DOMAIN items
    PROVE  /\ ResolvedItem(items, o) \in RuntimeItems
           /\ ResolvedItem(items, o).ord = o
           /\ ~ResolvedItem(items, o).synthetic
<1> DEFINE row == items[o]
<1>0. o \in Nat /\ row \in ContextRows
    OBVIOUS
<1> HIDE DEF row
<1>1. row.parts \in Seq(Parts) /\ row.tokens \in Nat /\ row.role \in Roles
    BY <1>0 DEF ContextRows
<1>2. ToRuntimeRole(row) \in Roles
    BY <1>1, Literals DEF ToRuntimeRole
<1>3. PickToolCallId(row.parts) \in BlockIds
    <2> DEFINE held == {i \in DOMAIN row.parts : row.parts[i].id # NoCallId}
    <2>1. held \subseteq Nat
        BY <1>1
    <2>2. held # {} => Min(held) \in held
        BY <2>1, MinFacts
    <2>3. \A i \in DOMAIN row.parts : row.parts[i].id \in BlockIds
        <3> TAKE i \in DOMAIN row.parts
        <3>1. row.parts[i] \in Parts
            BY <1>1
        <3> QED
            BY <3>1 DEF Parts
    <2> HIDE DEF held
    <2>4. PickToolCallId(row.parts) = IF held = {} THEN NoCallId ELSE row.parts[Min(held)].id
        BY DEF PickToolCallId, held
    <2>5. held # {} => Min(held) \in DOMAIN row.parts
        BY <2>2 DEF held
    <2> QED
        BY <2>3, <2>4, <2>5, Literals
<1>4. ContentFromParts(row, o) \in Seq(Blocks)
    <2>1. ASSUME NEW p \in Parts, NEW made \in BlockIds
          PROVE  BlockFromPart(row, p, made) \in Blocks
        <3>1. p.raw \in Blocks /\ p.id \in BlockIds /\ p.text \in BlockTypes
            BY <2>1 DEF Parts
        <3>2. p.raw.type \in BlockTypes
            BY <3>1 DEF Blocks
        <3>3. ToolCallBlock(p, made) \in Blocks /\ ToolResultBlock(p) \in Blocks
            BY <3>1, <3>2, Literals DEF ToolCallBlock, ToolResultBlock, Blocks
        <3>4. [type |-> p.text, id |-> NoCallId] \in Blocks
            BY <3>1, Literals DEF Blocks
        <3> QED
            BY <3>1, <3>3, <3>4 DEF BlockFromPart
    <2>2. [type |-> "text", id |-> NoCallId] \in Blocks
        BY Literals DEF Blocks
    <2>3. [i \in DOMAIN row.parts |-> BlockFromPart(row, row.parts[i], SyntheticId(o, i))]
              \in Seq(Blocks)
        <3>1. \A i \in DOMAIN row.parts : /\ row.parts[i] \in Parts
                                         /\ SyntheticId(o, i) \in BlockIds
            BY <1>0, <1>1, Literals
        <3>2. \A i \in DOMAIN row.parts :
                 BlockFromPart(row, row.parts[i], SyntheticId(o, i)) \in Blocks
            BY <2>1, <3>1
        <3> QED
            BY <1>1, <3>2
    <2>4. <<[type |-> "text", id |-> NoCallId]>> \in Seq(Blocks)
        BY <2>2
    <2> QED
        BY <2>3, <2>4 DEF ContentFromParts
<1> QED
    BY <1>0, <1>1, <1>2, <1>3, <1>4, Literals DEF ResolvedItem, RuntimeItems, row

\* What is picked, and where it lands.
LEMMA Picked ==
    ASSUME NEW S, NEW s \in Seq(S), NEW I \in SUBSET DOMAIN s
    PROVE  /\ Pick(s, I) \in Seq(S)
           /\ \A i \in I : /\ Place(I, i) + 1 \in DOMAIN Pick(s, I)
                           /\ Pick(s, I)[Place(I, i) + 1] = s[i]
           /\ \A k \in DOMAIN Pick(s, I) : \E i \in I : k = Place(I, i) + 1
           /\ \A i, j \in I : i < j => Place(I, i) < Place(I, j)
<1> DEFINE n == Cardinality(I)
           at(k) == CHOOSE i \in I : Cardinality({j \in I : j < i}) = k - 1
<1>1. I \subseteq Nat /\ IsFiniteSet(I)
    <2>1. DOMAIN s = 1..Len(s) /\ Len(s) \in Nat
        OBVIOUS
    <2>2. IsFiniteSet(1..Len(s))
        BY <2>1, FS_Interval
    <2> QED
        BY <2>1, <2>2, FS_Subset
<1>2. /\ n \in Nat
      /\ \A i \in I : Place(I, i) \in 0..(n - 1)
      /\ \A i, j \in I : i < j => Place(I, i) < Place(I, j)
    BY <1>1, PlaceFacts
<1>3. ASSUME NEW i \in I, NEW j \in I, Place(I, i) = Place(I, j) PROVE i = j
    <2>1. i \in Nat /\ j \in Nat /\ Place(I, i) \in Int
        BY <1>1, <1>2
    <2>2. ~(i < j) /\ ~(j < i)
        BY <1>2, <1>3, <2>1
    <2> QED
        BY <2>1, <2>2
<1>4. ASSUME NEW k \in 1..n PROVE at(k) \in I /\ Place(I, at(k)) = k - 1
    <2>1. k - 1 \in 0..(n - 1)
        BY <1>2
    <2>2. \E i \in I : Place(I, i) = k - 1
        BY <1>1, <2>1, PlaceOnto
    <2> QED
        BY <2>2, Zenon DEF Place
<1>5. Pick(s, I) = [k \in 1..n |-> s[at(k)]]
    BY DEF Pick
<1> HIDE DEF at
<1>6. \A i \in I : Place(I, i) + 1 \in 1..n /\ at(Place(I, i) + 1) = i
    <2> TAKE i \in I
    <2> DEFINE k == Place(I, i) + 1
    <2>1. k \in 1..n /\ k - 1 = Place(I, i)
        BY <1>2
    <2> HIDE DEF k
    <2>2. at(k) \in I /\ Place(I, at(k)) = Place(I, i)
        BY <1>4, <2>1
    <2>3. at(k) = i
        BY <1>3, <2>2
    <2> QED
        BY <2>1, <2>3 DEF k
<1>7. \A k \in 1..n : s[at(k)] \in S
    BY <1>4
<1> HIDE DEF n
<1>8. [k \in 1..n |-> s[at(k)]] \in Seq(S)
    BY <1>2, <1>7
<1>9. \A k \in 1..n : k = Place(I, at(k)) + 1
    <2> TAKE k \in 1..n
    <2> QED
        BY <1>2, <1>4
<1> QED
    BY <1>2, <1>4, <1>5, <1>6, <1>8, <1>9

\* The blocks that are picked, as a set.
LEMMA PickedRange ==
    ASSUME NEW S, NEW s \in Seq(S), NEW I \in SUBSET DOMAIN s
    PROVE  /\ Pick(s, I) \in Seq(S)
           /\ Range(Pick(s, I)) = {s[i] : i \in I}
<1> DEFINE p == Pick(s, I)
<1>1. /\ p \in Seq(S)
      /\ \A i \in I : Place(I, i) + 1 \in DOMAIN p /\ p[Place(I, i) + 1] = s[i]
      /\ \A k \in DOMAIN p : \E i \in I : k = Place(I, i) + 1
    BY Picked
<1> HIDE DEF p
<1>2. Range(p) = {p[k] : k \in DOMAIN p}
    BY DEF Range
<1>3. \A k \in DOMAIN p : \E i \in I : p[k] = s[i]
    BY <1>1
<1>4. \A i \in I : \E k \in DOMAIN p : p[k] = s[i]
    BY <1>1
<1>5. Range(p) = {s[i] : i \in I}
    BY <1>2, <1>3, <1>4
<1> QED
    BY <1>1, <1>5 DEF p

\* The elements of two sequences, one after another.
LEMMA JoinedRange ==
    ASSUME NEW S, NEW s \in Seq(S), NEW t \in Seq(S)
    PROVE  Range(s \o t) = Range(s) \cup Range(t)
<1>1. /\ DOMAIN s = 1..Len(s) /\ DOMAIN t = 1..Len(t)
      /\ DOMAIN (s \o t) = 1..Len(s \o t)
    BY Joined
<1>2. /\ Len(s) \in Nat /\ Len(t) \in Nat /\ Len(s \o t) = Len(s) + Len(t)
      /\ \A i \in 1..Len(s) : (s \o t)[i] = s[i]
      /\ \A k \in 1..Len(t) : (s \o t)[Len(s) + k] = t[k]
    BY Joined
<1>3. ASSUME NEW i \in 1..Len(s \o t)
      PROVE  \/ \E j \in 1..Len(s) : (s \o t)[i] = s[j]
             \/ \E k \in 1..Len(t) : (s \o t)[i] = t[k]
    <2>1. CASE i \in 1..Len(s)
        BY <1>2, <2>1
    <2>2. CASE i \notin 1..Len(s)
        <3> DEFINE k == i - Len(s)
        <3>1. k \in 1..Len(t) /\ Len(s) + k = i
            BY <1>2, <2>2
        <3> HIDE DEF k
        <3> QED
            BY <1>2, <3>1
    <2> QED
        BY <2>1, <2>2
<1>4. \A i \in 1..Len(s) : i \in 1..Len(s \o t) /\ (s \o t)[i] = s[i]
    BY <1>2
<1>5. \A k \in 1..Len(t) : Len(s) + k \in 1..Len(s \o t) /\ (s \o t)[Len(s) + k] = t[k]
    BY <1>2
<1>6. /\ Range(s) = {s[i] : i \in 1..Len(s)} /\ Range(t) = {t[k] : k \in 1..Len(t)}
      /\ Range(s \o t) = {(s \o t)[i] : i \in 1..Len(s \o t)}
    BY <1>1, Zenon DEF Range
<1> DEFINE u == s \o t
           dom == 1..Len(s \o t)
           left == 1..Len(s)
           right == 1..Len(t)
<1>7. /\ \A i \in left : \E j \in dom : u[j] = s[i]
      /\ \A i \in right : \E j \in dom : u[j] = t[i]
      /\ \A i \in dom : (\E j \in left : u[i] = s[j]) \/ (\E k \in right : u[i] = t[k])
    BY <1>3, <1>4, <1>5, Zenon
<1>8. /\ Range(s) = {s[i] : i \in left} /\ Range(t) = {t[k] : k \in right}
      /\ Range(u) = {u[i] : i \in dom}
    BY <1>6
<1> HIDE DEF u, dom, left, right
<1>9. Range(u) = Range(s) \cup Range(t)
    BY <1>7, <1>8
<1> QED
    BY <1>9 DEF u

-----------------------------------------------------------------------------
(* Repairing. *)

\* Items in the order of the context they were read from, none of them made up.
Transcript(msgs, n) ==
    /\ DOMAIN msgs \subseteq 1..n
    /\ \A o \in DOMAIN msgs :
          msgs[o] \in RuntimeItems /\ msgs[o].ord = o /\ ~msgs[o].synthetic

\* The ids whose results follow the turn at o.
Answers(msgs, o) == PushResult(ToolCalls(msgs[o]), Seen(msgs, o))

\* A turn's calls are the ids of its call blocks.
LEMMA CallsNamed ==
    ASSUME NEW m \in RuntimeItems
    PROVE  /\ ToolCalls(m) \in Seq(BlockIds)
           /\ Range(ToolCalls(m)) = Ids(m.blocks, CallTypes)
<1> DEFINE named == {i \in Typed(m, CallTypes) : m.blocks[i].id # NoCallId}
           s == Pick(m.blocks, named)
<1>1. m.blocks \in Seq(Blocks)
    BY DEF RuntimeItems
<1>2. named \in SUBSET DOMAIN m.blocks
    BY DEF Typed
<1>3. s \in Seq(Blocks) /\ Range(s) = {m.blocks[i] : i \in named}
    BY <1>1, <1>2, PickedRange
<1>4. ToolCalls(m) = [k \in DOMAIN s |-> s[k].id]
    BY DEF ToolCalls, Map
<1> HIDE DEF s
<1>5. \A k \in DOMAIN s : s[k].id \in BlockIds
    <2> TAKE k \in DOMAIN s
    <2>1. s[k] \in Blocks
        BY <1>3
    <2> QED
        BY <2>1 DEF Blocks
<1>6. [k \in DOMAIN s |-> s[k].id] \in Seq(BlockIds)
    BY <1>3, <1>5
<1>7. Range(ToolCalls(m)) = {b.id : b \in Range(s)}
    BY <1>4 DEF Range
<1>8. Ids(m.blocks, CallTypes) = {b.id : b \in {m.blocks[i] : i \in named}}
    BY DEF Ids, Range, Typed
<1> QED
    BY <1>3, <1>4, <1>6, <1>7, <1>8, Zenon

\* Reordering keeps the calls.
LEMMA Hoisted ==
    ASSUME NEW m \in RuntimeItems
    PROVE  LET h == HoistReasoning(m)
           IN  /\ h \in RuntimeItems /\ h.role = m.role /\ h.ord = m.ord
               /\ h.synthetic = m.synthetic /\ h.id = m.id
               /\ Ids(h.blocks, CallTypes) = Ids(m.blocks, CallTypes)
<1> DEFINE think == Typed(m, {"thinking"})
           calls == Typed(m, CallTypes)
           b == Pick(m.blocks, think) \o Pick(m.blocks, calls)
           moved == [m EXCEPT !.blocks = b]
<1>1. m.blocks \in Seq(Blocks)
    BY DEF RuntimeItems
<1>2. think \in SUBSET DOMAIN m.blocks /\ calls \in SUBSET DOMAIN m.blocks
    BY DEF Typed
<1>3. HoistReasoning(m) = m \/ HoistReasoning(m) = moved
    BY DEF HoistReasoning
<1>4. /\ Pick(m.blocks, think) \in Seq(Blocks)
      /\ Range(Pick(m.blocks, think)) = {m.blocks[i] : i \in think}
    BY <1>1, <1>2, PickedRange
<1>5. /\ Pick(m.blocks, calls) \in Seq(Blocks)
      /\ Range(Pick(m.blocks, calls)) = {m.blocks[i] : i \in calls}
    BY <1>1, <1>2, PickedRange
<1>6. /\ b \in Seq(Blocks)
      /\ Range(b) = {m.blocks[i] : i \in think} \cup {m.blocks[i] : i \in calls}
    BY <1>4, <1>5, Joined, JoinedRange
<1> HIDE DEF b
<1>7. moved \in RuntimeItems /\ moved.blocks = b /\ moved.role = m.role /\ moved.ord = m.ord
      /\ moved.synthetic = m.synthetic /\ moved.id = m.id
    BY <1>6 DEF RuntimeItems
<1>8. {c \in Range(b) : c.type \in CallTypes} = {c \in Range(m.blocks) : c.type \in CallTypes}
    BY <1>6 DEF Range, Typed, CallTypes
<1>9. Ids(b, CallTypes) = Ids(m.blocks, CallTypes)
    BY <1>8 DEF Ids
<1> QED
    BY <1>3, <1>7, <1>9

\* A call gets the result in its turn's span, or a synthetic one.
LEMMA Answered ==
    ASSUME NEW n \in Nat, NEW msgs, Transcript(msgs, n), NEW o \in DOMAIN msgs,
           NEW id \in BlockIds
    PROVE  LET r == ResultFor(msgs, o, id)
               at == {p \in Span(msgs, o) : msgs[p].role = "toolResult" /\ msgs[p].id = id}
           IN  /\ r \in RuntimeItems /\ r.role = "toolResult" /\ r.id = id
               /\ r.synthetic => at = {}
<1> DEFINE at == {p \in Span(msgs, o) : msgs[p].role = "toolResult" /\ msgs[p].id = id}
           r == ResultFor(msgs, o, id)
<1>0. r = IF at = {} THEN MissingResult(id) ELSE msgs[Min(at)]
    BY DEF ResultFor
<1>1. at \subseteq Nat /\ at \subseteq DOMAIN msgs
    BY DEF Transcript, Span
<1>2. CASE at = {}
    <2>1. [type |-> "text", id |-> NoCallId] \in Blocks
        BY Literals DEF Blocks
    <2>2. <<[type |-> "text", id |-> NoCallId]>> \in Seq(Blocks)
        BY <2>1
    <2>3. MissingResult(id) \in RuntimeItems
        BY <2>2, Literals DEF MissingResult, RuntimeItems
    <2> QED
        BY <1>0, <1>2, <2>3 DEF MissingResult
<1>3. CASE at # {}
    <2>1. Min(at) \in at
        BY <1>1, <1>3, MinFacts
    <2>2. Min(at) \in DOMAIN msgs /\ r = msgs[Min(at)]
        BY <1>0, <1>1, <1>3, <2>1
    <2>3. r.role = "toolResult" /\ r.id = id
        BY <2>1, <2>2
    <2> HIDE DEF at, r
    <2>4. r \in RuntimeItems /\ ~r.synthetic
        BY <2>2 DEF Transcript
    <2> QED
        BY <2>3, <2>4 DEF at, r
<1> QED
    BY <1>2, <1>3

\* Results are pushed for the ids not seen yet, once each.
LEMMA PushedOnce ==
    ASSUME NEW S, NEW ids \in Seq(S), NEW seen
    PROVE  LET r == PushResult(ids, seen)
           IN  /\ r \in Seq(S)
               /\ \A k \in DOMAIN r : r[k] \in Range(ids) \ seen
               /\ \A id \in Range(ids) \ seen : \E k \in DOMAIN r : r[k] = id
               /\ \A j, k \in DOMAIN r : j # k => r[j] # r[k]
<1> DEFINE I == {k \in DOMAIN ids : ids[k] \notin seen /\ \A j \in 1..(k - 1) : ids[j] # ids[k]}
           r == PushResult(ids, seen)
<1>0. DOMAIN ids = 1..Len(ids) /\ Len(ids) \in Nat
    OBVIOUS
<1>1. I \in SUBSET DOMAIN ids /\ r = Pick(ids, I)
    BY DEF PushResult
<1>2. \A k \in I : ids[k] \notin seen /\ \A j \in 1..(k - 1) : ids[j] # ids[k]
    OBVIOUS
<1>3. \A i, j \in I : i # j => ids[i] # ids[j]
    <2> TAKE i \in I, j \in I
    <2> HAVE i # j
    <2>1. i \in Nat \ {0} /\ j \in Nat \ {0}
        BY <1>0, <1>1
    <2>2. i \in 1..(j - 1) \/ j \in 1..(i - 1)
        BY <2>1
    <2> QED
        BY <1>2, <2>2
<1>4. ASSUME NEW id \in Range(ids) \ seen PROVE \E i \in I : ids[i] = id
    <2> DEFINE P == {k \in DOMAIN ids : ids[k] = id}
    <2>1. P \subseteq Nat /\ P # {}
        BY <1>0, <1>4 DEF Range
    <2>2. PICK i \in P : \A k \in P : i <= k
        BY <2>1, LeastNat
    <2>3. \A j \in 1..(i - 1) : ids[j] # ids[i]
        BY <1>0, <2>2
    <2> QED
        BY <2>2, <2>3, <1>4
<1> HIDE DEF I, r
<1>5. /\ r \in Seq(S)
      /\ \A i \in I : Place(I, i) + 1 \in DOMAIN r /\ r[Place(I, i) + 1] = ids[i]
      /\ \A k \in DOMAIN r : \E i \in I : k = Place(I, i) + 1
    BY <1>1, Picked
<1>6. \A i \in I : ids[i] \in Range(ids)
    BY <1>1 DEF Range
<1>7. \A k \in DOMAIN r : r[k] \in Range(ids) \ seen
    BY <1>2, <1>5, <1>6
<1>8. \A j, k \in DOMAIN r : j # k => r[j] # r[k]
    BY <1>3, <1>5
<1>9. \A id \in Range(ids) \ seen : \E k \in DOMAIN r : r[k] = id
    BY <1>4, <1>5
<1> QED
    BY <1>5, <1>7, <1>8, <1>9 DEF r

\* What an item becomes.
LEMMA RepairedPiece ==
    ASSUME NEW n \in Nat, NEW msgs, Transcript(msgs, n), NEW o \in DOMAIN msgs
    PROVE  LET p == Repaired(msgs, o)
               ids == Answers(msgs, o)
           IN  /\ p \in Seq(RuntimeItems)
               /\ ids \in Seq(BlockIds) /\ Range(ids) \subseteq BlockIds
               /\ o \in Assistants(msgs) =>
                     /\ Len(p) = 1 + Len(ids)
                     /\ p[1] = HoistReasoning(msgs[o])
                     /\ \A k \in 1..Len(ids) : p[1 + k] = ResultFor(msgs, o, ids[k])
               /\ o \notin Assistants(msgs) =>
                     \A k \in 1..Len(p) :
                         p[k].role \notin {"assistant", "toolResult"} /\ ~p[k].synthetic
<1> DEFINE p == Repaired(msgs, o)
           ids == Answers(msgs, o)
           results == Map(LAMBDA id : ResultFor(msgs, o, id), ids)
           turn == HoistReasoning(msgs[o])
<1>1. msgs[o] \in RuntimeItems /\ ~msgs[o].synthetic
    BY DEF Transcript
<1>2. ids \in Seq(BlockIds)
    BY <1>1, CallsNamed, PushedOnce DEF Answers
<1>3. /\ DOMAIN ids = 1..Len(ids) /\ Len(ids) \in Nat
      /\ \A k \in 1..Len(ids) : ids[k] \in BlockIds
    BY <1>2
<1>4. /\ results = [k \in 1..Len(ids) |-> ResultFor(msgs, o, ids[k])]
      /\ \A k \in 1..Len(ids) : ResultFor(msgs, o, ids[k]) \in RuntimeItems
    BY <1>3, Answered DEF Map
<1>5. Range(ids) \subseteq BlockIds
    BY <1>3 DEF Range
<1>6. turn \in RuntimeItems
    BY <1>1, Hoisted
<1>7. CASE msgs[o].role = "assistant"
    <2>1. p = <<turn>> \o results
        BY <1>7 DEF Repaired, Answers
    <2>2. o \in Assistants(msgs)
        BY <1>7 DEF Assistants
    <2> HIDE DEF ids, p, turn
    <2> DEFINE result(k) == ResultFor(msgs, o, ids[k])
    <2>3. results \in Seq(RuntimeItems) /\ Len(results) = Len(ids)
          /\ \A k \in 1..Len(ids) : results[k] = ResultFor(msgs, o, ids[k])
        <3>1. \A k \in 1..Len(ids) : result(k) \in RuntimeItems
            BY <1>4
        <3>2. results = [k \in 1..Len(ids) |-> result(k)]
            BY <1>4
        <3> HIDE DEF result, results
        <3>3. results \in Seq(RuntimeItems) /\ Len(results) = Len(ids)
              /\ \A k \in 1..Len(ids) : results[k] = result(k)
            BY <1>3, <3>1, <3>2
        <3> QED
            BY <3>3 DEF result
    <2>4. <<turn>> \in Seq(RuntimeItems) /\ Len(<<turn>>) = 1 /\ <<turn>>[1] = turn /\ 1 \in 1..1
        BY <1>6
    <2> HIDE DEF results
    <2>5. /\ p \in Seq(RuntimeItems) /\ Len(p) = 1 + Len(results)
          /\ \A i \in 1..1 : p[i] = <<turn>>[i]
          /\ \A k \in 1..Len(results) : p[1 + k] = results[k]
        <3>1. /\ <<turn>> \o results \in Seq(RuntimeItems)
              /\ Len(<<turn>> \o results) = Len(<<turn>>) + Len(results)
              /\ \A i \in 1..Len(<<turn>>) : (<<turn>> \o results)[i] = <<turn>>[i]
              /\ \A k \in 1..Len(results) : (<<turn>> \o results)[Len(<<turn>>) + k] = results[k]
            BY <2>3, <2>4, Joined
        <3> QED
            BY <2>1, <2>4, <3>1, Zenon
    <2>6. p[1] = turn
        BY <2>4, <2>5
    <2> QED
        BY <1>2, <1>5, <2>2, <2>3, <2>5, <2>6 DEF ids, p, turn
<1>8. CASE msgs[o].role # "assistant"
    <2>1. o \notin Assistants(msgs)
        BY <1>8 DEF Assistants
    <2>2. CASE msgs[o].role = "toolResult"
        <3>1. p = << >>
            BY <2>2 DEF Repaired
        <3>2. p \in Seq(RuntimeItems) /\ Len(p) = 0
            BY <3>1
        <3> QED
            BY <1>2, <1>5, <2>1, <3>2
    <2>3. CASE msgs[o].role # "toolResult"
        <3>1. p = <<msgs[o]>>
            BY <1>8, <2>3 DEF Repaired
        <3>2. p \in Seq(RuntimeItems) /\ Len(p) = 1 /\ p[1] = msgs[o]
            BY <1>1, <3>1
        <3>3. \A k \in 1..1 : k = 1
            OBVIOUS
        <3> HIDE DEF ids, p
        <3>4. \A k \in 1..Len(p) : p[k].role \notin {"assistant", "toolResult"} /\ ~p[k].synthetic
            BY <1>1, <1>8, <2>3, <3>2, <3>3
        <3> QED
            BY <1>2, <1>5, <2>1, <3>2, <3>4 DEF ids, p
    <2> QED
        BY <2>2, <2>3
<1> QED
    BY <1>7, <1>8

\* The turn at ordinal o of msgs stands at position off[o] + 1 of the answer,
\* with its results behind it; there are no other turns and results.
Turns(msgs, off) ==
    /\ reply.msgs \in Seq(RuntimeItems)
    /\ \A o \in Assistants(msgs) :
          /\ off[o] \in Nat /\ off[o] + 1 \in DOMAIN reply.msgs
          /\ reply.msgs[off[o] + 1] = HoistReasoning(msgs[o])
          /\ \A k \in DOMAIN Answers(msgs, o) :
                /\ off[o] + 1 + k \in DOMAIN reply.msgs
                /\ reply.msgs[off[o] + 1 + k] = ResultFor(msgs, o, Answers(msgs, o)[k])
                /\ TurnOf(off[o] + 1 + k) = off[o] + 1
    /\ \A i \in DOMAIN reply.msgs :
          /\ reply.msgs[i].role = "assistant" => \E o \in Assistants(msgs) : i = off[o] + 1
          /\ reply.msgs[i].role = "toolResult" \/ reply.msgs[i].synthetic =>
                \E o \in Assistants(msgs) : \E k \in DOMAIN Answers(msgs, o) : i = off[o] + 1 + k
    /\ \A o, p \in Assistants(msgs) : o < p => off[o] < off[p]

\* That is how sanitize_tool_use_result_pairing lays a transcript out.
LEMMA RepairLaysOut ==
    ASSUME NEW n \in Nat, NEW msgs, Transcript(msgs, n),
           reply.msgs = SanitizePairing(msgs, n)
    PROVE  \E off : Turns(msgs, off)
<1> DEFINE pieces == [o \in 1..n |-> IF o \in DOMAIN msgs THEN Repaired(msgs, o) ELSE << >>]
           out == reply.msgs
           A == Assistants(msgs)
           L == [o \in A |-> Len(Answers(msgs, o))]
<1>1. pieces \in [1..n -> Seq(RuntimeItems)]
    <2>1. << >> \in Seq(RuntimeItems)
        OBVIOUS
    <2> QED
        BY <2>1, RepairedPiece
<1>2. out = FlattenSeq(pieces)
    BY DEF SanitizePairing
<1>3. out \in Seq(RuntimeItems) /\ \E off : Layout(out, pieces, n, off)
    BY <1>1, <1>2, Flattened
<1>4. PICK off : Layout(out, pieces, n, off)
    BY <1>3
<1>5. ASSUME NEW o \in A
      PROVE  /\ o \in 1..n /\ o \in DOMAIN msgs /\ msgs[o].role = "assistant"
             /\ L[o] \in Nat /\ DOMAIN Answers(msgs, o) = 1..L[o]
             /\ Len(pieces[o]) = 1 + L[o]
             /\ pieces[o][1] = HoistReasoning(msgs[o])
             /\ \A k \in 1..L[o] : /\ pieces[o][1 + k] = ResultFor(msgs, o, Answers(msgs, o)[k])
                                   /\ Answers(msgs, o)[k] \in BlockIds
    <2>1. o \in DOMAIN msgs /\ o \in 1..n /\ msgs[o].role = "assistant"
        BY DEF Assistants, Transcript
    <2>2. pieces[o] = Repaired(msgs, o)
        BY <2>1
    <2>3. Answers(msgs, o) \in Seq(BlockIds)
        BY <2>1, RepairedPiece
    <2>4. L[o] \in Nat /\ DOMAIN Answers(msgs, o) = 1..L[o]
          /\ \A k \in 1..L[o] : Answers(msgs, o)[k] \in BlockIds
        BY <2>3
    <2> HIDE DEF pieces
    <2> QED
        BY <2>1, <2>2, <2>4, RepairedPiece
<1>6. ASSUME NEW o \in 1..n, o \notin A, NEW k \in 1..Len(pieces[o])
      PROVE  pieces[o][k].role \notin {"assistant", "toolResult"} /\ ~pieces[o][k].synthetic
    <2>1. CASE o \in DOMAIN msgs
        <3>1. pieces[o] = Repaired(msgs, o)
            BY <2>1
        <3> HIDE DEF pieces
        <3> QED
            BY <1>6, <2>1, <3>1, RepairedPiece
    <2>2. CASE o \notin DOMAIN msgs
        <3>1. pieces[o] = << >>
            BY <2>2
        <3> QED
            BY <3>1
    <2> QED
        BY <2>1, <2>2
<1>7. DOMAIN out = 1..Len(out) /\ Len(out) \in Nat
    BY <1>3
<1> HIDE DEF pieces, out, A, L
<1>8. ASSUME NEW o \in A
      PROVE  /\ off[o] \in Nat /\ off[o] + 1 + L[o] <= Len(out)
             /\ out[off[o] + 1] = HoistReasoning(msgs[o])
             /\ \A k \in 1..L[o] :
                   out[off[o] + 1 + k] = ResultFor(msgs, o, Answers(msgs, o)[k])
    <2>1. /\ off[o] \in Nat /\ off[o] + (1 + L[o]) <= Len(out)
          /\ \A k \in 1..(1 + L[o]) : out[off[o] + k] = pieces[o][k]
        BY <1>4, <1>5 DEF Layout
    <2>2. L[o] \in Nat /\ off[o] \in Nat /\ 1 \in 1..(1 + L[o])
        BY <1>5, <2>1
    <2>3. ASSUME NEW k \in 1..L[o]
          PROVE  out[off[o] + 1 + k] = ResultFor(msgs, o, Answers(msgs, o)[k])
        <3> DEFINE j == 1 + k
        <3>1. j \in 1..(1 + L[o]) /\ off[o] + j = off[o] + 1 + k
            BY <2>2
        <3>2. out[off[o] + j] = pieces[o][j]
            BY <2>1, <3>1
        <3>3. pieces[o][j] = ResultFor(msgs, o, Answers(msgs, o)[k])
            BY <1>5
        <3> HIDE DEF j
        <3> QED
            BY <3>1, <3>2, <3>3
    <2> QED
        BY <1>5, <2>1, <2>2, <2>3
<1>9. ASSUME NEW o \in A PROVE out[off[o] + 1].role = "assistant"
    <2>1. msgs[o] \in RuntimeItems /\ msgs[o].role = "assistant"
        BY <1>5 DEF Transcript
    <2> QED
        BY <1>8, <2>1, Hoisted
<1>10. ASSUME NEW o \in A, NEW k \in 1..L[o]
       PROVE  out[off[o] + 1 + k].role = "toolResult"
    <2>1. o \in DOMAIN msgs /\ Answers(msgs, o)[k] \in BlockIds
        BY <1>5
    <2>2. ResultFor(msgs, o, Answers(msgs, o)[k]).role = "toolResult"
        BY <2>1, Answered
    <2> QED
        BY <1>8, <2>2
<1>11. ASSUME NEW o \in A, NEW k \in 1..L[o]
       PROVE  TurnOf(off[o] + 1 + k) = off[o] + 1
    <2> DEFINE i == off[o] + 1 + k
               S == {0} \union {j \in 1..(i - 1) : out[j].role # "toolResult"}
    <2>1. L[o] \in Nat /\ off[o] \in Nat /\ i \in Nat
        BY <1>5, <1>8
    <2>2. off[o] + 1 \in S
        BY <1>9, <2>1
    <2>3. S \subseteq Nat /\ IsFiniteSet(S) /\ S # {}
        <3>1. S \subseteq 0..i
            BY <2>1
        <3>2. IsFiniteSet(0..i) /\ 0..i \subseteq Nat
            <4>1. \A x \in Nat : IsFiniteSet(0..x) /\ 0..x \subseteq Nat
                BY FS_Interval
            <4> QED
                BY <2>1, <4>1
        <3> QED
            BY <2>2, <3>1, <3>2, FS_Subset
    <2>4. ASSUME NEW j \in S PROVE j <= off[o] + 1
        <3>1. SUFFICES ASSUME j > off[o] + 1 PROVE FALSE
            BY <2>1, <2>3
        <3> DEFINE h == j - (off[o] + 1)
        <3>2. j \in 1..(i - 1) /\ out[j].role # "toolResult"
            BY <2>1, <3>1
        <3>3. h \in 1..L[o] /\ off[o] + 1 + h = j
            BY <2>1, <3>1, <3>2
        <3> HIDE DEF h
        <3> QED
            BY <1>10, <3>2, <3>3
    <2>5. Max(S) \in S /\ \A j \in S : j <= Max(S)
        BY <2>3, MaxFacts
    <2>6. Max(S) = off[o] + 1
        <3>1. Max(S) <= off[o] + 1 /\ off[o] + 1 <= Max(S) /\ Max(S) \in Nat
            BY <2>2, <2>3, <2>4, <2>5
        <3> QED
            BY <2>1, <3>1
    <2> QED
        BY <2>6 DEF TurnOf, out
<1>12. ASSUME NEW i \in DOMAIN out
       PROVE  /\ out[i].role = "assistant" => \E o \in A : i = off[o] + 1
              /\ out[i].role = "toolResult" \/ out[i].synthetic =>
                    \E o \in A : \E k \in 1..L[o] : i = off[o] + 1 + k
    <2>1. PICK o \in 1..n : i - off[o] \in 1..Len(pieces[o])
        BY <1>4, <1>7 DEF Layout
    <2>2. off[o] \in Nat /\ i \in Nat
        BY <1>4, <1>7 DEF Layout
    <2> DEFINE k == i - off[o]
    <2>3. k \in 1..Len(pieces[o]) /\ off[o] + k = i
        BY <2>1, <2>2
    <2>4. out[i] = pieces[o][k]
        BY <1>4, <2>3 DEF Layout
    <2> HIDE DEF k
    <2>5. CASE o \notin A
        BY <1>6, <2>3, <2>4, <2>5
    <2>6. CASE o \in A /\ k = 1
        <3>1. i = off[o] + 1
            BY <2>3, <2>6
        <3>2. msgs[o] \in RuntimeItems /\ ~msgs[o].synthetic
            BY <1>5, <2>6 DEF Transcript
        <3>3. ~out[i].synthetic /\ out[i].role = "assistant"
            BY <1>8, <1>9, <2>6, <3>1, <3>2, Hoisted
        <3> QED
            BY <2>6, <3>1, <3>3
    <2>7. CASE o \in A /\ k # 1
        <3> DEFINE h == k - 1
        <3>0. L[o] \in Nat /\ Len(pieces[o]) = 1 + L[o]
            BY <1>5, <2>7
        <3>1. h \in 1..L[o] /\ i = off[o] + 1 + h
            BY <2>2, <2>3, <2>7, <3>0
        <3> HIDE DEF h
        <3>2. out[i].role = "toolResult"
            BY <1>10, <2>7, <3>1
        <3> QED
            BY <2>7, <3>1, <3>2
    <2> QED
        BY <2>5, <2>6, <2>7
<1>13. ASSUME NEW o \in A, NEW p \in A, o < p PROVE off[o] < off[p]
    <2>1. off[o] + (1 + L[o]) <= off[p]
        BY <1>4, <1>5, <1>13 DEF Layout
    <2>2. off[o] \in Nat /\ off[p] \in Nat /\ L[o] \in Nat
        BY <1>5, <1>8
    <2> QED
        BY <2>1, <2>2
<1>14. ASSUME NEW o \in A, NEW j \in 1..(1 + L[o]) PROVE off[o] + j \in DOMAIN out
    BY <1>5, <1>7, <1>8
<1>15. \A o \in A : 1 \in 1..(1 + L[o]) /\ \A k \in 1..L[o] :
          1 + k \in 1..(1 + L[o]) /\ off[o] + (1 + k) = off[o] + 1 + k
    <2> TAKE o \in A
    <2>1. L[o] \in Nat /\ off[o] \in Nat
        BY <1>5, <1>8
    <2> QED
        BY <2>1
<1>16. \A o \in A : /\ off[o] + 1 \in DOMAIN out
                    /\ \A k \in 1..L[o] : off[o] + 1 + k \in DOMAIN out
    BY <1>14, <1>15
<1>17. \A o \in A : DOMAIN Answers(msgs, o) = 1..L[o]
    BY <1>5
<1>18. Turns(msgs, off)
    <2>1. ASSUME NEW o \in A
          PROVE  /\ off[o] \in Nat /\ off[o] + 1 \in DOMAIN out
                 /\ out[off[o] + 1] = HoistReasoning(msgs[o])
                 /\ \A k \in DOMAIN Answers(msgs, o) :
                       /\ off[o] + 1 + k \in DOMAIN out
                       /\ out[off[o] + 1 + k] = ResultFor(msgs, o, Answers(msgs, o)[k])
                       /\ TurnOf(off[o] + 1 + k) = off[o] + 1
        BY <1>8, <1>11, <1>16, <1>17
    <2>2. ASSUME NEW i \in DOMAIN out
          PROVE  /\ out[i].role = "assistant" => \E o \in A : i = off[o] + 1
                 /\ out[i].role = "toolResult" \/ out[i].synthetic =>
                       \E o \in A : \E k \in DOMAIN Answers(msgs, o) : i = off[o] + 1 + k
        BY <1>12, <1>17
    <2>3. \A o, p \in A : o < p => off[o] < off[p]
        BY <1>13
    <2> QED
        BY <1>3, <2>1, <2>2, <2>3, Zenon DEF Turns, A, out
<1> QED
    BY <1>18

\* A set of one element has no two.
LEMMA Single ==
    ASSUME NEW S, IsFiniteSet(S), Cardinality(S) = 1, NEW x \in S, NEW y \in S
    PROVE  x = y
BY FS_Singleton

\* The blocks of a transcript that call id.
CallPlaces(msgs, id) ==
    UNION {{<<i, j>> : j \in {k \in Typed(msgs[i], CallTypes) : msgs[i].blocks[k].id = id}} :
           i \in Assistants(msgs)}

\* They are finitely many.
LEMMA CallsFinite ==
    ASSUME NEW msgs \in Seq(RuntimeItems), NEW id
    PROVE  IsFiniteSet(CallPlaces(msgs, id))
<1> DEFINE C == CallPlaces(msgs, id)
           f == [i \in DOMAIN msgs |-> DOMAIN msgs[i].blocks]
           U == {f[i] : i \in DOMAIN msgs}
<1>1. \A n \in Nat : IsFiniteSet(1..n)
    BY FS_Interval
<1>2. DOMAIN msgs = 1..Len(msgs) /\ Len(msgs) \in Nat
    OBVIOUS
<1>3. IsFiniteSet(DOMAIN msgs)
    BY <1>1, <1>2
<1>4. \A i \in DOMAIN msgs : IsFiniteSet(f[i])
    <2> TAKE i \in DOMAIN msgs
    <2>1. msgs[i] \in RuntimeItems
        BY <1>2
    <2>2. msgs[i].blocks \in Seq(Blocks)
        BY <2>1 DEF RuntimeItems
    <2>3. f[i] = 1..Len(msgs[i].blocks) /\ Len(msgs[i].blocks) \in Nat
        BY <2>2
    <2> QED
        BY <1>1, <2>3
<1>5. IsFiniteSet(U)
    <2> HIDE DEF f
    <2> QED
        BY <1>3, ImageFinite
<1>6. IsFiniteSet(UNION U)
    <2>1. \A T \in U : IsFiniteSet(T)
        BY <1>4
    <2> HIDE DEF U
    <2> QED
        BY <1>5, <2>1, FS_UNION
<1>7. C \subseteq (DOMAIN msgs) \X (UNION U)
    BY DEF CallPlaces, Typed, Assistants
<1> HIDE DEF U, C
<1>8. IsFiniteSet(C)
    BY <1>3, <1>6, <1>7, FS_Product, FS_Subset
<1> QED
    BY <1>8 DEF C

\* Whatever is laid out like this is paired.
LEMMA TurnsPaired ==
    ASSUME NEW n \in Nat, NEW msgs, Transcript(msgs, n), NEW off, Turns(msgs, off)
    PROVE  Paired
<1> DEFINE out == reply.msgs
           A == Assistants(msgs)
           Called(o) == Ids(msgs[o].blocks, CallTypes)
<1>1. ASSUME NEW o \in A
      PROVE  /\ o \in Nat /\ o \in DOMAIN msgs /\ msgs[o] \in RuntimeItems
             /\ msgs[o].role = "assistant" /\ Range(ToolCalls(msgs[o])) = Called(o)
    <2>1. o \in DOMAIN msgs /\ msgs[o].role = "assistant"
        BY DEF Assistants
    <2>2. o \in Nat /\ msgs[o] \in RuntimeItems
        BY <2>1 DEF Transcript
    <2> QED
        BY <2>1, <2>2, CallsNamed
<1>2. ASSUME NEW o \in A
      PROVE  /\ \A k \in DOMAIN Answers(msgs, o) :
                   Answers(msgs, o)[k] \in Called(o) \ Seen(msgs, o)
             /\ \A id \in Called(o) \ Seen(msgs, o) :
                   \E k \in DOMAIN Answers(msgs, o) : Answers(msgs, o)[k] = id
             /\ \A j, k \in DOMAIN Answers(msgs, o) :
                   j # k => Answers(msgs, o)[j] # Answers(msgs, o)[k]
             /\ \A k \in DOMAIN Answers(msgs, o) : Answers(msgs, o)[k] \in BlockIds
    <2>1. ToolCalls(msgs[o]) \in Seq(BlockIds)
        BY <1>1, CallsNamed
    <2>2. Answers(msgs, o) \in Seq(BlockIds)
        BY <2>1, PushedOnce DEF Answers
    <2> QED
        BY <1>1, <2>1, <2>2, PushedOnce DEF Answers
<1>3. ASSUME NEW o \in A
      PROVE  /\ off[o] \in Nat /\ off[o] + 1 \in DOMAIN out
             /\ out[off[o] + 1].role = "assistant"
             /\ Ids(out[off[o] + 1].blocks, CallTypes) = Called(o)
             /\ \A k \in DOMAIN Answers(msgs, o) :
                   /\ off[o] + 1 + k \in DOMAIN out
                   /\ out[off[o] + 1 + k].role = "toolResult"
                   /\ out[off[o] + 1 + k].id = Answers(msgs, o)[k]
                   /\ TurnOf(off[o] + 1 + k) = off[o] + 1
    <2>1. out[off[o] + 1] = HoistReasoning(msgs[o]) /\ off[o] \in Nat /\ off[o] + 1 \in DOMAIN out
        BY DEF Turns
    <2>2. \A k \in DOMAIN Answers(msgs, o) :
             /\ off[o] + 1 + k \in DOMAIN out
             /\ out[off[o] + 1 + k] = ResultFor(msgs, o, Answers(msgs, o)[k])
             /\ TurnOf(off[o] + 1 + k) = off[o] + 1
        BY DEF Turns
    <2>3. \A k \in DOMAIN Answers(msgs, o) :
             LET r == ResultFor(msgs, o, Answers(msgs, o)[k])
             IN  r.role = "toolResult" /\ r.id = Answers(msgs, o)[k]
        BY <1>1, <1>2, Answered
    <2>4. /\ HoistReasoning(msgs[o]).role = "assistant"
          /\ Ids(HoistReasoning(msgs[o]).blocks, CallTypes) = Called(o)
        BY <1>1, Hoisted
    <2> HIDE DEF out
    <2> QED
        BY <2>1, <2>2, <2>3, <2>4
<1>4. \A i \in DOMAIN out :
         /\ out[i].role = "assistant" => \E o \in A : i = off[o] + 1
         /\ out[i].role = "toolResult" =>
               \E o \in A : \E k \in DOMAIN Answers(msgs, o) : i = off[o] + 1 + k
    BY DEF Turns
<1>5. \A o, p \in A : o < p => off[o] < off[p]
    BY DEF Turns
<1>6. \A o, p \in A : o < p => Called(o) \subseteq Seen(msgs, p)
    BY <1>1 DEF Seen
<1>7. \A o \in A : \A id \in Seen(msgs, o) : \E t \in A : t < o /\ id \in Called(t)
    BY <1>1 DEF Seen
<1> HIDE DEF Called
<1>8. ASSUME NEW i \in DOMAIN out, out[i].role = "toolResult"
      PROVE  /\ TurnOf(i) # 0 /\ out[TurnOf(i)].role = "assistant"
             /\ out[i].id \in Ids(out[TurnOf(i)].blocks, CallTypes)
             /\ \A k \in DOMAIN out :
                   k # i /\ out[k].role = "toolResult" => out[k].id # out[i].id
    <2> HIDE DEF out, A
    <2>1. PICK o \in A : \E k \in DOMAIN Answers(msgs, o) : i = off[o] + 1 + k
        BY <1>4, <1>8
    <2>2. PICK k \in DOMAIN Answers(msgs, o) : i = off[o] + 1 + k
        BY <2>1
    <2>3. TurnOf(i) = off[o] + 1 /\ out[i].id = Answers(msgs, o)[k] /\ off[o] \in Nat
        BY <1>3, <2>2
    <2>4. /\ TurnOf(i) # 0 /\ out[TurnOf(i)].role = "assistant"
          /\ out[i].id \in Ids(out[TurnOf(i)].blocks, CallTypes)
        BY <1>2, <1>3, <2>3
    <2>5. ASSUME NEW h \in DOMAIN out, h # i, out[h].role = "toolResult"
          PROVE  out[h].id # out[i].id
        <3>1. PICK p \in A : \E j \in DOMAIN Answers(msgs, p) : h = off[p] + 1 + j
            BY <1>4, <2>5
        <3>2. PICK j \in DOMAIN Answers(msgs, p) : h = off[p] + 1 + j
            BY <3>1
        <3>3. out[h].id = Answers(msgs, p)[j]
            BY <1>3, <3>2
        <3>4. CASE p = o
            <4>1. j # k
                BY <2>2, <2>5, <3>2, <3>4
            <4> QED
                BY <1>2, <2>3, <3>3, <3>4, <4>1
        <3>5. CASE p < o
            <4>1. Answers(msgs, p)[j] \in Seen(msgs, o)
                BY <1>2, <1>6, <3>5
            <4>2. Answers(msgs, o)[k] \notin Seen(msgs, o)
                BY <1>2
            <4> QED
                BY <2>3, <3>3, <4>1, <4>2
        <3>6. CASE o < p
            <4>1. Answers(msgs, o)[k] \in Seen(msgs, p)
                BY <1>2, <1>6, <3>6
            <4>2. Answers(msgs, p)[j] \notin Seen(msgs, p)
                BY <1>2
            <4> QED
                BY <2>3, <3>3, <4>1, <4>2
        <3>7. o \in Nat /\ p \in Nat
            BY <1>1
        <3> QED
            BY <3>4, <3>5, <3>6, <3>7
    <2> QED
        BY <2>4, <2>5
<1>9. ASSUME NEW i \in DOMAIN out, out[i].role = "assistant",
             NEW id \in Ids(out[i].blocks, CallTypes), CalledOnce(id)
      PROVE  \E k \in DOMAIN out : /\ out[k].role = "toolResult"
                                   /\ out[k].id = id /\ TurnOf(k) = i
    <2>1. PICK o \in A : i = off[o] + 1
        BY <1>4, <1>9
    <2>2. id \in Called(o)
        BY <1>3, <1>9, <2>1
    <2>3. id \notin Seen(msgs, o)
        <3>1. SUFFICES ASSUME id \in Seen(msgs, o) PROVE FALSE
            OBVIOUS
        <3>2. PICK t \in A : t < o /\ id \in Called(t)
            BY <1>7, <3>1
        <3>3. off[t] + 1 < i
            BY <1>3, <1>5, <2>1, <3>2
        <3> DEFINE C == CallPlaces(reply.msgs, id)
        <3>4. Cardinality(C) = 1 /\ IsFiniteSet(C)
            <4>1. reply.msgs \in Seq(RuntimeItems)
                BY DEF Turns
            <4>2. IsFiniteSet(C)
                BY <4>1, CallsFinite
            <4>3. Cardinality(C) = 1
                BY <1>9, Zenon DEF CalledOnce, CallPlaces
            <4> QED
                BY <4>2, <4>3
        <3>5. ASSUME NEW h \in DOMAIN out, out[h].role = "assistant",
                     id \in Ids(out[h].blocks, CallTypes)
              PROVE  \E j : <<h, j>> \in C
            <4>1. PICK j \in DOMAIN out[h].blocks : /\ out[h].blocks[j].type \in CallTypes
                                                    /\ out[h].blocks[j].id = id
                BY <3>5 DEF Ids, Range
            <4>2. j \in {k \in Typed(reply.msgs[h], CallTypes) : reply.msgs[h].blocks[k].id = id}
                BY <4>1 DEF Typed
            <4>3. h \in Assistants(reply.msgs)
                BY <3>5 DEF Assistants
            <4> QED
                BY <4>2, <4>3 DEF CallPlaces
        <3>6. \E j : <<i, j>> \in C
            BY <1>9, <3>5
        <3>7. \E j : <<off[t] + 1, j>> \in C
            BY <1>3, <3>2, <3>5
        <3>8. PICK x \in C, y \in C : x # y
            <4>1. PICK j, k : <<i, j>> \in C /\ <<off[t] + 1, k>> \in C
                BY <3>6, <3>7
            <4>2. <<i, j>> # <<off[t] + 1, k>>
                BY <1>3, <2>1, <3>3
            <4> QED
                BY <4>1, <4>2
        <3> QED
            BY <3>4, <3>8, Single
    <2>4. PICK k \in DOMAIN Answers(msgs, o) : Answers(msgs, o)[k] = id
        BY <1>2, <2>2, <2>3
    <2> HIDE DEF out, A
    <2> QED
        BY <1>3, <2>1, <2>4
<1>10. \A i \in DOMAIN reply.msgs : reply.msgs[i].role = "toolResult" =>
          /\ TurnOf(i) # 0 /\ reply.msgs[TurnOf(i)].role = "assistant"
          /\ reply.msgs[i].id \in Ids(reply.msgs[TurnOf(i)].blocks, CallTypes)
          /\ \A k \in DOMAIN reply.msgs :
                k # i /\ reply.msgs[k].role = "toolResult" => reply.msgs[k].id # reply.msgs[i].id
    BY <1>8
<1>11. \A i \in DOMAIN reply.msgs : reply.msgs[i].role = "assistant" =>
          \A id \in Ids(reply.msgs[i].blocks, CallTypes) : CalledOnce(id) =>
             \E k \in DOMAIN reply.msgs : /\ reply.msgs[k].role = "toolResult"
                                        /\ reply.msgs[k].id = id /\ TurnOf(k) = i
    BY <1>9
<1> QED
    BY <1>10, <1>11, Zenon DEF Paired

-----------------------------------------------------------------------------
(* The budget. *)

\* What items cost.
Tokens(items) == [o \in DOMAIN items |-> items[o].tokens]

\* Items with token counts, finitely many.
Costed(items) ==
    /\ DOMAIN items \subseteq Nat /\ IsFiniteSet(DOMAIN items)
    /\ \A o \in DOMAIN items : items[o].tokens \in Nat

\* The cost of items is a sum.
LEMMA CostIsSum ==
    ASSUME NEW items, Costed(items), NEW S \in SUBSET DOMAIN items
    PROVE  Cost(items, S) = SumOf(Tokens(items), S)
<1> DEFINE F == Tokens(items)
<1>0. IsFiniteSet(S) /\ \A o \in S : items[o].tokens \in Int
    BY FS_Subset DEF Costed
<1>1. \A o \in S : F[o] = items[o].tokens
    BY DEF Tokens
<1>2. PICK g : Adds(g, F, S)
    BY <1>0, SumsExist
<1> HIDE DEF F
<1>3. ASSUME NEW h
      PROVE  Adds(h, F, S) <=>
             h = [s \in SUBSET S |->
                     IF s = {} THEN 0
                     ELSE items[CHOOSE x \in s : TRUE].tokens
                          + h[s \ {CHOOSE x \in s : TRUE}]]
    <2>1. \A s \in SUBSET S : s # {} =>
              F[CHOOSE x \in s : TRUE] = items[CHOOSE x \in s : TRUE].tokens
        BY <1>1
    <2>2. [s \in SUBSET S |->
              IF s = {} THEN 0
              ELSE F[CHOOSE x \in s : TRUE] + h[s \ {CHOOSE x \in s : TRUE}]]
          = [s \in SUBSET S |->
              IF s = {} THEN 0
              ELSE items[CHOOSE x \in s : TRUE].tokens
                   + h[s \ {CHOOSE x \in s : TRUE}]]
        BY <2>1
    <2> QED
        BY <2>2 DEF Adds
<1>4. g = [s \in SUBSET S |->
              IF s = {} THEN 0
              ELSE items[CHOOSE x \in s : TRUE].tokens
                   + g[s \ {CHOOSE x \in s : TRUE}]]
    BY <1>2, <1>3
<1>5. \E h : /\ h = [s \in SUBSET S |->
                      IF s = {} THEN 0
                      ELSE items[CHOOSE x \in s : TRUE].tokens
                           + h[s \ {CHOOSE x \in s : TRUE}]]
             /\ MapThenSumSet(LAMBDA o : items[o].tokens, S) = h[S]
    BY <1>4 DEF MapThenSumSet, MapThenFoldSet
<1>6. IsSum(MapThenSumSet(LAMBDA o : items[o].tokens, S), F, S)
    BY <1>3, <1>5 DEF IsSum
<1>7. \A x \in S : F[x] \in Int
    BY <1>0, <1>1
<1> QED
    BY <1>0, <1>6, <1>7, SumOfIs DEF Cost, F

\* It adds up, and no item lowers it.
LEMMA CostFacts ==
    ASSUME NEW items, Costed(items)
    PROVE  /\ Cost(items, {}) = 0
           /\ \A S \in SUBSET DOMAIN items : Cost(items, S) \in Nat
           /\ \A S, T \in SUBSET DOMAIN items : S \cap T = {} =>
                 Cost(items, S \cup T) = Cost(items, S) + Cost(items, T)
           /\ \A S, T \in SUBSET DOMAIN items : S \subseteq T => Cost(items, S) <= Cost(items, T)
           /\ \A S \in SUBSET DOMAIN items : \A o \in S : items[o].tokens <= Cost(items, S)
<1> DEFINE F == Tokens(items)
           D == DOMAIN items
<1>1. \A o \in D : F[o] \in Nat /\ F[o] = items[o].tokens
    BY DEF Tokens, Costed
<1>2. \A S \in SUBSET D : IsFiniteSet(S)
    BY FS_Subset DEF Costed
<1>3. \A S \in SUBSET D : Cost(items, S) = SumOf(F, S)
    BY CostIsSum
<1> HIDE DEF F
<1>4. Cost(items, {}) = 0
    BY <1>3, SumEmpty
<1>5. \A S \in SUBSET D : Cost(items, S) \in Nat
    <2> TAKE S \in SUBSET D
    <2>1. SumOf(F, S) \in Nat
        BY <1>1, <1>2, SumNat
    <2> QED
        BY <1>3, <2>1
<1>6. \A S, T \in SUBSET D : S \cap T = {} =>
         Cost(items, S \cup T) = Cost(items, S) + Cost(items, T)
    <2> TAKE S \in SUBSET D, T \in SUBSET D
    <2> HAVE S \cap T = {}
    <2>1. \A x \in S \cup T : F[x] \in Int
        BY <1>1
    <2>2. SumOf(F, S \cup T) = SumOf(F, S) + SumOf(F, T)
        BY <1>2, <2>1, SumUnion
    <2> QED
        BY <1>3, <2>2
<1>7. \A S, T \in SUBSET D : S \subseteq T => Cost(items, S) <= Cost(items, T)
    <2> TAKE S \in SUBSET D, T \in SUBSET D
    <2> HAVE S \subseteq T
    <2>1. T \ S \in SUBSET D /\ S \cap (T \ S) = {} /\ S \cup (T \ S) = T
        OBVIOUS
    <2>2. Cost(items, T) = Cost(items, S) + Cost(items, T \ S)
        BY <1>6, <2>1
    <2>3. Cost(items, S) \in Nat /\ Cost(items, T \ S) \in Nat
        BY <1>5, <2>1
    <2> QED
        BY <2>2, <2>3
<1>8. \A S \in SUBSET D : \A o \in S : items[o].tokens <= Cost(items, S)
    <2> TAKE S \in SUBSET D
    <2> TAKE o \in S
    <2>1. {} \in SUBSET D /\ {o} \in SUBSET D /\ {o} \subseteq S /\ {} \cup {o} = {o}
        OBVIOUS
    <2>2. SumOf(F, {} \cup {o}) = F[o] + SumOf(F, {})
        <3>1. IsFiniteSet({}) /\ o \notin {} /\ \A y \in {} \cup {o} : F[y] \in Int
            BY <1>1, <1>2
        <3> QED
            BY <3>1, SumAdd
    <2>3. Cost(items, {o}) = items[o].tokens
        BY <1>1, <1>3, <2>1, <2>2, SumEmpty
    <2> QED
        BY <1>7, <2>1, <2>3
<1> QED
    BY <1>4, <1>5, <1>6, <1>7, <1>8

\* Some item is the least relevant.
LEMMA LeastRelevantIn ==
    ASSUME NEW S, S \subseteq Nat, S # {}, NEW relevant
    PROVE  LeastRelevant(relevant, S) \in S
<1>1. \E o \in S : \A p \in S \ {o} : MoreRelevant(relevant, p, o)
    <2>1. CASE S \ relevant # {}
        <3>1. PICK o \in S \ relevant : \A p \in S \ relevant : o <= p
            BY <2>1, LeastNat
        <3> QED
            BY <3>1 DEF MoreRelevant
    <2>2. CASE S \ relevant = {}
        <3>1. PICK o \in S : \A p \in S : o <= p
            BY LeastNat
        <3> QED
            BY <2>2, <3>1 DEF MoreRelevant
    <2> QED
        BY <2>1, <2>2
<1> QED
    BY <1>1 DEF LeastRelevant

\* What is kept of s, when g says what is kept of smaller sets.
KeptOf(g, s, items, remaining, relevant) ==
    IF s = {} THEN {}
    ELSE LET o == LeastRelevant(relevant, s)
             before == g[s \ {o}]
         IN  IF Cost(items, before \cup {o}) <= remaining THEN before \cup {o} ELSE before

\* g says what is kept of each subset of S.
Keepers(g, S, items, remaining, relevant) ==
    g = [s \in SUBSET S |-> KeptOf(g, s, items, remaining, relevant)]

\* Taking the items by relevance ends.
LEMMA KeptExist ==
    ASSUME NEW S, S \subseteq Nat, IsFiniteSet(S), NEW items, NEW remaining, NEW relevant
    PROVE  \E g : Keepers(g, S, items, remaining, relevant)
<1> DEFINE Value(g, s) == KeptOf(g, s, items, remaining, relevant)
           Least(s) == LeastRelevant(relevant, s)
           Upto(g, n) == \A s \in SUBSET S : Cardinality(s) <= n => g[s] = Value(g, s)
           Good(n) == \E g : g = [s \in SUBSET S |-> g[s]] /\ Upto(g, n)
           Bad == {n \in Nat : ~Good(n)}
<1>0. ASSUME NEW g, NEW h, NEW s, s # {} => g[s \ {Least(s)}] = h[s \ {Least(s)}]
      PROVE  Value(g, s) = Value(h, s)
    BY <1>0 DEF KeptOf
<1>1. \A s \in SUBSET S : IsFiniteSet(s) /\ Cardinality(s) \in Nat
    BY FS_Subset, FS_CardinalityType
<1>l. \A s \in SUBSET S : s # {} => Least(s) \in s
    BY LeastRelevantIn
<1>e. \A g : Value(g, {}) = {}
    BY DEF KeptOf
<1> HIDE DEF Value, Least
<1>2. Good(0)
    <2> DEFINE g == [s \in SUBSET S |-> {}]
    <2>1. g = [s \in SUBSET S |-> g[s]]
        OBVIOUS
    <2>2. ASSUME NEW s \in SUBSET S, Cardinality(s) <= 0 PROVE g[s] = Value(g, s)
        <3>1. s = {}
            BY <2>2, <1>1, FS_EmptySet
        <3> QED
            BY <3>1, <1>e
    <2> QED
        BY <2>1, <2>2
<1>3. ASSUME NEW n \in Nat, Good(n) PROVE Good(n + 1)
    <2>1. PICK g : g = [s \in SUBSET S |-> g[s]] /\ Upto(g, n)
        BY <1>3
    <2> DEFINE h == [s \in SUBSET S |-> IF Cardinality(s) <= n THEN g[s] ELSE Value(g, s)]
    <2>2. h = [s \in SUBSET S |-> h[s]]
        OBVIOUS
    <2>3. ASSUME NEW s \in SUBSET S, Cardinality(s) <= n + 1 PROVE h[s] = Value(h, s)
        <3>1. h[s] = Value(g, s)
            BY <2>1
        <3>2. s # {} => g[s \ {Least(s)}] = h[s \ {Least(s)}]
            <4> HAVE s # {}
            <4> DEFINE t == s \ {Least(s)}
            <4>1. Least(s) \in s
                BY <1>l
            <4>2. t \in SUBSET S /\ Cardinality(t) = Cardinality(s) - 1
                BY <4>1, <1>1, FS_RemoveElement
            <4>3. Cardinality(t) <= n
                BY <4>2, <2>3, <1>1
            <4> QED
                BY <4>2, <4>3
        <3>3. Value(g, s) = Value(h, s)
            BY <3>2, <1>0
        <3> QED
            BY <3>1, <3>3
    <2> HIDE DEF h
    <2> QED
        BY <2>2, <2>3
<1> HIDE DEF Good
<1>4. Bad = {}
    <2>1. SUFFICES ASSUME Bad # {} PROVE FALSE
        OBVIOUS
    <2>2. PICK n \in Bad : \A m \in Bad : n <= m
        BY <2>1, LeastNat
    <2>3. n # 0
        BY <1>2, <2>2
    <2>4. n - 1 \in Nat /\ n - 1 \notin Bad
        BY <2>2, <2>3
    <2>5. Good(n - 1 + 1)
        BY <2>4, <1>3
    <2> QED
        BY <2>5, <2>2
<1>5. Good(Cardinality(S))
    BY <1>4, FS_CardinalityType
<1>6. PICK g : g = [s \in SUBSET S |-> g[s]] /\ Upto(g, Cardinality(S))
    BY <1>5 DEF Good
<1>7. \A s \in SUBSET S : g[s] = Value(g, s)
    <2> TAKE s \in SUBSET S
    <2>1. Cardinality(s) <= Cardinality(S)
        BY FS_Subset
    <2> QED
        BY <1>6, <2>1
<1>8. g = [s \in SUBSET S |-> Value(g, s)]
    BY <1>6, <1>7
<1> QED
    BY <1>8 DEF Value, Keepers

\* What is kept by relevance fits.
LEMMA KeepRelevantFits ==
    ASSUME NEW items, Costed(items), NEW S \in SUBSET DOMAIN items,
           NEW remaining \in Nat, NEW relevant
    PROVE  LET k == KeepRelevant(items, S, remaining, relevant)
           IN  k \subseteq S /\ Cost(items, k) <= remaining
<1>0. S \subseteq Nat /\ IsFiniteSet(S)
    BY FS_Subset DEF Costed
<1>x. \E kept : Keepers(kept, S, items, remaining, relevant)
    BY <1>0, KeptExist
<1> DEFINE g == CHOOSE kept : kept = [s \in SUBSET S |->
                    IF s = {} THEN {}
                    ELSE LET o == LeastRelevant(relevant, s)
                             before == kept[s \ {o}]
                         IN  IF Cost(items, before \cup {o}) <= remaining
                             THEN before \cup {o} ELSE before]
<1>1. g = [s \in SUBSET S |-> KeptOf(g, s, items, remaining, relevant)]
    BY <1>x DEF Keepers, KeptOf
<1>2. KeepRelevant(items, S, remaining, relevant) = g[S]
    BY DEF KeepRelevant
<1> HIDE DEF g
<1>3. \A s \in SUBSET S : g[s] = KeptOf(g, s, items, remaining, relevant)
    BY <1>1
<1> DEFINE Fits(s) == g[s] \subseteq s /\ Cost(items, g[s]) <= remaining
           B == {s \in SUBSET S : ~Fits(s)}
<1>4. B = {}
    <2>1. SUFFICES ASSUME B # {} PROVE FALSE
        OBVIOUS
    <2>2. PICK s \in B : \A t \in B : Cardinality(s) <= Cardinality(t)
        <3> HIDE DEF B
        <3>1. B \subseteq SUBSET S
            BY DEF B
        <3> QED
            BY <1>0, <2>1, <3>1, SmallestSet
    <2>3. s # {}
        <3>1. SUFFICES ASSUME s = {} PROVE FALSE
            OBVIOUS
        <3>2. g[s] = {}
            BY <1>3, <3>1 DEF KeptOf
        <3>3. Cost(items, {}) = 0
            BY CostFacts
        <3>4. Cost(items, g[s]) <= remaining
            BY <3>2, <3>3
        <3> QED
            BY <2>2, <3>2, <3>4
    <2> DEFINE o == LeastRelevant(relevant, s)
               t == s \ {o}
    <2>4. o \in s /\ s \in SUBSET S
        BY <1>0, <2>2, <2>3, LeastRelevantIn
    <2>5. t \in SUBSET S /\ Cardinality(t) < Cardinality(s)
        <3>1. IsFiniteSet(s) /\ Cardinality(s) \in Nat
            BY <1>0, <2>4, FS_Subset, FS_CardinalityType
        <3>2. Cardinality(t) = Cardinality(s) - 1
            BY <2>4, <3>1, FS_RemoveElement
        <3> QED
            BY <2>4, <3>1, <3>2
    <2>6. Fits(t)
        <3> HIDE DEF Fits
        <3>1. t \notin B
            <4>1. SUFFICES ASSUME t \in B PROVE FALSE
                OBVIOUS
            <4>2. Cardinality(s) <= Cardinality(t)
                BY <2>2, <4>1
            <4>3. IsFiniteSet(s) /\ IsFiniteSet(t)
                BY <1>0, <2>4, <2>5, FS_Subset
            <4>4. Cardinality(s) \in Nat /\ Cardinality(t) \in Nat
                BY <4>3, FS_CardinalityType
            <4> QED
                BY <2>5, <4>2, <4>4
        <3> QED
            BY <2>5, <3>1
    <2>7. g[s] = IF Cost(items, g[t] \cup {o}) <= remaining THEN g[t] \cup {o} ELSE g[t]
        BY <1>3, <2>3, <2>4 DEF KeptOf
    <2>8. Fits(s)
        <3> HIDE DEF o
        <3> QED
            BY <2>4, <2>6, <2>7
    <2> QED
        BY <2>2, <2>8
<1> QED
    BY <1>2, <1>4

\* What is kept by age fits.
LEMMA KeepNewestFits ==
    ASSUME NEW items, Costed(items), NEW S \in SUBSET DOMAIN items, NEW remaining \in Nat
    PROVE  LET k == KeepNewest(items, S, remaining)
           IN  k \subseteq S /\ Cost(items, k) <= remaining
<1> DEFINE k == KeepNewest(items, S, remaining)
<1>1. k \subseteq S /\ \A o \in k : Cost(items, UpFrom(S, o)) <= remaining
    BY DEF KeepNewest
<1> HIDE DEF k
<1>2. CASE k = {}
    BY <1>1, <1>2, CostFacts DEF k
<1>3. CASE k # {}
    <2>1. k \subseteq Nat /\ k \in SUBSET DOMAIN items
        BY <1>1 DEF Costed
    <2>2. PICK o \in k : \A p \in k : o <= p
        BY <1>3, <2>1, LeastNat
    <2>3. k \subseteq UpFrom(S, o) /\ UpFrom(S, o) \in SUBSET DOMAIN items
        BY <1>1, <2>1, <2>2 DEF UpFrom
    <2>4. Cost(items, k) <= Cost(items, UpFrom(S, o)) /\ Cost(items, UpFrom(S, o)) <= remaining
        BY <1>1, <2>1, <2>2, <2>3, CostFacts
    <2>5. Cost(items, k) \in Nat /\ Cost(items, UpFrom(S, o)) \in Nat
        BY <2>1, <2>3, CostFacts
    <2> QED
        BY <1>1, <2>4, <2>5 DEF k
<1> QED
    BY <1>2, <1>3

\* What remains of a budget.
LEMMA MaxZero ==
    ASSUME NEW a \in Int
    PROVE  LET m == Max({0, a})
           IN  m \in Nat /\ (a >= 0 => m = a) /\ (a < 0 => m = 0)
<1>1. CASE a >= 0
    <2>1. \A x : (x \in {0, a} /\ \A y \in {0, a} : x >= y) <=> x = a
        BY <1>1
    <2> QED
        BY <1>1, <2>1 DEF Max
<1>2. CASE a < 0
    <2>1. \A x : (x \in {0, a} /\ \A y \in {0, a} : x >= y) <=> x = 0
        BY <1>2
    <2> QED
        BY <1>2, <2>1 DEF Max
<1> QED
    BY <1>1, <1>2

\* The walk keeps evictable items that fit beside the tail; beside a tail that
\* is over the budget they cost nothing.
LEMMA WalkFits ==
    ASSUME NEW items, Costed(items), NEW E \in SUBSET DOMAIN items,
           NEW T \in SUBSET DOMAIN items, NEW inp, inp.budget \in Nat
    PROVE  LET k == BudgetWalk(items, E, T, inp)
           IN  /\ k \subseteq E
               /\ Cost(items, T) <= inp.budget => Cost(items, k) + Cost(items, T) <= inp.budget
               /\ Cost(items, T) > inp.budget => Cost(items, k) = 0
<1> DEFINE remaining == Max({0, inp.budget - Cost(items, T)})
           k == BudgetWalk(items, E, T, inp)
<1>0. Cost(items, T) \in Nat /\ Cost(items, E) \in Nat
    BY CostFacts
<1>1. /\ remaining \in Nat
      /\ Cost(items, T) <= inp.budget => remaining = inp.budget - Cost(items, T)
      /\ Cost(items, T) > inp.budget => remaining = 0
    <2>1. inp.budget - Cost(items, T) \in Int
        BY <1>0
    <2> QED
        BY <1>0, <2>1, MaxZero
<1>2. \/ Cost(items, E) <= remaining /\ k = E
      \/ k = KeepRelevant(items, E, remaining, inp.relevant)
      \/ k = KeepNewest(items, E, remaining)
    <2> HIDE DEF remaining
    <2>1. k = CASE Cost(items, E) <= remaining -> E
                [] Cost(items, E) > remaining /\ inp.searchable ->
                      KeepRelevant(items, E, remaining, inp.relevant)
                [] OTHER -> KeepNewest(items, E, remaining)
        BY Zenon DEF BudgetWalk, remaining
    <2> HIDE DEF k
    <2> QED
        BY <1>0, <1>1, <2>1
<1> HIDE DEF k, remaining
<1>3. k \subseteq E /\ Cost(items, k) <= remaining
    BY <1>1, <1>2, KeepRelevantFits, KeepNewestFits
<1>4. Cost(items, k) \in Nat
    BY <1>3, CostFacts
<1>5. /\ Cost(items, T) <= inp.budget => Cost(items, k) + Cost(items, T) <= inp.budget
      /\ Cost(items, T) > inp.budget => Cost(items, k) = 0
    BY <1>0, <1>1, <1>3, <1>4
<1> QED
    BY <1>3, <1>5 DEF k

\* The newest message is in the fresh tail.
LEMMA NewestInTail ==
    ASSUME NEW items, Costed(items), NEW count \in Nat \ {0}, NEW cap, RawMessages(items) # {}
    PROVE  LET m == Max(RawMessages(items))
           IN  m \in DOMAIN items /\ m >= FreshTailOrdinal(items, count, cap)
<1> DEFINE R == RawMessages(items)
           m == Max(R)
           starts == {o \in R : TailFrom(items, o, count, cap)}
<1>1. R \subseteq DOMAIN items /\ R \subseteq Nat /\ IsFiniteSet(R)
    BY FS_Subset DEF RawMessages, Costed
<1>2. m \in R /\ \A o \in R : o <= m
    BY <1>1, MaxFacts
<1> HIDE DEF m
<1>3. UpFrom(R, m) = {m}
    BY <1>1, <1>2 DEF UpFrom
<1>4. Cardinality({m}) = 1
    BY FS_Singleton
<1>5. TailFrom(items, m, count, cap)
    BY <1>3, <1>4 DEF TailFrom
<1>6. m \in starts /\ starts \subseteq Nat
    BY <1>1, <1>2, <1>5
<1>7. Min(starts) <= m
    BY <1>6, MinFacts
<1>8. FreshTailOrdinal(items, count, cap) = Min(starts)
    BY <1>6 DEF FreshTailOrdinal
<1> QED
    BY <1>1, <1>2, <1>6, <1>7, <1>8, MinFacts DEF m

-----------------------------------------------------------------------------
(* Stripping. *)

\* To is from with some items and some blocks of assistant turns missing.
Thins(to, from, n) ==
    /\ Transcript(to, n) /\ DOMAIN to \subseteq DOMAIN from
    /\ \A o \in DOMAIN to : /\ to[o].role = from[o].role /\ to[o].id = from[o].id
                            /\ Range(to[o].blocks) \subseteq Range(from[o].blocks)
    /\ \A o \in DOMAIN from : from[o].role # "assistant" => o \in DOMAIN to

\* The blocks of its turns were picked at these places.
PickedAt(to, items, places) ==
    \A o \in Assistants(to) : \A b \in Range(to[o].blocks) :
        \E i \in places[o] : b = items[o].blocks[i]

\* The blocks of turns to stay are chosen at places, and some turns go.
LEMMA ThinsByPlaces ==
    ASSUME NEW n, NEW items, Transcript(items, n),
           NEW places, \A o \in Assistants(items) : places[o] \subseteq DOMAIN items[o].blocks,
           NEW gone, gone \subseteq Assistants(items),
           NEW to, to = Restrict(Trimmed(items, places), DOMAIN items \ gone)
    PROVE  Thins(to, items, n) /\ PickedAt(to, items, places)
<1> DEFINE D == DOMAIN items \ gone
<1>1. DOMAIN to = D /\ D \subseteq DOMAIN items /\ D \subseteq 1..n
    BY DEF Restrict, Transcript
<1>2. \A o \in D : to[o] = IF o \in Assistants(items)
                           THEN [items[o] EXCEPT !.blocks = Pick(items[o].blocks, places[o])]
                           ELSE items[o]
    BY DEF Restrict, Trimmed
<1>3. ASSUME NEW o \in D
      PROVE  /\ to[o] \in RuntimeItems /\ to[o].ord = o /\ ~to[o].synthetic
             /\ to[o].role = items[o].role /\ to[o].id = items[o].id
             /\ Range(to[o].blocks) \subseteq Range(items[o].blocks)
             /\ o \in Assistants(items) => \A b \in Range(to[o].blocks) :
                   \E i \in places[o] : b = items[o].blocks[i]
    <2> DEFINE b == Pick(items[o].blocks, places[o])
    <2>1. items[o] \in RuntimeItems /\ items[o].ord = o /\ ~items[o].synthetic
        BY <1>1 DEF Transcript
    <2>2. CASE o \in Assistants(items)
        <3>1. items[o].blocks \in Seq(Blocks) /\ places[o] \in SUBSET DOMAIN items[o].blocks
            BY <2>1, <2>2 DEF RuntimeItems
        <3>2. b \in Seq(Blocks) /\ Range(b) = {items[o].blocks[i] : i \in places[o]}
            BY <3>1, PickedRange
        <3>3. to[o] = [items[o] EXCEPT !.blocks = b]
            BY <1>2, <2>2
        <3> HIDE DEF b
        <3>4. /\ to[o] \in RuntimeItems /\ to[o].ord = o /\ ~to[o].synthetic
              /\ to[o].role = items[o].role /\ to[o].id = items[o].id /\ to[o].blocks = b
            BY <2>1, <3>2, <3>3 DEF RuntimeItems
        <3>5. Range(b) \subseteq Range(items[o].blocks)
            BY <3>1, <3>2 DEF Range
        <3> QED
            BY <3>2, <3>4, <3>5
    <2>3. CASE o \notin Assistants(items)
        BY <1>2, <2>1, <2>3
    <2> QED
        BY <2>2, <2>3
<1>4. Transcript(to, n)
    BY <1>1, <1>3 DEF Transcript
<1>5. \A o \in DOMAIN items : items[o].role # "assistant" => o \in D
    BY DEF Assistants
<1>6. Thins(to, items, n)
    BY <1>1, <1>3, <1>4, <1>5 DEF Thins
<1>7. \A o \in Assistants(to) : o \in D /\ o \in Assistants(items)
    BY <1>1, <1>3 DEF Assistants
<1>8. \A o \in Assistants(to) : \A b \in Range(to[o].blocks) :
         \E i \in places[o] : b = items[o].blocks[i]
    BY <1>3, <1>7
<1> QED
    BY <1>6, <1>8 DEF PickedAt

\* The calls that stay are kept for a reason.
LEMMA FilterThins ==
    ASSUME NEW n, NEW selected, Transcript(selected, n), NEW resolved, NEW boundary
    PROVE  LET to == FilterCalls(selected, resolved, boundary)
           IN  /\ Thins(to, selected, n)
               /\ \A o \in Assistants(to) : \A b \in Range(to[o].blocks) :
                     CallKept(b, o, selected, resolved, boundary)
<1> DEFINE stays == [o \in Assistants(selected) |->
                     {i \in DOMAIN selected[o].blocks :
                         CallKept(selected[o].blocks[i], o, selected, resolved, boundary)}]
           gone == {o \in Assistants(selected) : stays[o] = {}}
           to == FilterCalls(selected, resolved, boundary)
<1>1. \A o \in Assistants(selected) : stays[o] \subseteq DOMAIN selected[o].blocks
    OBVIOUS
<1>2. \A o \in Assistants(selected) : \A i \in stays[o] :
         CallKept(selected[o].blocks[i], o, selected, resolved, boundary)
    OBVIOUS
<1>3. gone \subseteq Assistants(selected)
    OBVIOUS
<1>4. to = Restrict(Trimmed(selected, stays), DOMAIN selected \ gone)
    BY DEF FilterCalls
<1> HIDE DEF stays, gone, to
<1>5. Thins(to, selected, n) /\ PickedAt(to, selected, stays)
    BY <1>1, <1>3, <1>4, ThinsByPlaces, Zenon
<1>6. \A o \in Assistants(to) : o \in Assistants(selected)
    BY <1>5 DEF Thins, Assistants
<1>7. \A o \in Assistants(to) : \A b \in Range(to[o].blocks) :
         CallKept(b, o, selected, resolved, boundary)
    BY <1>2, <1>5, <1>6 DEF PickedAt
<1> QED
    BY <1>5, <1>7 DEF to

\* Cleaning takes blank blocks and whole turns only.
LEMMA CleanThins ==
    ASSUME NEW n, NEW items, Transcript(items, n)
    PROVE  Thins(CleanAssistants(items), items, n)
<1> DEFINE stays == [o \in Assistants(items) |->
                     {i \in DOMAIN items[o].blocks : items[o].blocks[i].type # "blank"}]
           gone == {o \in Assistants(items) :
                       \A i \in stays[o] : items[o].blocks[i].type = "thinking"}
<1>1. \A o \in Assistants(items) : stays[o] \subseteq DOMAIN items[o].blocks
    OBVIOUS
<1>2. gone \subseteq Assistants(items)
    OBVIOUS
<1>3. CleanAssistants(items) = Restrict(Trimmed(items, stays), DOMAIN items \ gone)
    BY DEF CleanAssistants
<1> HIDE DEF stays, gone
<1> QED
    BY <1>1, <1>2, <1>3, ThinsByPlaces, Zenon

-----------------------------------------------------------------------------
(* What an assembled answer is. *)

\* Reading the context back.
LEMMA ResolvedFacts ==
    ASSUME NEW items \in Seq(ContextRows)
    PROVE  LET r == ResolveItems(items)
           IN  /\ Transcript(r, Len(items)) /\ Costed(r)
               /\ \A o \in DOMAIN r : r[o] = ResolvedItem(items, o) /\ o \in 1..Len(items)
               /\ \A o \in DOMAIN r : r[o].id # NoCallId => r[o].role = "toolResult"
<1> DEFINE r == ResolveItems(items)
<1>1. DOMAIN items = 1..Len(items) /\ Len(items) \in Nat
    OBVIOUS
<1>2. /\ DOMAIN r \subseteq DOMAIN items
      /\ \A o \in DOMAIN r : r[o] = ResolvedItem(items, o)
    BY DEF ResolveItems
<1> HIDE DEF r
<1>3. \A o \in DOMAIN r : r[o] \in RuntimeItems /\ r[o].ord = o /\ ~r[o].synthetic
    BY <1>2, ItemTyped
<1>4. Transcript(r, Len(items))
    BY <1>1, <1>2, <1>3 DEF Transcript
<1>5. IsFiniteSet(DOMAIN r) /\ DOMAIN r \subseteq Nat
    <2>1. IsFiniteSet(1..Len(items)) /\ 1..Len(items) \subseteq Nat
        BY <1>1, FS_Interval
    <2> QED
        BY <1>1, <1>2, <2>1, FS_Subset
<1>6. \A o \in DOMAIN r : r[o].tokens \in Nat
    BY <1>3 DEF RuntimeItems
<1>7. \A o : ResolvedItem(items, o).id # NoCallId => ResolvedItem(items, o).role = "toolResult"
    BY DEF ResolvedItem
<1>8. \A o \in DOMAIN r : r[o].id # NoCallId => r[o].role = "toolResult"
    BY <1>2, <1>7
<1> QED
    BY <1>1, <1>2, <1>4, <1>5, <1>6, <1>8 DEF Costed, r

\* Requests as the engine makes them.
Requests ==
    [budget : Nat, tail : Nat, cap : TailCaps, searchable : BOOLEAN, relevant : SUBSET Nat]

\* The answer keeps items that fit, and repairs a transcript thinned from them.
LEMMA AssembledFrom ==
    ASSUME NEW items \in Seq(ContextRows), NEW inp \in Requests
    PROVE  LET a == AssembleItems(items, inp)
               resolved == ResolveItems(items)
               boundary == FreshTailOrdinal(resolved, inp.tail, inp.cap)
               tail == UpFrom(DOMAIN resolved, boundary)
               evictable == DOMAIN resolved \ tail
               walk == BudgetWalk(resolved, evictable, tail, inp)
               selected == Restrict(resolved, a.kept)
               filtered == FilterCalls(selected, resolved, boundary)
               msgs == CleanAssistants(filtered)
           IN  /\ a.kept = walk \cup tail /\ walk \subseteq evictable
               /\ a.inp.budget = inp.budget /\ a.inp.tail = inp.tail /\ a.inp.cap = inp.cap
               /\ a.msgs = SanitizePairing(msgs, Len(items))
               /\ Transcript(selected, Len(items)) /\ DOMAIN selected = a.kept
               /\ a.kept \subseteq DOMAIN resolved
               /\ Thins(filtered, selected, Len(items)) /\ Thins(msgs, filtered, Len(items))
               /\ \A o \in Assistants(filtered) : \A b \in Range(filtered[o].blocks) :
                     CallKept(b, o, selected, resolved, boundary)
<1> DEFINE a == AssembleItems(items, inp)
           resolved == ResolveItems(items)
           boundary == FreshTailOrdinal(resolved, inp.tail, inp.cap)
           tail == UpFrom(DOMAIN resolved, boundary)
           evictable == DOMAIN resolved \ tail
           walk == BudgetWalk(resolved, evictable, tail, inp)
           selected == Restrict(resolved, a.kept)
           filtered == FilterCalls(selected, resolved, boundary)
           msgs == CleanAssistants(filtered)
<1>1. a = [path |-> "assembled", inp |-> [inp EXCEPT !.relevant = {}], kept |-> walk \cup tail,
           msgs |-> SanitizePairing(CleanAssistants(
                        FilterCalls(Restrict(resolved, walk \cup tail), resolved, boundary)),
                        Len(items))]
    BY DEF AssembleItems
<1>2. a.kept = walk \cup tail
    BY <1>1
<1>3. a.msgs = SanitizePairing(msgs, Len(items))
    BY <1>1, <1>2
<1>4. inp \in [budget : Nat, tail : Nat, cap : TailCaps, searchable : BOOLEAN,
               relevant : SUBSET Nat]
    BY DEF Requests
<1>5. a.inp.budget = inp.budget /\ a.inp.tail = inp.tail /\ a.inp.cap = inp.cap
    BY <1>1, <1>4
<1>6. Costed(resolved) /\ Transcript(resolved, Len(items))
    BY ResolvedFacts
<1>7. tail \subseteq DOMAIN resolved /\ evictable \subseteq DOMAIN resolved
    BY DEF UpFrom
<1>8. inp.budget \in Nat
    BY <1>4
<1> HIDE DEF a, resolved, boundary, tail, evictable
<1>9. walk \subseteq evictable
    BY <1>6, <1>7, <1>8, WalkFits
<1> HIDE DEF walk
<1>10. a.kept \subseteq DOMAIN resolved
    BY <1>2, <1>7, <1>9
<1>11. Transcript(selected, Len(items)) /\ DOMAIN selected = a.kept
    BY <1>6, <1>10 DEF Transcript, Restrict
<1> HIDE DEF selected
<1>12. /\ Thins(filtered, selected, Len(items))
       /\ \A o \in Assistants(filtered) : \A b \in Range(filtered[o].blocks) :
             CallKept(b, o, selected, resolved, boundary)
    BY <1>11, FilterThins
<1> HIDE DEF filtered
<1>13. Thins(msgs, filtered, Len(items))
    BY <1>12, CleanThins DEF Thins
<1> HIDE DEF msgs
<1>14. /\ a.kept = walk \cup tail /\ walk \subseteq evictable
       /\ a.inp.budget = inp.budget /\ a.inp.tail = inp.tail /\ a.inp.cap = inp.cap
       /\ a.msgs = SanitizePairing(msgs, Len(items))
       /\ Transcript(selected, Len(items)) /\ DOMAIN selected = a.kept
       /\ a.kept \subseteq DOMAIN resolved
       /\ Thins(filtered, selected, Len(items)) /\ Thins(msgs, filtered, Len(items))
       /\ \A o \in Assistants(filtered) : \A b \in Range(filtered[o].blocks) :
             CallKept(b, o, selected, resolved, boundary)
    BY <1>2, <1>3, <1>5, <1>9, <1>10, <1>11, <1>12, <1>13
<1> QED
    BY <1>14 DEF a, resolved, boundary, tail, evictable, walk, selected, filtered, msgs

\* Every message of an answer comes from a turn of a thinned context.
LEMMA AnswerLaysOut ==
    ASSUME NEW items \in Seq(ContextRows), NEW inp \in Requests, reply = AssembleItems(items, inp)
    PROVE  LET resolved == ResolveItems(items)
               boundary == FreshTailOrdinal(resolved, inp.tail, inp.cap)
               selected == Restrict(resolved, reply.kept)
               msgs == CleanAssistants(FilterCalls(selected, resolved, boundary))
           IN  Transcript(msgs, Len(items)) /\ \E off : Turns(msgs, off)
<1> DEFINE resolved == ResolveItems(items)
           boundary == FreshTailOrdinal(resolved, inp.tail, inp.cap)
           selected == Restrict(resolved, reply.kept)
           filtered == FilterCalls(selected, resolved, boundary)
           msgs == CleanAssistants(filtered)
<1>1. reply.msgs = SanitizePairing(msgs, Len(items)) /\ Thins(msgs, filtered, Len(items))
    BY AssembledFrom
<1> HIDE DEF msgs, filtered
<1>2. Transcript(msgs, Len(items)) /\ Len(items) \in Nat
    BY <1>1 DEF Thins
<1>3. \E off : Turns(msgs, off)
    BY <1>1, <1>2, RepairLaysOut
<1> QED
    BY <1>2, <1>3 DEF msgs, filtered

\* An answer pairs calls and results.
LEMMA AnswerPaired ==
    ASSUME NEW items \in Seq(ContextRows), NEW inp \in Requests, reply = AssembleItems(items, inp)
    PROVE  Paired
<1> DEFINE resolved == ResolveItems(items)
           boundary == FreshTailOrdinal(resolved, inp.tail, inp.cap)
           selected == Restrict(resolved, reply.kept)
           msgs == CleanAssistants(FilterCalls(selected, resolved, boundary))
<1>1. Transcript(msgs, Len(items)) /\ \E off : Turns(msgs, off)
    BY AnswerLaysOut
<1>2. Len(items) \in Nat
    OBVIOUS
<1> HIDE DEF msgs
<1> QED
    BY <1>1, <1>2, TurnsPaired

\* An answer fits the budget.
LEMMA AnswerWithinBudget ==
    ASSUME ctx \in Seq(ContextRows), NEW inp \in Requests, reply = AssembleItems(ctx, inp)
    PROVE  WithinBudget
<1> DEFINE resolved == ResolveItems(ctx)
           boundary == FreshTailOrdinal(resolved, inp.tail, inp.cap)
           tail == UpFrom(DOMAIN resolved, boundary)
           evictable == DOMAIN resolved \ tail
           walk == BudgetWalk(resolved, evictable, tail, inp)
<1>1. Costed(resolved)
    BY ResolvedFacts
<1>2. /\ reply.kept = walk \cup tail /\ walk \subseteq evictable
      /\ reply.inp.budget = inp.budget /\ reply.inp.tail = inp.tail /\ reply.inp.cap = inp.cap
    BY AssembledFrom
<1>3. inp.budget \in Nat /\ inp.tail \in Nat
    BY DEF Requests
<1>4. /\ tail \subseteq DOMAIN resolved /\ evictable \subseteq DOMAIN resolved
      /\ \A o \in DOMAIN resolved : o >= boundary => o \in tail
      /\ \A o \in tail : o >= boundary
    BY DEF UpFrom
<1>b. boundary \in Int
    <2>1. RawMessages(resolved) \subseteq Nat /\ EmptyFreshTailOrdinal \in Nat
        BY <1>1, AssemblyAssumption DEF RawMessages, Costed, EmptyFreshTailOrdinal
    <2> DEFINE starts == {o \in RawMessages(resolved) : TailFrom(resolved, o, inp.tail, inp.cap)}
    <2>2. boundary = IF starts = {} THEN EmptyFreshTailOrdinal ELSE Min(starts)
        BY DEF FreshTailOrdinal
    <2>3. starts \subseteq Nat
        BY <2>1
    <2> HIDE DEF starts, boundary
    <2> QED
        BY <2>1, <2>2, <2>3, MinFacts
<1> HIDE DEF resolved, boundary, tail, evictable
<1>5. /\ Cost(resolved, tail) <= inp.budget =>
            Cost(resolved, walk) + Cost(resolved, tail) <= inp.budget
      /\ Cost(resolved, tail) > inp.budget => Cost(resolved, walk) = 0
    BY <1>1, <1>3, <1>4, WalkFits
<1> HIDE DEF walk
<1>6. walk \cap tail = {}
    BY <1>2 DEF evictable
<1>7. /\ Cost(resolved, reply.kept) = Cost(resolved, walk) + Cost(resolved, tail)
      /\ Cost(resolved, walk) \in Nat /\ Cost(resolved, tail) \in Nat
      /\ \A o \in walk : resolved[o].tokens <= Cost(resolved, walk) /\ resolved[o].tokens \in Nat
    <2>1. walk \in SUBSET DOMAIN resolved /\ tail \in SUBSET DOMAIN resolved
        BY <1>2, <1>4
    <2>2. \A o \in walk : resolved[o].tokens \in Nat
        BY <1>1, <2>1 DEF Costed
    <2> QED
        BY <1>1, <1>2, <1>6, <2>1, <2>2, CostFacts
<1>8. ASSUME Cost(resolved, reply.kept) > inp.budget, NEW o \in reply.kept, o < boundary
      PROVE  resolved[o].tokens = 0
    <2>1. o \in walk
        <3>1. o \in Nat
            BY <1>1, <1>2, <1>4 DEF Costed
        <3>2. o \notin tail
            BY <1>4, <1>8, <1>b, <3>1
        <3> QED
            BY <1>2, <3>2
    <2>2. Cost(resolved, tail) > inp.budget
        BY <1>3, <1>5, <1>7, <1>8
    <2> QED
        BY <1>5, <1>7, <2>1, <2>2
<1>9. ASSUME RawMessages(resolved) # {}, inp.tail > 0
      PROVE  Max(RawMessages(resolved)) \in reply.kept
    <2>1. inp.tail \in Nat \ {0}
        BY <1>3, <1>9
    <2>2. Max(RawMessages(resolved)) \in DOMAIN resolved /\ Max(RawMessages(resolved)) >= boundary
        BY <1>1, <1>9, <2>1, NewestInTail DEF boundary
    <2> QED
        BY <1>2, <1>4, <2>2
<1>10. /\ Cost(resolved, reply.kept) > reply.inp.budget =>
             \A o \in reply.kept :
                 o < FreshTailOrdinal(resolved, reply.inp.tail, reply.inp.cap) =>
                     resolved[o].tokens = 0
       /\ RawMessages(resolved) # {} /\ reply.inp.tail > 0 =>
             Max(RawMessages(resolved)) \in reply.kept
    BY <1>2, <1>8, <1>9 DEF boundary
<1> QED
    BY <1>10 DEF WithinBudget, resolved

\* An answer makes no result up for a call whose result it could show.
LEMMA AnswerNoFalseMissing ==
    ASSUME ctx \in Seq(ContextRows), NEW inp \in Requests, reply = AssembleItems(ctx, inp)
    PROVE  NoFalseMissing
<1> DEFINE resolved == ResolveItems(ctx)
           boundary == FreshTailOrdinal(resolved, inp.tail, inp.cap)
           selected == Restrict(resolved, reply.kept)
           filtered == FilterCalls(selected, resolved, boundary)
           msgs == CleanAssistants(filtered)
           n == Len(ctx)
<1>1. Transcript(msgs, n) /\ \E off : Turns(msgs, off)
    BY AnswerLaysOut
<1>2. PICK off : Turns(msgs, off)
    BY <1>1
<1>3. /\ Transcript(selected, n) /\ DOMAIN selected = reply.kept
      /\ reply.kept \subseteq DOMAIN resolved
      /\ Thins(filtered, selected, n) /\ Thins(msgs, filtered, n)
      /\ \A o \in Assistants(filtered) : \A b \in Range(filtered[o].blocks) :
            CallKept(b, o, selected, resolved, boundary)
    BY AssembledFrom
<1>4. /\ Transcript(resolved, n) /\ Costed(resolved)
      /\ \A o \in DOMAIN resolved : resolved[o] = ResolvedItem(ctx, o) /\ o \in 1..n
      /\ \A o \in DOMAIN resolved : resolved[o].id # NoCallId => resolved[o].role = "toolResult"
    BY ResolvedFacts
<1>5. \A o \in DOMAIN selected : selected[o] = resolved[o] /\ o \in DOMAIN resolved
    BY <1>3 DEF Restrict
<1>n. n \in Nat
    OBVIOUS
<1> HIDE DEF selected, filtered, msgs, boundary, n, resolved
<1>6. ASSUME NEW i \in DOMAIN reply.msgs, reply.msgs[i].synthetic,
             NEW o, o = reply.msgs[TurnOf(i)].ord, NEW q \in (o + 1)..n,
             ResultOrds(resolved, reply.msgs[i].id) = {q},
             \A p \in (o + 1)..(q - 1) : ResolvedItem(ctx, p).role # "assistant"
      PROVE  FALSE
    <2> DEFINE id == reply.msgs[i].id
    <2>1. PICK t \in Assistants(msgs) : \E k \in DOMAIN Answers(msgs, t) : i = off[t] + 1 + k
        BY <1>2, <1>6 DEF Turns
    <2>2. PICK k \in DOMAIN Answers(msgs, t) : i = off[t] + 1 + k
        BY <2>1
    <2>3. /\ TurnOf(i) = off[t] + 1
          /\ reply.msgs[off[t] + 1] = HoistReasoning(msgs[t])
          /\ reply.msgs[i] = ResultFor(msgs, t, Answers(msgs, t)[k])
        BY <1>2, <2>1, <2>2 DEF Turns
    <2>4. /\ t \in DOMAIN msgs /\ msgs[t].role = "assistant"
          /\ msgs[t] \in RuntimeItems /\ msgs[t].ord = t /\ t \in Nat /\ t \in 1..n
        BY <1>1, <2>1 DEF Assistants, Transcript
    <2>5. o = t
        BY <1>6, <2>3, <2>4, Hoisted
    <2>6. Answers(msgs, t)[k] \in Ids(msgs[t].blocks, CallTypes) /\ Answers(msgs, t)[k] \in BlockIds
        <3>1. /\ ToolCalls(msgs[t]) \in Seq(BlockIds)
              /\ Range(ToolCalls(msgs[t])) = Ids(msgs[t].blocks, CallTypes)
            BY <2>4, CallsNamed
        <3>2. /\ Answers(msgs, t) \in Seq(BlockIds)
              /\ Answers(msgs, t)[k] \in Range(ToolCalls(msgs[t]))
            BY <2>2, <3>1, PushedOnce DEF Answers
        <3> QED
            BY <2>2, <3>1, <3>2
    <2>7. /\ id = Answers(msgs, t)[k]
          /\ {p \in Span(msgs, t) : msgs[p].role = "toolResult" /\ msgs[p].id = id} = {}
        BY <1>1, <1>6, <1>n, <2>3, <2>4, <2>6, Answered
    <2> HIDE DEF id
    <2>8. PICK b \in Range(msgs[t].blocks) : b.type \in CallTypes /\ b.id = id
        BY <2>6, <2>7 DEF Ids
    <2>9. id # NoCallId
        BY <2>6, <2>7 DEF Ids
    <2>10. /\ t \in DOMAIN filtered /\ filtered[t].role = "assistant"
           /\ b \in Range(filtered[t].blocks)
        BY <1>3, <2>4, <2>8 DEF Thins
    <2>11. CallKept(b, t, selected, resolved, boundary)
        BY <1>3, <2>10 DEF Assistants
    <2>12. ResultOrds(resolved, id) = {q} /\ q \in Nat /\ q > t /\ q \in 1..n
        BY <1>6, <1>n, <2>4, <2>5 DEF id
    <2>13. PICK r \in ResultOrds(selected, id) : r > t
        BY <2>8, <2>9, <2>11, <2>12 DEF CallKept
    <2>14. r = q
        <3>1. r \in ResultOrds(resolved, id)
            BY <1>5, <2>13 DEF ResultOrds
        <3> QED
            BY <2>12, <3>1
    <2>15. /\ q \in DOMAIN selected /\ selected[q].id = id /\ selected[q].role = "toolResult"
        BY <1>4, <1>5, <2>9, <2>13, <2>14 DEF ResultOrds
    <2>16. /\ q \in DOMAIN filtered /\ filtered[q].id = id /\ filtered[q].role = "toolResult"
        BY <1>3, <2>15 DEF Thins
    <2>17. /\ q \in DOMAIN msgs /\ msgs[q].id = id /\ msgs[q].role = "toolResult"
        BY <1>3, <2>16 DEF Thins
    <2>18. ASSUME NEW p \in Assistants(msgs), p > t PROVE p > q
        <3>1. p \in DOMAIN msgs /\ msgs[p].role = "assistant"
            BY <2>18 DEF Assistants
        <3>2. p \in DOMAIN selected /\ selected[p].role = "assistant"
            BY <1>3, <3>1 DEF Thins
        <3>3. ResolvedItem(ctx, p).role = "assistant" /\ p \in 1..n
            BY <1>4, <1>5, <3>2
        <3>4. p # q
            BY <2>17, <3>1
        <3>5. p \notin (t + 1)..(q - 1)
            BY <1>6, <2>5, <3>3
        <3> QED
            BY <1>n, <2>4, <2>12, <2>18, <3>3, <3>4, <3>5
    <2>19. q \in Span(msgs, t)
        BY <2>12, <2>17, <2>18 DEF Span
    <2> QED
        BY <2>7, <2>17, <2>19
<1>7. \A i \in DOMAIN reply.msgs : reply.msgs[i].synthetic =>
          LET from == reply.msgs[TurnOf(i)].ord
          IN  ~\E o \in (from + 1)..n :
                  /\ ResultOrds(resolved, reply.msgs[i].id) = {o}
                  /\ \A q \in (from + 1)..(o - 1) : ResolvedItem(ctx, q).role # "assistant"
    BY <1>6
<1> QED
    BY <1>7 DEF NoFalseMissing, n, resolved

-----------------------------------------------------------------------------
(* The system. *)

\* Contexts are rows; an answer is assembled from the context it is about.
AssemblyInv ==
    /\ ctx \in Seq(ContextRows)
    /\ Assembled => \E inp \in Requests : reply = AssembleItems(ctx, inp)

\* The engine makes requests.
LEMMA InputsAreRequests ==
    ASSUME NEW searchable \in BOOLEAN
    PROVE  Inputs(searchable) \subseteq Requests
<1>1. Budgets \subseteq Nat /\ TailCounts \subseteq Nat
    BY AssemblyAssumption
<1>2. SUBSET (1..Len(ctx)) \subseteq SUBSET Nat
    <2>1. 1..Len(ctx) \subseteq Nat
        OBVIOUS
    <2> QED
        BY <2>1
<1> QED
    BY <1>1, <1>2 DEF Inputs, Requests

\* Whatever is ingested or compacted between requests, an assembled answer is
\* what ContextAssembler.assemble computes from the rows now in the context:
\* ingest and compaction leave no answer behind, and preassemble answers with
\* the host's list or with the assembled one, never with a mix.
THEOREM AssemblyInvariant == AssemblySpec => []AssemblyInv
<1>1. AssemblyInit => AssemblyInv
    <2> SUFFICES ASSUME AssemblyInit PROVE AssemblyInv
        OBVIOUS
    <2>1. ctx \in Seq(ContextRows)
        <3>1. CASE ctx = << >>
            BY <3>1
        <3>2. ASSUME NEW m \in Imported, ctx = <<MessageRow(m, ImportedParts(m))>>
              PROVE  ctx \in Seq(ContextRows)
            <4>1. MessageRow(m, ImportedParts(m)) \in ContextRows
                BY RowsTyped
            <4> QED
                BY <3>2, <4>1
        <3> QED
            BY <3>1, <3>2 DEF AssemblyInit
    <2>2. ~Assembled
        BY DEF AssemblyInit, NoReply, Assembled
    <2> QED
        BY <2>1, <2>2 DEF AssemblyInv
<1>2. AssemblyInv /\ [AssemblyNext]_assemblyVars => AssemblyInv'
    <2> SUFFICES ASSUME AssemblyInv, [AssemblyNext]_assemblyVars PROVE AssemblyInv'
        OBVIOUS
    <2>0. ctx \in Seq(ContextRows)
        BY DEF AssemblyInv
    <2>1. ASSUME NEW m \in Messages, Ingest(m) PROVE AssemblyInv'
        <3>1. MessageRow(m, MessageParts(m)) \in ContextRows
            BY RowsTyped
        <3>2. ctx' \in Seq(ContextRows)
            BY <2>0, <2>1, <3>1 DEF Ingest
        <3>3. ~Assembled'
            BY <2>1 DEF Ingest, NoReply, Assembled
        <3> QED
            BY <3>2, <3>3 DEF AssemblyInv
    <2>2. ASSUME NEW k \in 1..MaxItems, CompactOldest(k) PROVE AssemblyInv'
        <3>1. k \in 1..Len(ctx) /\ ctx' = <<SummaryRow>> \o SubSeq(ctx, k + 1, Len(ctx))
            BY <2>2 DEF CompactOldest
        <3>2. SubSeq(ctx, k + 1, Len(ctx)) \in Seq(ContextRows)
            BY <2>0, <3>1
        <3>3. <<SummaryRow>> \in Seq(ContextRows)
            BY SummaryTyped
        <3>4. ctx' \in Seq(ContextRows)
            BY <3>1, <3>2, <3>3, Joined
        <3>5. ~Assembled'
            BY <2>2 DEF CompactOldest, NoReply, Assembled
        <3> QED
            BY <3>4, <3>5 DEF AssemblyInv
    <2>3. ASSUME NEW inp \in Inputs(TRUE), Assemble(inp) PROVE AssemblyInv'
        <3>1. inp \in Requests
            BY InputsAreRequests
        <3>2. ctx' = ctx /\ reply' = AssembleItems(ctx, inp)
            BY <2>3 DEF Assemble
        <3> QED
            BY <2>0, <3>1, <3>2 DEF AssemblyInv
    <2>4. ASSUME NEW inp \in Inputs(FALSE), Preassemble(inp) PROVE AssemblyInv'
        <3>1. inp \in Requests
            BY InputsAreRequests
        <3>2. ctx' = ctx /\ (reply' = SafeFallback(live, inp) \/ reply' = AssembleItems(ctx, inp))
            BY <2>4 DEF Preassemble
        <3>3. CASE reply' = SafeFallback(live, inp)
            <4>1. ~Assembled'
                BY <3>3 DEF SafeFallback, Assembled
            <4> QED
                BY <2>0, <3>2, <4>1 DEF AssemblyInv
        <3>4. CASE reply' = AssembleItems(ctx, inp)
            BY <2>0, <3>1, <3>2, <3>4 DEF AssemblyInv
        <3> QED
            BY <3>2, <3>3, <3>4
    <2>5. CASE UNCHANGED assemblyVars
        <3>1. ctx' = ctx /\ reply' = reply
            BY <2>5 DEF assemblyVars
        <3> QED
            BY <3>1 DEF AssemblyInv, Assembled
    <2> QED
        BY <2>1, <2>2, <2>3, <2>4, <2>5 DEF AssemblyNext
<1> QED
    BY <1>1, <1>2, PTL DEF AssemblySpec

\* Whatever was evicted, stripped or compacted, every result stands in the run
\* after the turn that calls it, no id is answered twice, and every call of an
\* id called once is answered (sanitize_tool_use_result_pairing).
THEOREM AssemblyPaired == AssemblySpec => []Paired
<1>1. AssemblyInv => Paired
    <2>1. ~Assembled => Paired
        BY DEF Paired
    <2> QED
        BY <2>1, AnswerPaired DEF AssemblyInv
<1> QED
    BY <1>1, AssemblyInvariant, PTL

\* No call is answered with a synthetic result while the context's one result
\* for it stands in the call's own span
\* (filter_non_fresh_assistant_tool_calls).
THEOREM AssemblyNoFalseMissing == AssemblySpec => []NoFalseMissing
<1>1. AssemblyInv => NoFalseMissing
    <2>1. ~Assembled => NoFalseMissing
        BY DEF NoFalseMissing
    <2> QED
        BY <2>1, AnswerNoFalseMissing DEF AssemblyInv
<1> QED
    BY <1>1, AssemblyInvariant, PTL

\* A selection over the budget holds nothing that costs a token but the fresh
\* tail, and the newest message is always in it (budget_walk,
\* resolve_fresh_tail_ordinal).
THEOREM AssemblyWithinBudget == AssemblySpec => []WithinBudget
<1>1. AssemblyInv => WithinBudget
    <2>1. ~Assembled => WithinBudget
        BY DEF WithinBudget
    <2> QED
        BY <2>1, AnswerWithinBudget DEF AssemblyInv
<1> QED
    BY <1>1, AssemblyInvariant, PTL
=============================================================================
