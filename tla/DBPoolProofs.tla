---------------------------- MODULE DBPoolProofs ----------------------------
(***************************************************************************)
(* The pointers of the pool of database connections are a queue, for any   *)
(* number of connections, callbacks and world servers.                     *)
(***************************************************************************)
EXTENDS DBPool, FiniteSetTheorems, FunctionTheorems, SequenceTheorems,
        WellFoundedInduction, TLAPS

Typing ==
  /\ next \in [Slots -> Slots \cup {NoSlot}]
  /\ cur \in [Users -> Slots \cup {NoSlot}]
  /\ pc \in [Threads -> PCs]

\* a user has a connection from the constructor of CDBConn to its destructor, and its own
CurInv ==
  /\ \A u \in Users : cur[u] # NoSlot <=> pc[u] \in {"use", "give"}
  /\ \A u, v \in Users : cur[u] = cur[v] /\ cur[u] # NoSlot => u = v

Injective(q) == \A i, j \in 1..Len(q) : q[i] = q[j] => i = j

\* the links reach elements that nobody uses, each once, and the last is m_pFreeSqlPoolEnd
QueueOf(q) ==
  /\ q \in Lists /\ Injective(q)
  /\ last = IF q = <<>> THEN NoSlot ELSE q[Len(q)]
  /\ \A u \in Users, i \in 1..Len(q) : q[i] # cur[u]

(***************************************************************************)
(* That taking the first element is taking the head of a queue rests on    *)
(* the last link being NULL, and that appending is, on the end pointer and *)
(* on the element not being in the list already.                           *)
(***************************************************************************)
PoolInv == Typing /\ CurInv /\ \E q \in Lists : QueueOf(q)

-----------------------------------------------------------------------------
(* The list *)

LEMMA NoSlotApart == NoSlot \notin Slots
BY DBPoolAssumption DEF Slots

LEMMA IntervalCount ==
  ASSUME NEW n \in Nat
  PROVE  IsFiniteSet(1..n) /\ Cardinality(1..n) = n
<1>1. /\ IsFiniteSet(1..n)
      /\ Cardinality(1..n) = IF 1 > n THEN 0 ELSE n - 1 + 1
  BY FS_Interval
<1> QED
  BY <1>1

LEMMA SlotCount == IsFiniteSet(Slots) /\ Cardinality(Slots) = ConnCount
<1>1. ConnCount - 1 \in Int /\ 0 \in Int
  BY DBPoolAssumption
<1>2. /\ IsFiniteSet(0..ConnCount - 1)
      /\ Cardinality(0..ConnCount - 1)
           = IF 0 > ConnCount - 1 THEN 0 ELSE ConnCount - 1 - 0 + 1
  BY <1>1, FS_Interval
<1> QED
  BY <1>2, DBPoolAssumption DEF Slots

\* As many different places as elements: every element has a place.
LEMMA OntoAll ==
  ASSUME NEW S, NEW T, NEW f \in [S -> T], \A x, y \in S : f[x] = f[y] => x = y,
         IsFiniteSet(T), Cardinality(S) = Cardinality(T)
  PROVE  \A t \in T : \E x \in S : f[x] = t
<1>1. f \in Injection(S, T)
  BY Fun_IsInj
<1>2. f \in Surjection(S, T)
  BY <1>1, FS_Injection
<1> QED
  BY <1>2, Fun_SurjectionProperties

LEMMA ListType ==
  ASSUME NEW q \in Lists
  PROVE  /\ q \in Seq(Slots) /\ Len(q) \in Nat /\ Len(q) <= ConnCount
         /\ q \in [1..Len(q) -> Slots]
         /\ (q = <<>> <=> Len(q) = 0)
<1>1. PICK n \in 0..ConnCount : q \in [1..n -> Slots]
  BY DEF Lists
<1>2. n \in Nat /\ q \in Seq(Slots)
  BY <1>1, SeqDef
<1>3. Len(q) = n
  BY <1>1, <1>2, LenProperties
<1>4. q = <<>> <=> Len(q) = 0
  BY <1>2, EmptySeq
<1> QED
  BY <1>1, <1>2, <1>3, <1>4, DBPoolAssumption

\* A non-empty set of numbers has a least element.
LEMMA Smallest ==
  ASSUME NEW n \in Nat, NEW S \in SUBSET (0..n), S # {}
  PROVE  \E x \in S : \A y \in S : x <= y
<1> DEFINE T == {0..k : k \in S}
<1>1. T \subseteq FiniteSubsetsOf(0..n)
  <2>1. FiniteSubsetsOf(0..n) = SUBSET (0..n)
    <3>1. IsFiniteSet(0..n)
      BY FS_Interval
    <3> QED
      BY <3>1, FS_FiniteSubsetsOfFinite
  <2> QED
    BY <2>1, SMT
<1>2. T # {}
  OBVIOUS
<1>3. PICK s \in T : \A u \in T : <<u, s>> \notin StrictSubsetOrdering(0..n)
  <2> HIDE DEF T
  <2> QED
    BY <1>1, <1>2, FS_StrictSubsetOrderingWellFounded, WFMin
<1>4. PICK x \in S : s = 0..x
  OBVIOUS
<1>5. ASSUME NEW y \in S, y < x PROVE FALSE
  <2>1. 0..y \in T /\ 0..y \subseteq 0..x /\ 0..y # 0..x
    BY <1>5, SMT
  <2>2. <<0..y, s>> \in StrictSubsetOrdering(0..n)
    BY <1>1, <1>4, <2>1 DEF StrictSubsetOrdering
  <2> QED
    BY <1>3, <2>1, <2>2
<1>6. \A y \in S : x <= y
  BY <1>5, SMT
<1> QED
  BY <1>6

\* The links leave no choice.
LEMMA SamePrefix ==
  ASSUME NEW q \in Lists, NEW r \in Lists
  PROVE  \A i \in 1..Len(q) : i <= Len(r) /\ q[i] = r[i]
<1> DEFINE D == {i \in 1..Len(q) : ~(i <= Len(r) /\ q[i] = r[i])}
<1>t. /\ Len(q) \in Nat /\ Len(r) \in Nat
      /\ \A i \in 1..Len(q) : q[i] \in Slots
      /\ \A i \in 1..Len(r) : r[i] \in Slots
      /\ (q = <<>> <=> Len(q) = 0) /\ (r = <<>> <=> Len(r) = 0)
  BY ListType
<1>l. IsList(q) /\ IsList(r)
  BY DEF Lists
<1> SUFFICES ASSUME D # {} PROVE FALSE
  OBVIOUS
<1>1. PICK x \in D : \A y \in D : x <= y
  <2>1. D \in SUBSET (0..Len(q))
    BY <1>t
  <2> HIDE DEF D
  <2> QED
    BY <1>t, <2>1, Smallest
<1>2. CASE x = 1
  <2>1. first = q[1] /\ first \in Slots
    BY <1>t, <1>l, <1>2 DEF IsList
  <2>2. r # <<>> /\ first = r[1]
    BY <1>l, <2>1, NoSlotApart DEF IsList
  <2>3. 1 <= Len(r) /\ q[1] = r[1]
    BY <1>t, <2>1, <2>2
  <2> QED
    BY <1>1, <1>2, <2>3
<1>3. CASE x # 1
  <2>1. PICK k \in 1..Len(q) : k = x - 1 /\ k # Len(q) /\ k + 1 = x
    BY <1>t, <1>3
  <2>2. k <= Len(r) /\ q[k] = r[k]
    BY <1>1, <2>1
  <2>3. next[q[k]] = q[x] /\ q[x] \in Slots
    BY <1>t, <1>l, <2>1 DEF IsList
  <2>4. k \in 1..Len(r) /\ next[r[k]] = IF k = Len(r) THEN NoSlot ELSE r[k + 1]
    BY <1>t, <1>l, <2>1, <2>2 DEF IsList
  <2>5. k # Len(r) /\ q[x] = r[x]
    BY <2>1, <2>2, <2>3, <2>4, NoSlotApart
  <2> QED
    BY <1>t, <1>1, <2>1, <2>4, <2>5
<1> QED
  BY <1>2, <1>3

\* What the pointers lead through is the free list.
LEMMA TheList == \A r \in Lists : FreeList = r
<1> SUFFICES ASSUME NEW q \in Lists PROVE FreeList = q
  OBVIOUS
<1>1. ASSUME NEW r \in Lists PROVE r = q
  <2>1. /\ q \in [1..Len(q) -> Slots] /\ Len(q) \in Nat
        /\ r \in [1..Len(r) -> Slots] /\ Len(r) \in Nat
    BY ListType
  <2>2. /\ \A i \in 1..Len(q) : i <= Len(r) /\ q[i] = r[i]
        /\ \A i \in 1..Len(r) : i <= Len(q)
    BY SamePrefix
  <2>3. Len(q) = Len(r)
    <3>1. Len(q) > 0 => Len(q) \in 1..Len(q)
      BY <2>1
    <3>2. Len(r) > 0 => Len(r) \in 1..Len(r)
      BY <2>1
    <3>3. Len(q) <= Len(r)
      BY <2>1, <2>2, <3>1
    <3>4. Len(r) <= Len(q)
      BY <2>1, <2>2, <3>2
    <3>5. Len(q) \in Nat /\ Len(r) \in Nat
      BY <2>1
    <3> QED
      BY <3>3, <3>4, <3>5
  <2> QED
    BY <2>1, <2>2, <2>3
<1> QED
  BY <1>1 DEF FreeList

-----------------------------------------------------------------------------
(* The steps *)

\* The list at the start: AllocSQLPool, or nothing.
LEMMA InitList == Init => \E q \in Lists : QueueOf(q) /\ (q = <<>> \/ Len(q) = ConnCount)
<1> SUFFICES ASSUME Init PROVE \E q \in Lists : QueueOf(q) /\ (q = <<>> \/ Len(q) = ConnCount)
  OBVIOUS
<1>u. \A u \in Users : cur[u] = NoSlot
  BY DEF Init
<1>1. CASE loggedIn
  <2> DEFINE q == [i \in 1..ConnCount |-> ConnCount - i]
  <2>1. AllocSQLPool
    BY <1>1 DEF Init
  <2>2. \A i \in 1..ConnCount : q[i] = ConnCount - i /\ q[i] \in Slots
    BY DBPoolAssumption DEF Slots
  <2>3. q \in [1..ConnCount -> Slots] /\ q \in Seq(Slots) /\ Len(q) = ConnCount /\ q # <<>>
    BY <2>2, DBPoolAssumption
  <2> HIDE DEF q
  <2>4. first = q[1] /\ last = q[ConnCount]
    BY <2>1, <2>2, DBPoolAssumption DEF AllocSQLPool
  <2>5. \A i \in 1..ConnCount : next[q[i]] = IF i = ConnCount THEN NoSlot ELSE q[i + 1]
    <3> SUFFICES ASSUME NEW i \in 1..ConnCount
                 PROVE  next[q[i]] = IF i = ConnCount THEN NoSlot ELSE q[i + 1]
      OBVIOUS
    <3>1. next[q[i]] = IF ConnCount - i = 0 THEN NoSlot ELSE ConnCount - i - 1
      BY <2>1, <2>2 DEF AllocSQLPool
    <3>2. i # ConnCount => q[i + 1] = ConnCount - (i + 1)
      BY <2>2, DBPoolAssumption
    <3> QED
      BY <3>1, <3>2, DBPoolAssumption
  <2>6. q \in Lists
    BY <2>3, <2>4, <2>5, DBPoolAssumption DEF Lists, IsList
  <2>7. Injective(q)
    BY <2>2, <2>3, DBPoolAssumption DEF Injective
  <2>8. QueueOf(q)
    BY <1>u, <2>2, <2>3, <2>4, <2>6, <2>7, NoSlotApart DEF QueueOf
  <2> QED
    BY <2>3, <2>6, <2>8
<1>2. CASE ~loggedIn
  <2>1. first = NoSlot /\ last = NoSlot
    BY <1>2 DEF Init, EmptyPool
  <2>2. <<>> \in [1..0 -> Slots] /\ Len(<<>>) = 0 /\ 0 \in 0..ConnCount
    BY DBPoolAssumption
  <2>3. <<>> \in Lists
    BY <2>1, <2>2 DEF Lists, IsList
  <2>4. QueueOf(<<>>)
    BY <2>1, <2>2, <2>3 DEF QueueOf, Injective
  <2> QED
    BY <2>3, <2>4
<1> QED
  BY <1>1, <1>2

\* The constructor of CDBConn takes the head of the queue.
LEMMA TakeStep ==
  ASSUME PoolInv, NEW u \in Users, TakeFirst(u), NEW q \in Lists, QueueOf(q)
  PROVE  /\ q # <<>> /\ cur[u] = NoSlot /\ cur' = [cur EXCEPT ![u] = Head(q)]
         /\ Tail(q) \in Lists' /\ QueueOf(Tail(q))'
<1>1. PICK n \in Nat : n = Len(q) /\ n <= ConnCount
  BY ListType
<1>2. /\ q \in [1..n -> Slots] /\ q \in Seq(Slots) /\ IsList(q)
      /\ (q = <<>> <=> n = 0)
  BY <1>1, ListType DEF Lists
<1>3. q # <<>> /\ first = q[1] /\ n > 0
  BY <1>2 DEF TakeFirst, IsList
<1>4. PICK r : r = Tail(q)
  OBVIOUS
<1>5. r \in Seq(Slots) /\ Len(r) = n - 1 /\ \A i \in 1..n - 1 : r[i] = q[i + 1]
  BY <1>1, <1>2, <1>3, <1>4, HeadTailProperties
<1>6. r \in [1..n - 1 -> Slots] /\ (r = <<>> <=> n = 1)
  <2>1. r = <<>> <=> Len(r) = 0
    BY <1>5, EmptySeq
  <2> QED
    BY <1>3, <1>5, <2>1, LenProperties
<1>7. /\ cur' = [cur EXCEPT ![u] = q[1]] /\ next' = next /\ first' = next[q[1]]
      /\ last' = IF next[q[1]] = NoSlot THEN NoSlot ELSE last
  BY <1>3 DEF TakeFirst, EndWithout
<1>8. \A i \in 1..n : next[q[i]] = IF i = n THEN NoSlot ELSE q[i + 1]
  BY <1>1, <1>2 DEF IsList
<1>9. next[q[1]] = IF r = <<>> THEN NoSlot ELSE r[1]
  BY <1>3, <1>5, <1>6, <1>8
<1>10. \A i \in 1..n - 1 : next[r[i]] = IF i = n - 1 THEN NoSlot ELSE r[i + 1]
  <2> SUFFICES ASSUME NEW i \in 1..n - 1
               PROVE  next[r[i]] = IF i = n - 1 THEN NoSlot ELSE r[i + 1]
    OBVIOUS
  <2>1. r[i] = q[i + 1] /\ i + 1 \in 1..n
    BY <1>1, <1>5
  <2>2. i # n - 1 => r[i + 1] = q[i + 1 + 1]
    BY <1>1, <1>5
  <2> QED
    BY <1>1, <1>8, <2>1, <2>2
<1>11. r \in Lists'
  <2>1. n - 1 \in 0..ConnCount
    BY <1>1, <1>3, DBPoolAssumption
  <2>2. IsList(r)'
    BY <1>5, <1>7, <1>9, <1>10 DEF IsList
  <2> QED
    BY <1>6, <2>1, <2>2 DEF Lists
<1>12. \A i, j \in 1..n : q[i] = q[j] => i = j
  BY <1>1 DEF QueueOf, Injective
<1>13. Injective(r)
  <2> SUFFICES ASSUME NEW i \in 1..n - 1, NEW j \in 1..n - 1, r[i] = r[j] PROVE i = j
    BY <1>5 DEF Injective
  <2>1. i + 1 \in 1..n /\ j + 1 \in 1..n /\ q[i + 1] = q[j + 1]
    BY <1>1, <1>5
  <2> QED
    BY <1>12, <2>1
<1>14. last' = IF r = <<>> THEN NoSlot ELSE r[Len(r)]
  <2>1. CASE r = <<>>
    BY <1>7, <1>9, <2>1
  <2>2. CASE r # <<>>
    <3>1. n - 1 \in 1..n - 1 /\ n - 1 + 1 = n
      BY <1>1, <1>3, <1>6, <2>2
    <3>2. r[n - 1] = q[n] /\ r[1] \in Slots
      BY <1>5, <1>6, <3>1
    <3>3. last' = last /\ last = q[n]
      BY <1>1, <1>3, <1>7, <1>9, <2>2, <3>2, NoSlotApart DEF QueueOf
    <3> QED
      BY <1>5, <2>2, <3>2, <3>3
  <2> QED
    BY <2>1, <2>2
<1>15. \A v \in Users, i \in 1..Len(r) : r[i] # cur'[v]
  <2> SUFFICES ASSUME NEW v \in Users, NEW i \in 1..n - 1 PROVE r[i] # cur'[v]
    BY <1>5
  <2>1. r[i] = q[i + 1] /\ i + 1 \in 1..n /\ i + 1 # 1 /\ 1 \in 1..n
    BY <1>1, <1>5
  <2>2. q[i + 1] # q[1]
    BY <1>12, <2>1
  <2>3. q[i + 1] # cur[v]
    BY <1>1, <2>1 DEF QueueOf
  <2> QED
    BY <1>7, <2>1, <2>2, <2>3 DEF PoolInv, Typing
<1>16. cur[u] = NoSlot
  BY DEF TakeFirst, PoolInv, CurInv
<1>17. QueueOf(r)'
  BY <1>11, <1>13, <1>14, <1>15 DEF QueueOf, Injective
<1>18. Head(q) = q[1]
  BY <1>2, <1>3
<1> QED
  BY <1>3, <1>4, <1>7, <1>11, <1>16, <1>17, <1>18

\* The destructor appends to the queue.
LEMMA GiveStep ==
  ASSUME PoolInv, NEW u \in Users, GiveBack(u), NEW q \in Lists, QueueOf(q)
  PROVE  /\ cur[u] # NoSlot /\ cur' = [cur EXCEPT ![u] = NoSlot]
         /\ \E r \in Lists' : r = Append(q, cur[u]) /\ QueueOf(r)'
<1>1. PICK n \in Nat : n = Len(q) /\ n <= ConnCount
  BY ListType
<1>2. /\ q \in [1..n -> Slots] /\ q \in Seq(Slots) /\ IsList(q)
      /\ (q = <<>> <=> n = 0)
  BY <1>1, ListType DEF Lists
<1>3. PICK c \in Slots : c = cur[u]
  <2>1. cur[u] # NoSlot /\ cur[u] \in Slots \cup {NoSlot}
    BY DEF GiveBack, PoolInv, CurInv, Typing
  <2> QED
    BY <2>1
<1>4. c # NoSlot /\ \A i \in 1..n : q[i] # c
  BY <1>1, <1>3, NoSlotApart DEF QueueOf
<1>5. PICK r : r = Append(q, c)
  OBVIOUS
<1>6. r \in Seq(Slots) /\ Len(r) = n + 1 /\ r # <<>> /\ r[n + 1] = c /\ \A i \in 1..n : r[i] = q[i]
  BY <1>1, <1>2, <1>5, AppendProperties
<1>7. /\ cur' = [cur EXCEPT ![u] = NoSlot] /\ last' = c
      /\ first' = IF n = 0 THEN c ELSE first
      /\ next' = IF n = 0 THEN [next EXCEPT ![c] = NoSlot]
                 ELSE [[next EXCEPT ![c] = NoSlot] EXCEPT ![last] = c]
  <2>1. first = NoSlot <=> n = 0
    <3>1. n > 0 => q[1] \in Slots
      BY <1>2
    <3> QED
      BY <1>2, <3>1, NoSlotApart DEF IsList
  <2> QED
    BY <1>3, <2>1 DEF GiveBack, Appended, FirstWith
<1>8. \A i, j \in 1..n + 1 : r[i] = r[j] => i = j
  <2>1. \A i, j \in 1..n : q[i] = q[j] => i = j
    BY <1>1 DEF QueueOf, Injective
  <2>2. \A i \in 1..n + 1 : i \in 1..n \/ i = n + 1
    BY <1>1
  <2> QED
    BY <1>4, <1>6, <2>1, <2>2
<1>9. n + 1 \in 0..ConnCount
  <2>1. r \in Injection(1..n + 1, Slots)
    <3>1. r \in [1..n + 1 -> Slots]
      BY <1>6, LenProperties
    <3> QED
      BY <1>8, <3>1, Fun_IsInj
  <2>2. /\ IsFiniteSet(Slots) /\ Cardinality(Slots) = ConnCount
        /\ Cardinality(1..n + 1) = n + 1
    BY SlotCount, IntervalCount
  <2>3. Cardinality(1..n + 1) <= Cardinality(Slots)
    BY <2>1, <2>2, FS_Injection
  <2> QED
    BY <1>1, <2>2, <2>3, DBPoolAssumption
<1>10. first' = r[1]
  BY <1>1, <1>2, <1>6, <1>7 DEF IsList
<1>11. \A i \in 1..n + 1 : next'[r[i]] = IF i = n + 1 THEN NoSlot ELSE r[i + 1]
  <2> SUFFICES ASSUME NEW i \in 1..n + 1
               PROVE  next'[r[i]] = IF i = n + 1 THEN NoSlot ELSE r[i + 1]
    OBVIOUS
  <2>0. next \in [Slots -> Slots \cup {NoSlot}]
    BY DEF PoolInv, Typing
  <2>1. CASE n = 0
    BY <1>6, <1>7, <2>0, <2>1
  <2>2. CASE n # 0
    <3>1. last = q[n] /\ n \in 1..n /\ q[n] \in Slots /\ q[n] # c
      BY <1>1, <1>2, <1>4, <2>2 DEF QueueOf
    <3>2. \A s \in Slots : next'[s] = IF s = q[n] THEN c ELSE IF s = c THEN NoSlot ELSE next[s]
      BY <1>7, <2>0, <2>2, <3>1
    <3>3. CASE i = n + 1
      BY <1>6, <3>1, <3>2, <3>3
    <3>4. CASE i = n
      BY <1>6, <3>1, <3>2, <3>4
    <3>5. CASE i # n /\ i # n + 1
      <4>1. i \in 1..n /\ i + 1 \in 1..n /\ q[i] \in Slots
        BY <1>2, <3>5
      <4>2. next[q[i]] = q[i + 1]
        BY <1>1, <1>2, <3>5, <4>1 DEF IsList
      <4>3. q[i] # q[n] /\ q[i] # c
        BY <1>1, <1>4, <3>1, <3>5, <4>1 DEF QueueOf, Injective
      <4> QED
        BY <1>6, <3>2, <3>5, <4>1, <4>2, <4>3
    <3> QED
      BY <3>3, <3>4, <3>5
  <2> QED
    BY <2>1, <2>2
<1>12. r \in Lists'
  <2>1. r \in [1..n + 1 -> Slots]
    BY <1>6, LenProperties
  <2>2. IsList(r)'
    BY <1>6, <1>10, <1>11 DEF IsList
  <2> QED
    BY <1>9, <2>1, <2>2 DEF Lists
<1>13. \A v \in Users, i \in 1..n + 1 : r[i] # cur'[v]
  <2> SUFFICES ASSUME NEW v \in Users, NEW i \in 1..n + 1 PROVE r[i] # cur'[v]
    OBVIOUS
  <2>1. cur'[v] = IF v = u THEN NoSlot ELSE cur[v]
    BY <1>7 DEF PoolInv, Typing
  <2>2. r[i] \in Slots
    BY <1>6, ElementOfSeq
  <2>3. v # u => cur[v] # c
    BY <1>3, <1>4 DEF PoolInv, CurInv
  <2>4. i \in 1..n => q[i] # cur[v]
    BY <1>1 DEF QueueOf
  <2>5. i \in 1..n \/ i = n + 1
    BY <1>1
  <2> QED
    BY <1>6, <2>1, <2>2, <2>3, <2>4, <2>5, NoSlotApart
<1>14. QueueOf(r)'
  BY <1>6, <1>7, <1>8, <1>12, <1>13 DEF QueueOf, Injective
<1>15. Append(q, cur[u]) = r
  BY <1>3, <1>5
<1>16. cur[u] # NoSlot
  BY <1>3, <1>4
<1>17. cur' = [cur EXCEPT ![u] = NoSlot]
  BY <1>7
<1> QED
  BY <1>12, <1>14, <1>15, <1>16, <1>17

\* No other step touches the list or what the users have.
LEMMA QuietStep ==
  ASSUME UNCHANGED <<list, cur>>, NEW q \in Lists, QueueOf(q)
  PROVE  q \in Lists' /\ QueueOf(q)'
BY DEF list, Lists, IsList, QueueOf, Injective

Quiet ==
  \/ Command \/ RunCommand
  \/ \E t \in Timers : TimerFires(t) \/ ReadLock(t) \/ ReadUnlock(t)
  \/ \E t \in Acceptors : Accept(t) \/ WriteLock(t) \/ WriteUnlock(t)
  \/ UNCHANGED vars

LEMMA QuietInv ==
  ASSUME PoolInv, Quiet
  PROVE  UNCHANGED <<list, cur>> /\ Typing' /\ CurInv'
<1>1. UNCHANGED <<list, cur>>
  BY DEF Quiet, Command, RunCommand, TimerFires, ReadLock, ReadUnlock, Accept, WriteLock,
         WriteUnlock, vars
<1>2. Typing'
  BY <1>1, DBPoolAssumption
     DEF Quiet, Command, RunCommand, TimerFires, ReadLock, ReadUnlock, Accept, WriteLock,
         WriteUnlock, vars, list, Goto, PoolInv, Typing, Threads, Users, PCs
<1>3. \A u \in Users : pc'[u] \in {"use", "give"} <=> pc[u] \in {"use", "give"}
  BY DBPoolAssumption
     DEF Quiet, Command, RunCommand, TimerFires, ReadLock, ReadUnlock, Accept, WriteLock,
         WriteUnlock, vars, Goto, PoolInv, Typing, Threads, Users
<1> QED
  BY <1>1, <1>2, <1>3 DEF PoolInv, CurInv

LEMMA NextCases ==
  ASSUME [Next]_vars
  PROVE  Quiet \/ \E u \in Users : TakeFirst(u) \/ GiveBack(u)
BY DEF Next, Quiet

LEMMA NextPoolInv == PoolInv /\ [Next]_vars => PoolInv'
<1> SUFFICES ASSUME PoolInv, [Next]_vars PROVE PoolInv'
  OBVIOUS
<1>q. PICK q \in Lists : QueueOf(q)
  BY DEF PoolInv
<1>1. ASSUME NEW u \in Users, TakeFirst(u) PROVE PoolInv'
  <2>1. /\ q # <<>> /\ cur' = [cur EXCEPT ![u] = Head(q)]
        /\ Tail(q) \in Lists' /\ QueueOf(Tail(q))'
    BY <1>1, <1>q, TakeStep
  <2>2. Head(q) \in Slots /\ \A v \in Users : cur[v] # Head(q)
    <3>1. Head(q) = q[1] /\ 1 \in 1..Len(q) /\ q[1] \in Slots
      BY <2>1, ListType
    <3> QED
      BY <1>q, <3>1 DEF QueueOf
  <2>3. /\ next' = next /\ pc' = [pc EXCEPT ![u] = "use"] /\ pc[u] = "poll"
    BY <1>1 DEF TakeFirst, Goto
  <2>4. Typing'
    BY <2>1, <2>2, <2>3 DEF PoolInv, Typing, PCs, Threads
  <2>5. CurInv'
    BY <2>1, <2>2, <2>3, NoSlotApart DEF PoolInv, Typing, CurInv, Threads
  <2> QED
    BY <2>1, <2>4, <2>5 DEF PoolInv
<1>2. ASSUME NEW u \in Users, GiveBack(u) PROVE PoolInv'
  <2>1. /\ cur' = [cur EXCEPT ![u] = NoSlot]
        /\ \E r \in Lists' : QueueOf(r)'
    BY <1>2, <1>q, GiveStep
  <2>2. /\ next' = Appended(cur[u]) /\ pc' = [pc EXCEPT ![u] = "idle"]
        /\ cur[u] \in Slots
    BY <1>2 DEF GiveBack, Goto, PoolInv, Typing, CurInv
  <2>3. Appended(cur[u]) \in [Slots -> Slots \cup {NoSlot}]
    BY <2>2 DEF Appended, PoolInv, Typing
  <2>4. Typing'
    BY <2>1, <2>2, <2>3 DEF PoolInv, Typing, PCs, Threads
  <2>5. CurInv'
    BY <2>1, <2>2 DEF PoolInv, Typing, CurInv, Threads
  <2> QED
    BY <2>1, <2>4, <2>5 DEF PoolInv
<1>3. CASE Quiet
  BY <1>3, <1>q, QuietInv, QuietStep DEF PoolInv
<1> QED
  BY <1>1, <1>2, <1>3, NextCases

LEMMA InitPoolInv == Init => PoolInv
<1> SUFFICES ASSUME Init PROVE PoolInv
  OBVIOUS
<1>1. Typing
  <2>1. next \in [Slots -> Slots \cup {NoSlot}]
    BY DBPoolAssumption DEF Init, AllocSQLPool, EmptyPool, Slots
  <2> QED
    BY <2>1 DEF Init, Typing, PCs
<1>2. CurInv
  BY DEF Init, CurInv, Threads
<1> QED
  BY <1>1, <1>2, InitList DEF PoolInv

\* PoolInv holds in every state the pool can reach.
THEOREM Invariance == Spec => []PoolInv
BY InitPoolInv, NextPoolInv, PTL DEF Spec

-----------------------------------------------------------------------------
(* The refinement *)

\* The pointers of DBEnv are a queue of connections, each free or with one user, for any
\* number of connections, callbacks and world servers (DBConn.cpp:200-253).
THEOREM Refinement == Spec => ImplementsQueue
<1>1. Init => Queue!Init
  <2> SUFFICES ASSUME Init PROVE Queue!Init
    OBVIOUS
  <2>1. PICK q \in Lists : QueueOf(q) /\ (q = <<>> \/ Len(q) = ConnCount)
    BY InitList
  <2>2. FreeList = q /\ cur = [u \in Users |-> NoSlot]
    BY TheList DEF Init
  <2>3. CASE q = <<>>
    BY <2>2, <2>3 DEF Queue!Init
  <2>4. CASE Len(q) = ConnCount
    <3>1. q \in [1..ConnCount -> Slots]
      BY <2>4, ListType
    <3>2. DOMAIN q = 1..ConnCount /\ q \in Seq(Slots)
      BY <3>1, ListType
    <3>3. \A i, j \in 1..ConnCount : q[i] = q[j] => i = j
      BY <2>1, <2>4 DEF QueueOf, Injective
    <3>4. \A c \in Slots : \E i \in 1..ConnCount : q[i] = c
      <4>1. PICK P : P = 1..ConnCount
        OBVIOUS
      <4>2. q \in [P -> Slots]
        BY <3>1, <4>1
      <4>3. \A i, j \in P : q[i] = q[j] => i = j
        BY <3>3, <4>1
      <4>4. IsFiniteSet(Slots) /\ Cardinality(P) = Cardinality(Slots)
        BY <4>1, SlotCount, IntervalCount, DBPoolAssumption
      <4>5. \A c \in Slots : \E i \in P : q[i] = c
        BY <4>2, <4>3, <4>4, OntoAll
      <4> QED
        BY <4>1, <4>5
    <3> QED
      BY <2>2, <3>2, <3>3, <3>4 DEF Queue!Init
  <2> QED
    BY <2>1, <2>3, <2>4
<1>2. PoolInv /\ [Next]_vars => [Queue!Next]_Queue!vars
  <2> SUFFICES ASSUME PoolInv, [Next]_vars PROVE [Queue!Next]_Queue!vars
    OBVIOUS
  <2>q. PICK q \in Lists : QueueOf(q)
    BY DEF PoolInv
  <2>f. FreeList = q
    BY TheList
  <2>p. (\A r \in Lists : FreeList = r)'
    BY TheList, PTL
  <2>1. ASSUME NEW u \in Users, TakeFirst(u) PROVE Queue!Next
    <3>1. /\ q # <<>> /\ cur[u] = NoSlot /\ cur' = [cur EXCEPT ![u] = Head(q)]
          /\ Tail(q) \in Lists'
      BY <2>1, <2>q, TakeStep
    <3>2. Queue!Take(u)
      BY <2>f, <2>p, <3>1 DEF Queue!Take
    <3> QED
      BY <3>2 DEF Queue!Next
  <2>2. ASSUME NEW u \in Users, GiveBack(u) PROVE Queue!Next
    <3>1. /\ cur[u] # NoSlot /\ cur' = [cur EXCEPT ![u] = NoSlot]
          /\ \E r \in Lists' : r = Append(q, cur[u])
      BY <2>2, <2>q, GiveStep
    <3>2. Queue!Give(u)
      BY <2>f, <2>p, <3>1 DEF Queue!Give
    <3> QED
      BY <3>2 DEF Queue!Next
  <2>3. CASE Quiet
    <3>1. UNCHANGED cur /\ q \in Lists'
      BY <2>3, <2>q, QuietInv, QuietStep
    <3> QED
      BY <2>f, <2>p, <3>1 DEF Queue!vars
  <2> QED
    BY <2>1, <2>2, <2>3, NextCases
<1> QED
  BY <1>1, <1>2, Invariance, PTL DEF Spec, ImplementsQueue, Queue!Spec
=============================================================================
