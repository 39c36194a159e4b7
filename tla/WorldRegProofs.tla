--------------------------- MODULE WorldRegProofs ---------------------------
(***************************************************************************)
(* Proofs about WorldReg for any finite sets of workers and connections,   *)
(* any addresses and any range of ids.                                     *)
(***************************************************************************)
EXTENDS WorldReg, FiniteSetTheorems, TLAPS

\* where a connection is that the map of addresses does not have yet
EarlyPCs == {"lock", "scan", "drop", "relock", "registered", "insert"}
CreatePCs == EarlyPCs \cup {"init", "read"}

B2N(b) == IF b THEN 1 ELSE 0

\* what a thread has in hand at each control point
HandInv ==
  /\ \A t \in Workers :
       /\ pc[t] \in CreatePCs \cup {"idle"}
       /\ pc[t] = "idle" <=> c[t] = None
       /\ pc[t] \in CreatePCs => addr[c[t]] \in Addrs
       /\ pc[t] \in {"idle", "lock"} => id[t] = 0 /\ at[t] = 0
       /\ pc[t] = "drop" => old[t] \in Conns
  /\ pc[UI] \in {"idle", "each", "send"}
  /\ pc[UI] = "send" => c[UI] \in Conns
  /\ \A t, u \in Workers : c[t] # None /\ c[t] = c[u] => t = u

\* an object that has not been constructed is nowhere
FreshInv ==
  /\ \A x \in Conns : addr[x] = None =>
       serverid[x] = 0 /\ x \notin open \cup io \cup deleted /\ refs[x] = 0
  /\ \A x \in Conns, i \in Ids : srvSock[i] = x => addr[x] # None
  /\ \A x \in Conns, a \in Addrs : socketmap[a] = x => addr[x] # None
  /\ \A x \in Conns, t \in Threads : c[t] = x \/ old[t] = x => addr[x] # None

\* CServerList::mylock is held for writing in the scan, for reading by the window and
\* by the timer of UpdateDB
LockInv ==
  /\ \A t \in Workers : pc[t] = "scan" <=> t \in writers
  /\ \A t, u \in writers : t = u
  /\ UI \in readers <=> pc[UI] \in {"each", "send"}
  /\ writers # {} => readers = {}

\* the list; entry 0 is made when the ids wrap, and then nothing more is
EntryInv ==
  \A i \in Ids : srvSock[i] # None => srvAddr[i] # None /\ addr[srvSock[i]] = srvAddr[i]

WrapInv == 0 \in Entries => IdRange - 1 \in Entries

\* what the scan knows of the entries it has passed, and at which one it stopped
ScanInv ==
  \A t \in Workers :
    /\ pc[t] = "scan" =>
         \A i \in Entries : i < at[t] /\ srvAddr[i] = addr[c[t]] => id[t] = i
    /\ pc[t] \in {"scan", "registered"} /\ id[t] # 0 => srvAddr[id[t]] = addr[c[t]]
    /\ pc[t] \in {"drop", "relock"} => at[t] \in Ids /\ srvAddr[at[t]] = addr[c[t]]
    /\ pc[t] = "drop" => addr[old[t]] = addr[c[t]]

\* a connection is out of reach of all others until it is in the map
EarlyInv ==
  /\ \A t \in Workers : c[t] \notin io
  /\ \A t \in Workers, a \in Addrs : pc[t] \in EarlyPCs => socketmap[a] # c[t]
  /\ \A t \in Workers : pc[t] \in EarlyPCs => c[UI] # c[t]

\* the references there are on x
Reading(x) == \E t \in Workers : pc[t] = "read" /\ c[t] = x
Sending(x) == pc[UI] = "send" /\ c[UI] = x

RefInv ==
  /\ \A x \in Conns \ deleted :
       refs[x] = B2N(x \in open) + B2N(x \in io) + B2N(Reading(x)) + B2N(Sending(x))
  /\ \A x \in deleted : x \notin io /\ ~Reading(x) /\ ~Sending(x)

SInv ==
  /\ TypeOK /\ HandInv /\ FreshInv /\ LockInv /\ EntryInv /\ WrapInv /\ ScanInv
  /\ EarlyInv /\ RefInv
  /\ OneEntryPerAddress /\ EntryHasConnection /\ IdNamesServer

\* while the accepts from an address do not overlap: one thread, whose connection
\* nobody closes, and which finds the entry as it left it
AloneInv ==
  \A t, u \in Workers :
    c[t] # None /\ c[u] # None /\ addr[c[t]] = addr[c[u]] /\ addr[c[t]] \notin overlap => t = u

Sole(t) == c[t] # None /\ addr[c[t]] \notin overlap

Kept(t) ==
  /\ c[t] \in open \ deleted
  /\ pc[t] \in {"lock", "scan"} => \A i \in Ids : srvSock[i] = c[t] => i < at[t]
  /\ pc[t] = "scan" =>
       \A i \in Ids : i < at[t] /\ srvAddr[i] = addr[c[t]] => srvSock[i] = c[t]
  /\ pc[t] \in {"drop", "relock"} =>
       srvSock[at[t]] = None /\ \A i \in Ids : srvSock[i] # c[t]
  /\ pc[t] = "drop" => old[t] # c[t]
  /\ pc[t] \in {"insert", "init", "read"} => id[t] # 0
  /\ pc[t] \in {"registered", "insert", "init", "read"} /\ id[t] # 0 =>
       srvAddr[id[t]] = addr[c[t]] /\ srvSock[id[t]] = c[t]

KeepInv == ~specifiesId => \A t \in Workers : Sole(t) => Kept(t)

\* a connection that nobody is creating or dropping is in the list
Covered(x) ==
  \/ \E t \in Workers : c[t] = x \/ (pc[t] = "drop" /\ old[t] = x)
  \/ \E i \in Ids : srvSock[i] = x

CoverInv ==
  ~specifiesId => \A x \in open \ deleted : addr[x] \notin overlap => Covered(x)

OneInv == AloneInv /\ KeepInv /\ CoverInv

(***************************************************************************)
(* OneEntryPerAddress is not inductive: that a scan which ends without an  *)
(* id has passed no entry of its server rests on the entry that the thread *)
(* stopped at while the lock was given up, and on the wrap of the ids      *)
(* making entry 0 the last one.                                            *)
(***************************************************************************)
IInv == SInv /\ OneInv

-----------------------------------------------------------------------------
(* The scan of the list *)

\* A non-empty set of numbers up to n has a least element: the smallest of the
\* intervals from 0 to an element.
LEMMA Least ==
  ASSUME NEW n \in Nat, NEW S \in SUBSET (0..n), S # {}
  PROVE  Min(S) \in S /\ \A y \in S : Min(S) <= y
<1> DEFINE T == {0..k : k \in S}
<1>1. T \subseteq FiniteSubsetsOf(0..n)
  <2>1. FiniteSubsetsOf(0..n) = SUBSET (0..n)
    <3>1. IsFiniteSet(0..n)
      BY FS_Interval
    <3> QED
      BY <3>1, FS_FiniteSubsetsOfFinite
  <2> QED
    BY <2>1, SMT
<1>2. T # {}
  OBVIOUS
<1>3. PICK s \in T : \A u \in T : <<u, s>> \notin StrictSubsetOrdering(0..n)
  <2> HIDE DEF T
  <2> QED
    BY <1>1, <1>2, FS_StrictSubsetOrderingWellFounded, WFMin
<1>4. PICK x \in S : s = 0..x
  OBVIOUS
<1>5. ASSUME NEW y \in S, y < x PROVE FALSE
  <2>1. 0..y \in T /\ 0..y \subseteq 0..x /\ 0..y # 0..x
    BY <1>5, SMT
  <2>2. 0..y \in SUBSET (0..n) /\ 0..x \in SUBSET (0..n)
    BY SMT
  <2> QED
    BY <1>3, <1>4, <2>1, <2>2 DEF StrictSubsetOrdering
<1>6. \A y \in S : x <= y
  BY <1>5, SMT
<1> QED
  BY <1>6 DEF Min

\* It has a greatest element: the one whose distance to n is the least.
LEMMA Greatest ==
  ASSUME NEW n \in Nat, NEW S \in SUBSET (0..n), S # {}
  PROVE  Max(S) \in S /\ \A y \in S : y <= Max(S)
<1> DEFINE T == {n - y : y \in S}
<1>1. T \in SUBSET (0..n) /\ T # {}
  <2>1. \A y \in S : n - y \in 0..n
    BY SMT
  <2> QED
    BY <2>1, Zenon
<1>2. Min(T) \in T /\ \A y \in T : Min(T) <= y
  <2> HIDE DEF T
  <2> QED
    BY <1>1, Least
<1>3. PICK x \in S : Min(T) = n - x
  BY <1>2
<1>4. \A y \in S : y <= x
  BY <1>2, <1>3
<1> QED
  BY <1>4 DEF Max

\* The free id is an id; it is in use only if the ids have wrapped.
LEMMA FreeId ==
  /\ FreeServerId \in Ids
  /\ FreeServerId \in Entries => FreeServerId = 0
  /\ FreeServerId = 0 <=> IdRange - 1 \in Entries
<1>1. CASE Entries = {}
  BY <1>1, WorldAssumption DEF FreeServerId, Ids
<1>2. CASE Entries # {}
  <2>1. /\ Max(Entries) \in Entries /\ \A i \in Entries : i <= Max(Entries)
        /\ Max(Entries) \in 0..IdRange - 1
    <3>1. IdRange - 1 \in Nat /\ Entries \in SUBSET (0..IdRange - 1)
      BY WorldAssumption DEF Entries, Ids
    <3> QED
      BY <1>2, <3>1, Greatest
  <2>2. CASE Max(Entries) = IdRange - 1
    <3>1. FreeServerId = 0
      BY <1>2, <2>2, WorldAssumption DEF FreeServerId
    <3> QED
      BY <2>1, <2>2, <3>1, WorldAssumption DEF Ids
  <2>3. CASE Max(Entries) # IdRange - 1
    <3>1. FreeServerId = Max(Entries) + 1
      BY <1>2, <2>1, <2>3, WorldAssumption DEF FreeServerId
    <3>2. /\ FreeServerId \in Ids /\ FreeServerId # 0 /\ FreeServerId \notin Entries
          /\ IdRange - 1 \notin Entries
      BY <2>1, <2>3, <3>1, WorldAssumption DEF Ids
    <3> QED
      BY <3>2
  <2> QED
    BY <2>2, <2>3
<1> QED
  BY <1>1, <1>2

\* i is the entry that the scan of t comes to next
NextEntry(t, i) ==
  /\ i \in Entries /\ i >= at[t] /\ srvAddr[i] = addr[c[t]]
  /\ \A j \in Entries : j >= at[t] /\ srvAddr[j] = addr[c[t]] => i <= j

\* the steps of the scan, with the entry or the free id they find named
ScanFreeAt(t, i) ==
  /\ At(t, "scan") /\ NextEntry(t, i) /\ srvSock[i] = None
  /\ Assign(t, i)
  /\ UNCHANGED <<config, lock, srvAddr, socketmap, objects, crashed, overlap, pc, c, old>>

ScanTakenAt(t, i) ==
  /\ At(t, "scan") /\ NextEntry(t, i) /\ srvSock[i] # None
  /\ old' = [old EXCEPT ![t] = srvSock[i]]
  /\ srvSock' = [srvSock EXCEPT ![i] = None]
  /\ at' = [at EXCEPT ![t] = i]
  /\ Lock!ReleaseWrite(t)
  /\ Goto(t, "drop")
  /\ UNCHANGED <<config, srvAddr, socketmap, objects, crashed, overlap, c, id>>

ScanEndAt(t, f) ==
  /\ At(t, "scan") /\ \A i \in Entries : i >= at[t] => srvAddr[i] # addr[c[t]]
  /\ f \in Entries => f = 0
  /\ f = 0 <=> IdRange - 1 \in Entries
  /\ \/ /\ id[t] = 0 /\ f \notin Entries
        /\ id' = [id EXCEPT ![t] = f]
        /\ srvAddr' = [srvAddr EXCEPT ![f] = addr[c[t]]]
        /\ srvSock' = [srvSock EXCEPT ![f] = c[t]]
     \/ id[t] = 0 /\ f \in Entries /\ id' = [id EXCEPT ![t] = f] /\ UNCHANGED list
     \/ UNCHANGED <<list, id>>
  /\ Lock!ReleaseWrite(t)
  /\ Goto(t, "registered")
  /\ UNCHANGED <<config, socketmap, objects, crashed, overlap, c, at, old>>

\* The steps of the model are these.
LEMMA ScanSteps ==
  ASSUME TypeOK, NEW t \in Workers
  PROVE  /\ ScanFree(t) => \E i \in Ids : ScanFreeAt(t, i)
         /\ ScanTaken(t) => \E i \in Ids : ScanTakenAt(t, i)
         /\ ScanEnd(t) => \E f \in Ids : ScanEndAt(t, f)
<1>1. Matches(t) # {} => Min(Matches(t)) \in Ids /\ NextEntry(t, Min(Matches(t)))
  <2> SUFFICES ASSUME Matches(t) # {} PROVE NextEntry(t, Min(Matches(t)))
    BY DEF NextEntry, Entries
  <2>1. IdRange - 1 \in Nat /\ Matches(t) \in SUBSET (0..IdRange - 1)
    BY WorldAssumption DEF Matches, Entries, Ids
  <2>2. Min(Matches(t)) \in Matches(t) /\ \A j \in Matches(t) : Min(Matches(t)) <= j
    BY <2>1, Least
  <2> QED
    BY <2>2 DEF Matches, NextEntry
<1>2. ScanFree(t) => \E i \in Ids : ScanFreeAt(t, i)
  BY <1>1 DEF ScanFree, ScanFreeAt
<1>3. ScanTaken(t) => \E i \in Ids : ScanTakenAt(t, i)
  BY <1>1 DEF ScanTaken, ScanTakenAt
<1>4. ScanEnd(t) => ScanEndAt(t, FreeServerId)
  <2> SUFFICES ASSUME ScanEnd(t) PROVE ScanEndAt(t, FreeServerId)
    OBVIOUS
  <2>1. \A i \in Entries : i >= at[t] => srvAddr[i] # addr[c[t]]
    BY DEF ScanEnd, Matches
  <2> QED
    BY <2>1, FreeId DEF ScanEnd, ScanEndAt
<1> QED
  BY <1>2, <1>3, <1>4, FreeId

-----------------------------------------------------------------------------
(* The types *)

\* the references that the invariant counts on x
Holders(x) == B2N(x \in open) + B2N(x \in io) + B2N(Reading(x)) + B2N(Sending(x))

\* A connection in use has a reference for it next to the one of its handle.
LEMMA HeldTwice ==
  ASSUME RefInv, NEW x \in Conns \ deleted
  PROVE  /\ x \in io \/ Reading(x) \/ Sending(x) => refs[x] >= B2N(x \in open) + 1
         /\ x \in open => refs[x] >= 1
<1>1. refs[x] = Holders(x)
  BY DEF RefInv, Holders
<1>2. B2N(x \in open) \in {0, 1} /\ (x \in open => B2N(x \in open) = 1)
  BY DEF B2N
<1>3. B2N(x \in io) \in {0, 1} /\ (x \in io => B2N(x \in io) = 1)
  BY DEF B2N
<1>4. B2N(Reading(x)) \in {0, 1} /\ (Reading(x) => B2N(Reading(x)) = 1)
  BY DEF B2N
<1>5. B2N(Sending(x)) \in {0, 1} /\ (Sending(x) => B2N(Sending(x)) = 1)
  BY DEF B2N
<1> QED
  BY <1>1, <1>2, <1>3, <1>4, <1>5 DEF Holders

\* A thread that is done has nothing in hand.
LEMMA DoneTyped ==
  ASSUME TypeOK, NEW t \in Threads, Done(t)
  PROVE  /\ pc' \in [Threads -> PCs] /\ c' \in [Threads -> Conns \cup {None}]
         /\ id' \in [Threads -> Ids] /\ at' \in [Threads -> 0..IdRange]
         /\ old' \in [Threads -> Conns \cup {None}]
  BY WorldAssumption DEF TypeOK, Done, Goto, PCs, Ids

\* The counts are large enough for what is given back, so they stay natural numbers.
LEMMA NextTypeOK == TypeOK /\ HandInv /\ ScanInv /\ RefInv /\ [Next]_vars => TypeOK'
<1> SUFFICES ASSUME TypeOK, HandInv, ScanInv, RefInv, [Next]_vars PROVE TypeOK'
  OBVIOUS
<1> USE WorldAssumption DEF TypeOK, Threads, PCs, Ids, Goto
<1>1. ASSUME NEW t \in Workers, Accept(t) PROVE TypeOK'
  BY <1>1, SMTT(20) DEF Accept, At, config, lock, list
<1>2. ASSUME NEW t \in Workers, WriteLock(t) PROVE TypeOK'
  BY <1>2 DEF WriteLock, Lock!AcquireWrite, At, config, list, objects
<1>3. ASSUME NEW t \in Workers, Relock(t) PROVE TypeOK'
  <2>1. at[t] \in Ids
    BY <1>3 DEF Relock, At, ScanInv
  <2>2. /\ srvSock' \in [Ids -> Conns \cup {None}] /\ id' \in [Threads -> Ids]
        /\ at' \in [Threads -> 0..IdRange]
    BY <1>3, <2>1 DEF Relock, Assign
  <2> QED
    BY <1>3, <2>2 DEF Relock, Lock!AcquireWrite, At, config, objects
<1>4. ASSUME NEW t \in Workers, Disconnect(t) PROVE TypeOK'
  <2>1. PICK x \in io :
          /\ io' = io \ {x} /\ open' = open \ {x}
          /\ Release(x, IF x \in open THEN 2 ELSE 1)
    BY <1>4 DEF Disconnect
  <2>2. refs' \in [Conns -> Nat]
    <3>1. x \in Conns \ deleted
      BY <2>1 DEF RefInv
    <3>2. refs[x] >= B2N(x \in open) + 1
      BY <2>1, <3>1, HeldTwice
    <3>3. refs[x] - (IF x \in open THEN 2 ELSE 1) \in Nat
      BY <3>1, <3>2 DEF B2N
    <3> QED
      BY <2>1, <3>1, <3>3 DEF Release
  <2>3. deleted' \subseteq Conns
    BY <2>1 DEF Release
  <2> QED
    BY <1>4, <2>1, <2>2, <2>3 DEF Disconnect, config, lock, list
<1>5. ASSUME NEW t \in Workers, ScanFree(t) PROVE TypeOK'
  <2>1. PICK i \in Ids : ScanFreeAt(t, i)
    BY <1>5, ScanSteps
  <2> QED
    BY <2>1 DEF ScanFreeAt, Assign, At, config, lock, objects
<1>6. ASSUME NEW t \in Workers, ScanTaken(t) PROVE TypeOK'
  <2>1. PICK i \in Ids : ScanTakenAt(t, i)
    BY <1>6, ScanSteps
  <2> QED
    BY <2>1 DEF ScanTakenAt, Lock!ReleaseWrite, At, config, objects
<1>7. ASSUME NEW t \in Workers, Drop(t) PROVE TypeOK'
  <2>1. old[t] \in Conns
    BY <1>7 DEF Drop, At, HandInv, CreatePCs, EarlyPCs
  <2>2. CASE old[t] \in open \ deleted
    <3>1. refs[old[t]] >= 1
      BY <2>1, <2>2, HeldTwice
    <3>2. refs' \in [Conns -> Nat] /\ deleted' \subseteq Conns
      BY <1>7, <2>1, <2>2, <3>1 DEF Drop, Release
    <3> QED
      BY <1>7, <3>2 DEF Drop, Use, At, config, lock, list
  <2>3. CASE old[t] \notin open \ deleted
    BY <1>7, <2>3 DEF Drop, Use, At, config, lock, list
  <2> QED
    BY <2>2, <2>3
<1>8. ASSUME NEW t \in Workers, ScanEnd(t) PROVE TypeOK'
  <2>1. PICK f \in Ids : ScanEndAt(t, f)
    BY <1>8, ScanSteps
  <2>2. /\ srvAddr' \in [Ids -> Addrs \cup {None}]
        /\ srvSock' \in [Ids -> Conns \cup {None}] /\ id' \in [Threads -> Ids]
    <3>1. c[t] \in Conns /\ addr[c[t]] \in Addrs
      BY <2>1 DEF ScanEndAt, At, HandInv, CreatePCs, EarlyPCs
    <3> QED
      BY <2>1, <3>1, SMTT(30) DEF ScanEndAt, list
  <2> QED
    BY <2>1, <2>2 DEF ScanEndAt, Lock!ReleaseWrite, config, objects
<1>9. ASSUME NEW t \in Workers, Refuse(t) PROVE TypeOK'
  <2>1. c[t] \in Conns /\ Done(t)
    BY <1>9 DEF Refuse, At, HandInv, CreatePCs, EarlyPCs
  <2> QED
    BY <1>9, <2>1, DoneTyped DEF Refuse, Use, config, lock, list
<1>10. ASSUME NEW t \in Workers, Register(t) PROVE TypeOK'
  BY <1>10 DEF Register, Use, At, config, lock, list
<1>11. ASSUME NEW t \in Workers, Insert(t) PROVE TypeOK'
  BY <1>11 DEF Insert, At, config, lock, list, objects, HandInv, CreatePCs, EarlyPCs
<1>12. ASSUME NEW t \in Workers, Initialize(t) PROVE TypeOK'
  <2>1. c[t] \in Conns
    BY <1>12 DEF Initialize, At, HandInv, CreatePCs, EarlyPCs
  <2>2. CASE c[t] \in deleted
    BY <1>12, <2>2, DoneTyped DEF Initialize, Use, config, lock, list
  <2>3. CASE c[t] \notin deleted
    <3>1. refs' = [refs EXCEPT ![c[t]] = refs[c[t]] + 1]
      BY <1>12, <2>3 DEF Initialize, AddRef
    <3>2. refs' \in [Conns -> Nat]
      BY <2>1, <3>1
    <3> QED
      BY <1>12, <2>3, <3>2 DEF Initialize, AddRef, Use, config, lock, list
  <2> QED
    BY <2>2, <2>3
<1>13. ASSUME NEW t \in Workers, Read(t) PROVE TypeOK'
  <2> DEFINE x == c[t]
  <2>1. x \in Conns /\ x \notin deleted /\ Reading(x)
    BY <1>13 DEF Read, At, HandInv, CreatePCs, EarlyPCs, RefInv, Reading
  <2>2. refs[x] >= B2N(x \in open) + 1
    BY <2>1, HeldTwice
  <2>3. /\ refs' \in [Conns -> Nat] /\ deleted' \subseteq Conns
        /\ open' \subseteq Conns /\ io' \subseteq Conns
    <3>1. CASE x \in open /\ io' = io \cup {x} /\ UNCHANGED <<open, refs, deleted>>
      BY <2>1, <3>1
    <3>2. CASE /\ open' = open \ {x} /\ Release(x, IF x \in open THEN 2 ELSE 1)
               /\ UNCHANGED io
      <4>1. refs[x] - (IF x \in open THEN 2 ELSE 1) \in Nat
        BY <2>1, <2>2 DEF B2N
      <4> QED
        BY <2>1, <3>2, <4>1 DEF Release
    <3> QED
      BY <1>13, <3>1, <3>2 DEF Read
  <2> QED
    BY <1>13, <2>3, DoneTyped DEF Read, config, lock, list
<1>14. CASE ReadLock
  BY <1>14 DEF ReadLock, Lock!AcquireRead, At, config, list, objects
<1>15. CASE SendSocket
  <2>1. PICK i \in Entries : 
          /\ at' = [at EXCEPT ![UI] = i + 1]
          /\ LET x == socketmap[srvAddr[i]] IN
             IF x = None
             THEN UNCHANGED <<crashed, refs, deleted, pc, c>>
             ELSE /\ Use(x)
                  /\ IF x \in deleted
                     THEN UNCHANGED <<refs, deleted, pc, c>>
                     ELSE AddRef(x) /\ Goto(UI, "send") /\ c' = [c EXCEPT ![UI] = x]
    BY <1>15 DEF SendSocket
  <2>2. socketmap[srvAddr[i]] \in Conns \cup {None} /\ at' \in [Threads -> 0..IdRange]
    BY <2>1 DEF Entries
  <2>3. /\ refs' \in [Conns -> Nat] /\ deleted' \subseteq Conns /\ crashed' \in BOOLEAN
        /\ pc' \in [Threads -> PCs] /\ c' \in [Threads -> Conns \cup {None}]
    <3> DEFINE x == socketmap[srvAddr[i]]
    <3>1. CASE x = None
      BY <2>1, <3>1
    <3>2. CASE x # None /\ x \in deleted
      BY <2>1, <3>2 DEF Use
    <3>3. CASE x \in Conns \ deleted /\ x # None
      <4>1. refs' = [refs EXCEPT ![x] = refs[x] + 1]
        BY <2>1, <3>3 DEF AddRef
      <4>2. refs' \in [Conns -> Nat]
        BY <3>3, <4>1
      <4> QED
        BY <2>1, <3>3, <4>2 DEF Use, AddRef
    <3> QED
      BY <2>2, <3>1, <3>2, <3>3
  <2> QED
    BY <1>15, <2>2, <2>3 DEF SendSocket, config, lock, list
<1>16. CASE EndSend
  <2>1. c[UI] \in Conns /\ Sending(c[UI])
    BY <1>16 DEF EndSend, At, HandInv, Sending
  <2>2. refs[c[UI]] >= 1
    <3>1. c[UI] \notin deleted
      BY <2>1 DEF RefInv
    <3> QED
      BY <2>1, <3>1, HeldTwice DEF B2N
  <2>3. refs' \in [Conns -> Nat] /\ deleted' \subseteq Conns
    BY <1>16, <2>1, <2>2 DEF EndSend, Release
  <2> QED
    BY <1>16, <2>3 DEF EndSend, At, config, lock, list
<1>17. CASE ReadUnlock
  BY <1>17 DEF ReadUnlock, Done, Lock!ReleaseRead, At, config, list, objects
<1>18. CASE UNCHANGED vars
  BY <1>18 DEF vars, config, lock, list, objects
<1>19. CASE UpdateDBLock \/ UpdateDBUnlock
  BY <1>19 DEF UpdateDBLock, UpdateDBUnlock, allButLock, Lock!AcquireRead, Lock!ReleaseRead,
     list, objects
<1> QED
  BY <1>1, <1>2, <1>3, <1>4, <1>5, <1>6, <1>7, <1>8, <1>9, <1>10, <1>11, <1>12, <1>13,
     <1>14, <1>15, <1>16, <1>17, <1>18, <1>19 DEF Next

-----------------------------------------------------------------------------
(* The reference counts *)

\* A step of t between control points where it uses no connection: nobody starts or
\* stops using one.
LEMMA SameUsers ==
  ASSUME TypeOK, NEW t \in Threads,
         pc[t] \notin {"read", "send"}, pc'[t] \notin {"read", "send"},
         \A u \in Threads \ {t} : pc'[u] = pc[u] /\ c'[u] = c[u],
         NEW x
  PROVE  (Reading(x)' <=> Reading(x)) /\ (Sending(x)' <=> Sending(x))
  BY DEF Reading, Sending, Threads

\* ... and if it touches no reference the counts are what they were.
LEMMA QuietStep ==
  ASSUME TypeOK, RefInv, NEW t \in Threads,
         pc[t] \notin {"read", "send"}, pc'[t] \notin {"read", "send"},
         \A u \in Threads \ {t} : pc'[u] = pc[u] /\ c'[u] = c[u],
         UNCHANGED <<refs, open, io, deleted>>
  PROVE  RefInv'
<1>1. \A x \in Conns : (Reading(x)' <=> Reading(x)) /\ (Sending(x)' <=> Sending(x))
  BY SameUsers
<1>2. \A x \in Conns : B2N(Reading(x))' = B2N(Reading(x)) /\ B2N(Sending(x))' = B2N(Sending(x))
  BY <1>1 DEF B2N
<1>3. \A x \in Conns \ deleted' :
        refs'[x] = B2N(x \in open)' + B2N(x \in io)' + B2N(Reading(x))' + B2N(Sending(x))'
  BY <1>2 DEF RefInv, B2N
<1>4. \A x \in deleted' : x \notin io' /\ ~Reading(x)' /\ ~Sending(x)'
  BY <1>1 DEF RefInv, TypeOK
<1> QED
  BY <1>3, <1>4 DEF RefInv

\* It leaves the other threads alone.
LEMMA DoneEffect ==
  ASSUME TypeOK, NEW t \in Threads, Done(t)
  PROVE  pc'[t] = "idle" /\ \A u \in Threads \ {t} : pc'[u] = pc[u] /\ c'[u] = c[u]
  BY DEF TypeOK, Done, Goto

\* Every step counts the references it takes and gives back.
LEMMA NextRefInv ==
  TypeOK /\ TypeOK' /\ HandInv /\ FreshInv /\ EarlyInv /\ RefInv /\ [Next]_vars => RefInv'
<1> SUFFICES ASSUME TypeOK, TypeOK', HandInv, FreshInv, EarlyInv, RefInv, [Next]_vars
             PROVE  RefInv'
  OBVIOUS
<1> USE DEF Goto, At
<1>w. \A t \in Workers : t \in Threads
  BY DEF Threads
<1>1. ASSUME NEW t \in Workers, Accept(t) PROVE RefInv'
  <2>1. PICK x \in Conns : /\ addr[x] = None /\ refs' = [refs EXCEPT ![x] = 1]
                           /\ open' = open \cup {x}
    BY <1>1 DEF Accept
  <2>2. x \notin open \cup io \cup deleted /\ refs[x] = 0
    BY <2>1 DEF FreshInv
  <2>3. \A y \in Conns : (Reading(y)' <=> Reading(y)) /\ (Sending(y)' <=> Sending(y))
    BY <1>1, <1>w, SameUsers DEF Accept, TypeOK
  <2>4. ~Reading(x) /\ ~Sending(x)
    BY <2>1 DEF FreshInv, Reading, Sending, Threads
  <2> QED
    BY <1>1, <2>1, <2>2, <2>3, <2>4 DEF Accept, RefInv, B2N, TypeOK
<1>2. ASSUME NEW t \in Workers, WriteLock(t) PROVE RefInv'
  BY <1>2, <1>w, QuietStep DEF WriteLock, objects, TypeOK
<1>3. ASSUME NEW t \in Workers, Relock(t) PROVE RefInv'
  BY <1>3, <1>w, QuietStep DEF Relock, objects, TypeOK
<1>4. ASSUME NEW t \in Workers, Disconnect(t) PROVE RefInv'
  <2>1. PICK x \in io :
          /\ io' = io \ {x} /\ open' = open \ {x}
          /\ Release(x, IF x \in open THEN 2 ELSE 1)
    BY <1>4 DEF Disconnect
  <2>2. \A y \in Conns : (Reading(y)' <=> Reading(y)) /\ (Sending(y)' <=> Sending(y))
    BY <1>4 DEF Disconnect, Reading, Sending
  <2> QED
    BY <2>1, <2>2 DEF Release, RefInv, B2N, TypeOK
<1>5. ASSUME NEW t \in Workers, ScanFree(t) PROVE RefInv'
  BY <1>5, <1>w, QuietStep DEF ScanFree, objects, TypeOK
<1>6. ASSUME NEW t \in Workers, ScanTaken(t) PROVE RefInv'
  BY <1>6, <1>w, QuietStep DEF ScanTaken, objects, TypeOK
<1>7. ASSUME NEW t \in Workers, Drop(t) PROVE RefInv'
  <2>1. \A y \in Conns : (Reading(y)' <=> Reading(y)) /\ (Sending(y)' <=> Sending(y))
    BY <1>7, <1>w, SameUsers DEF Drop, TypeOK
  <2>2. CASE old[t] \in open \ deleted
    BY <1>7, <2>1, <2>2 DEF Drop, Release, RefInv, B2N, TypeOK
  <2>3. CASE old[t] \notin open \ deleted
    BY <1>7, <2>1, <2>3 DEF Drop, RefInv, B2N, TypeOK
  <2> QED
    BY <2>2, <2>3
<1>8. ASSUME NEW t \in Workers, ScanEnd(t) PROVE RefInv'
  BY <1>8, <1>w, QuietStep DEF ScanEnd, objects, TypeOK
<1>9. ASSUME NEW t \in Workers, Refuse(t) PROVE RefInv'
  <2>1. Done(t) /\ UNCHANGED <<refs, open, io>> /\ deleted' = deleted \cup {c[t]}
    BY <1>9 DEF Refuse
  <2>2. \A y \in Conns : (Reading(y)' <=> Reading(y)) /\ (Sending(y)' <=> Sending(y))
    BY <1>9, <1>w, <2>1, DoneEffect, SameUsers DEF Refuse
  <2>3. /\ c[t] \notin io /\ ~Sending(c[t])
        /\ \A u \in Workers : c[u] = c[t] => u = t
    BY <1>9 DEF Refuse, HandInv, EarlyInv, EarlyPCs, Sending
  <2>4. ~Reading(c[t])
    BY <1>9, <2>3 DEF Refuse, Reading
  <2> QED
    BY <2>1, <2>2, <2>3, <2>4 DEF RefInv, B2N, TypeOK
<1>10. ASSUME NEW t \in Workers, Register(t) PROVE RefInv'
  BY <1>10, <1>w, QuietStep DEF Register, TypeOK
<1>11. ASSUME NEW t \in Workers, Insert(t) PROVE RefInv'
  BY <1>11, <1>w, QuietStep DEF Insert, objects, TypeOK
<1>12. ASSUME NEW t \in Workers, Initialize(t) PROVE RefInv'
  <2>1. CASE c[t] \in deleted
    BY <1>12, <1>w, <2>1, DoneEffect, QuietStep DEF Initialize
  <2>2. CASE c[t] \notin deleted
    <3> DEFINE x == c[t]
    <3>1. x \in Conns
      BY <1>12 DEF Initialize, HandInv, CreatePCs, EarlyPCs, TypeOK, Threads
    <3>2. /\ refs' = [refs EXCEPT ![x] = refs[x] + 1] /\ pc' = [pc EXCEPT ![t] = "read"]
          /\ UNCHANGED <<c, open, io, deleted>>
      BY <1>12, <2>2 DEF Initialize, AddRef
    <3>3. ~Reading(x) /\ Reading(x)'
      BY <1>12, <3>1, <3>2 DEF Initialize, Reading, HandInv, TypeOK, Threads
    <3>4. \A y \in Conns \ {x} : Reading(y)' <=> Reading(y)
      BY <3>2 DEF Reading, TypeOK, Threads
    <3>5. \A y \in Conns : Sending(y)' <=> Sending(y)
      BY <3>2, WorldAssumption DEF Sending, TypeOK, Threads
    <3> QED
      BY <2>2, <3>1, <3>2, <3>3, <3>4, <3>5 DEF RefInv, B2N, TypeOK
  <2> QED
    BY <2>1, <2>2
<1>13. ASSUME NEW t \in Workers, Read(t) PROVE RefInv'
  <2>1. PICK x \in Conns : x = c[t] /\ x \notin io /\ Reading(x)
    BY <1>13 DEF Read, HandInv, EarlyInv, CreatePCs, EarlyPCs, Reading, TypeOK, Threads
  <2>2. x \notin deleted
    BY <2>1 DEF RefInv
  <2>3. Done(t)
    BY <1>13 DEF Read
  <2>4. ~Reading(x)' /\ \A y \in Conns \ {x} : Reading(y)' <=> Reading(y)
    BY <1>13, <2>1, <2>3 DEF Read, Done, Reading, HandInv, TypeOK, Threads
  <2>5. \A y \in Conns : Sending(y)' <=> Sending(y)
    BY <2>3, WorldAssumption DEF Done, Sending, TypeOK, Threads
  <2>6. CASE x \in open /\ io' = io \cup {x} /\ UNCHANGED <<open, refs, deleted>>
    BY <2>1, <2>2, <2>4, <2>5, <2>6 DEF RefInv, B2N, TypeOK
  <2>7. CASE /\ open' = open \ {x} /\ Release(x, IF x \in open THEN 2 ELSE 1)
             /\ UNCHANGED io
    BY <2>1, <2>2, <2>4, <2>5, <2>7 DEF Release, RefInv, B2N, TypeOK
  <2> QED
    BY <1>13, <2>1, <2>6, <2>7 DEF Read
<1>14. CASE ReadLock
  BY <1>14, QuietStep DEF ReadLock, objects, TypeOK, Threads
<1>15. CASE SendSocket
  <2>1. PICK x : IF x = None \/ x \in deleted
                 THEN UNCHANGED <<refs, deleted, pc, c>>
                 ELSE AddRef(x) /\ Goto(UI, "send") /\ c' = [c EXCEPT ![UI] = x]
    BY <1>15 DEF SendSocket
  <2>2. CASE x = None \/ x \in deleted
    BY <1>15, <2>1, <2>2, QuietStep DEF SendSocket, Threads
  <2>3. CASE x # None /\ x \notin deleted
    <3>1. /\ refs' = [refs EXCEPT ![x] = refs[x] + 1] /\ pc' = [pc EXCEPT ![UI] = "send"]
          /\ c' = [c EXCEPT ![UI] = x] /\ UNCHANGED <<open, io, deleted>>
      BY <1>15, <2>1, <2>3 DEF SendSocket, AddRef
    <3>2. \A y \in Conns : Reading(y)' <=> Reading(y)
      BY <3>1, WorldAssumption DEF Reading, TypeOK, Threads
    <3>3. \A y \in Conns : Sending(y)' <=> y = x
      BY <3>1 DEF Sending, TypeOK, Threads
    <3>4. \A y \in Conns : ~Sending(y)
      BY <1>15 DEF SendSocket, Sending
    <3> QED
      BY <2>3, <3>1, <3>2, <3>3, <3>4 DEF RefInv, B2N, TypeOK
  <2> QED
    BY <2>2, <2>3
<1>16. CASE EndSend
  <2> DEFINE x == c[UI]
  <2>1. x \in Conns /\ Sending(x)
    BY <1>16 DEF EndSend, HandInv, Sending
  <2>2. /\ Release(x, 1) /\ pc' = [pc EXCEPT ![UI] = "each"]
        /\ c' = [c EXCEPT ![UI] = None] /\ UNCHANGED <<open, io>>
    BY <1>16 DEF EndSend
  <2>3. \A y \in Conns : Reading(y)' <=> Reading(y)
    BY <2>2, WorldAssumption DEF Reading, TypeOK, Threads
  <2>4. \A y \in Conns : ~Sending(y)' /\ (Sending(y) => y = x)
    BY <2>2 DEF Sending, TypeOK, Threads
  <2>5. x \notin deleted
    BY <2>1 DEF RefInv
  <2> QED
    BY <2>1, <2>2, <2>3, <2>4, <2>5 DEF Release, RefInv, B2N, TypeOK
<1>17. CASE ReadUnlock
  <2>1. Done(UI) /\ UNCHANGED <<refs, open, io, deleted>> /\ UI \in Threads
    BY <1>17 DEF ReadUnlock, objects, Threads
  <2> QED
    BY <1>17, <2>1, DoneEffect, QuietStep DEF ReadUnlock
<1>18. CASE UNCHANGED vars
  BY <1>18, ZenonT(30) DEF vars, objects, RefInv, Reading, Sending
<1>19. CASE UpdateDBLock \/ UpdateDBUnlock
  <2>1. UNCHANGED <<refs, open, io, deleted, pc, c>>
    BY <1>19 DEF UpdateDBLock, UpdateDBUnlock, allButLock, objects
  <2>2. \A x : (Reading(x)' <=> Reading(x)) /\ (Sending(x)' <=> Sending(x))
    BY <2>1 DEF Reading, Sending
  <2> QED
    BY <2>1, <2>2 DEF RefInv, B2N
<1> QED
  BY <1>1, <1>2, <1>3, <1>4, <1>5, <1>6, <1>7, <1>8, <1>9, <1>10, <1>11, <1>12, <1>13,
     <1>14, <1>15, <1>16, <1>17, <1>18, <1>19 DEF Next

-----------------------------------------------------------------------------
(* The list and the scan *)

\* Every step preserves what is known of the list, the scan and the counts.
LEMMA NextSInv == SInv /\ [Next]_vars => SInv'
<1> SUFFICES ASSUME SInv, [Next]_vars PROVE SInv'
  OBVIOUS
<1>t. TypeOK' /\ RefInv'
  BY NextTypeOK, NextRefInv DEF SInv
<1> USE <1>t, WorldAssumption
    DEF SInv, TypeOK, Threads, PCs, Ids, Goto, At, CreatePCs, EarlyPCs, Entries
<1>1. ASSUME NEW t \in Workers, Accept(t) PROVE SInv'
  <2> USE <1>1 DEF Accept, config, lock, list
  <2>1. HandInv' /\ FreshInv' /\ LockInv' /\ EntryInv' /\ WrapInv' /\ OneEntryPerAddress'
    BY DEF HandInv, FreshInv, LockInv, EntryInv, WrapInv, OneEntryPerAddress
  <2>2. ScanInv'
    BY DEF ScanInv, HandInv
  <2>3. EarlyInv'
    BY DEF EarlyInv, FreshInv
  <2>4. EntryHasConnection'
    <3>1. \A i \in Ids : srvSock[i] # None => addr'[srvSock[i]] = addr[srvSock[i]]
      BY DEF FreshInv
    <3>2. \A u \in Workers : pc[u] \in {"drop", "relock"} => pc'[u] = pc[u] /\ at'[u] = at[u]
      OBVIOUS
    <3> QED
      BY <3>1, <3>2 DEF EntryHasConnection
  <2>5. IdNamesServer'
    BY DEF IdNamesServer, FreshInv
  <2> QED
    BY <2>1, <2>2, <2>3, <2>4, <2>5
<1>2. ASSUME NEW t \in Workers, WriteLock(t) PROVE SInv'
  <2> USE <1>2 DEF WriteLock, config, lock, list, objects, Lock!AcquireWrite
  <2>1. /\ HandInv' /\ FreshInv' /\ LockInv' /\ EntryInv'
        /\ WrapInv' /\ EarlyInv' /\ OneEntryPerAddress' /\ IdNamesServer'
    BY DEF HandInv, FreshInv, LockInv, EntryInv, WrapInv, EarlyInv, OneEntryPerAddress,
       IdNamesServer
  <2>2. ScanInv'
    BY DEF ScanInv, HandInv
  <2>3. EntryHasConnection'
    BY ZenonT(30) DEF EntryHasConnection, HandInv
  <2> QED
    BY <2>1, <2>2, <2>3
<1>3. ASSUME NEW t \in Workers, Relock(t) PROVE SInv'
  <2> USE <1>3 DEF Relock, Assign, config, objects, Lock!AcquireWrite
  <2>1. /\ HandInv' /\ FreshInv' /\ LockInv'
        /\ WrapInv' /\ EarlyInv' /\ OneEntryPerAddress' /\ IdNamesServer'
    BY DEF HandInv, FreshInv, LockInv, WrapInv, EarlyInv, OneEntryPerAddress, IdNamesServer
  <2>2. EntryInv'
    BY DEF EntryInv, HandInv, ScanInv
  <2>3. ScanInv'
    BY DEF ScanInv, OneEntryPerAddress
  <2>4. EntryHasConnection'
    BY DEF EntryHasConnection, HandInv, ScanInv
  <2> QED
    BY <2>1, <2>2, <2>3, <2>4
<1>4. ASSUME NEW t \in Workers, Disconnect(t) PROVE SInv'
  <2> USE <1>4 DEF Disconnect, Release, config, lock, list
  <2>1. HandInv' /\ FreshInv' /\ LockInv' /\ EntryInv' /\ WrapInv'
    BY DEF HandInv, FreshInv, LockInv, EntryInv, WrapInv
  <2>2. ScanInv' /\ EarlyInv'
    BY DEF ScanInv, EarlyInv
  <2>3. OneEntryPerAddress' /\ IdNamesServer'
    BY DEF OneEntryPerAddress, IdNamesServer
  <2>4. EntryHasConnection'
    BY DEF EntryHasConnection
  <2> QED
    BY <2>1, <2>2, <2>3, <2>4
<1>5. ASSUME NEW t \in Workers, ScanFree(t) PROVE SInv'
  <2>e. PICK i \in Ids : ScanFreeAt(t, i)
    BY <1>5, ScanSteps
  <2> USE <2>e DEF ScanFreeAt, Assign, config, lock, objects, NextEntry
  <2>1. /\ HandInv' /\ FreshInv' /\ LockInv' /\ EntryInv'
        /\ WrapInv' /\ EarlyInv' /\ OneEntryPerAddress' /\ IdNamesServer'
    BY DEF HandInv, FreshInv, LockInv, EntryInv, WrapInv, EarlyInv, OneEntryPerAddress,
       IdNamesServer
  <2>2. ScanInv'
    BY DEF ScanInv, OneEntryPerAddress
  <2>3. EntryHasConnection'
    <3>1. c[t] \in Conns
      BY DEF HandInv
    <3>2. srvSock'[i] # None /\ addr'[srvSock'[i]] = srvAddr'[i]
      BY <3>1
    <3>3. \A u \in Workers : pc[u] \in {"drop", "relock"} => pc'[u] = pc[u] /\ at'[u] = at[u]
      OBVIOUS
    <3>4. ASSUME NEW j \in Ids, j # i
          PROVE  srvSock'[j] = srvSock[j] /\ srvAddr'[j] = srvAddr[j] /\ addr' = addr
      BY <3>4
    <3> HIDE <1>5, <2>e DEF ScanFreeAt
    <3> QED
      BY <2>e, <3>2, <3>3, <3>4 DEF EntryHasConnection
  <2> QED
    BY <2>1, <2>2, <2>3
<1>6. ASSUME NEW t \in Workers, ScanTaken(t) PROVE SInv'
  <2>e. PICK i \in Ids : ScanTakenAt(t, i)
    BY <1>6, ScanSteps
  <2> USE <2>e DEF ScanTakenAt, config, objects, NextEntry, Lock!ReleaseWrite
  <2>1. /\ HandInv' /\ FreshInv' /\ LockInv' /\ EntryInv'
        /\ WrapInv' /\ EarlyInv' /\ OneEntryPerAddress' /\ IdNamesServer'
    BY SMTT(20) DEF HandInv, FreshInv, LockInv, EntryInv, WrapInv, EarlyInv, OneEntryPerAddress,
       IdNamesServer
  <2>2. ScanInv'
    BY DEF ScanInv, EntryInv
  <2>3. EntryHasConnection'
    BY DEF EntryHasConnection, ScanInv
  <2> QED
    BY <2>1, <2>2, <2>3
<1>7. ASSUME NEW t \in Workers, Drop(t) PROVE SInv'
  <2> USE <1>7 DEF Drop, Use, Release, config, lock, list
  <2>1. HandInv' /\ FreshInv' /\ LockInv' /\ EntryInv' /\ WrapInv'
    BY DEF HandInv, FreshInv, LockInv, EntryInv, WrapInv
  <2>2. ScanInv' /\ EarlyInv'
    BY DEF ScanInv, EarlyInv
  <2>3. OneEntryPerAddress' /\ IdNamesServer'
    BY DEF OneEntryPerAddress, IdNamesServer
  <2>4. EntryHasConnection'
    BY DEF EntryHasConnection
  <2> QED
    BY <2>1, <2>2, <2>3, <2>4
<1>8. ASSUME NEW t \in Workers, ScanEnd(t) PROVE SInv'
  <2>e. PICK i \in Ids : ScanEndAt(t, i)
    BY <1>8, ScanSteps
  <2> USE <2>e DEF ScanEndAt, config, list, objects, Lock!ReleaseWrite
  <2>1. HandInv' /\ FreshInv' /\ LockInv' /\ WrapInv' /\ EarlyInv'
    BY DEF HandInv, FreshInv, LockInv, WrapInv, EarlyInv
  <2>2. EntryInv'
    BY SMTT(20) DEF EntryInv, HandInv
  <2>3. ScanInv'
    BY DEF ScanInv, HandInv, LockInv
  <2>4. OneEntryPerAddress'
    <3>1. CASE UNCHANGED list
      BY <3>1 DEF OneEntryPerAddress
    <3>2. CASE id[t] = 0 /\ i \notin Entries /\ srvAddr' = [srvAddr EXCEPT ![i] = addr[c[t]]]
      <4>1. i # 0 => 0 \notin Entries
        BY <3>2 DEF WrapInv
      <4>2. \A j \in Entries : srvAddr[j] # addr[c[t]]
        <5> SUFFICES ASSUME NEW j \in Entries, srvAddr[j] = addr[c[t]] PROVE FALSE
          OBVIOUS
        <5>1. j \in Ids /\ j < at[t]
          BY <2>e
        <5>2. id[t] = j
          BY <2>e, <5>1 DEF ScanInv
        <5> QED
          BY <3>2, <4>1, <5>2
      <4>3. ASSUME NEW j \in Ids, srvAddr'[j] # None, j # i
            PROVE  srvAddr[j] # None /\ srvAddr'[j] = srvAddr[j]
        BY <3>2, <4>3
      <4> QED
        BY <3>2, <4>2, <4>3 DEF OneEntryPerAddress
    <3> QED
      BY <3>1, <3>2
  <2>5. EntryHasConnection'
    <3>1. CASE UNCHANGED list
      BY <3>1 DEF EntryHasConnection
    <3>2. CASE /\ srvAddr' = [srvAddr EXCEPT ![i] = addr[c[t]]]
               /\ srvSock' = [srvSock EXCEPT ![i] = c[t]] /\ i \notin Entries
      <4>1. c[t] \in Conns /\ addr' = addr
        BY DEF HandInv
      <4>2. \A u \in Workers : pc[u] \in {"drop", "relock"} => pc'[u] = pc[u] /\ at'[u] = at[u]
        OBVIOUS
      <4>3. srvSock'[i] = c[t] /\ srvAddr'[i] = addr[c[t]]
        BY <3>2
      <4>4. ASSUME NEW j \in Ids, j # i
            PROVE  srvSock'[j] = srvSock[j] /\ srvAddr'[j] = srvAddr[j]
        BY <3>2, <4>4
      <4> HIDE <1>8, <2>e DEF ScanEndAt
      <4> QED
        BY <4>1, <4>2, <4>3, <4>4 DEF EntryHasConnection
    <3> QED
      BY <3>1, <3>2
  <2>6. IdNamesServer'
    BY DEF IdNamesServer, FreshInv
  <2> QED
    BY <2>1, <2>2, <2>3, <2>4, <2>5, <2>6
<1>9. ASSUME NEW t \in Workers, Refuse(t) PROVE SInv'
  <2> USE <1>9 DEF Refuse, Done, Use, config, lock, list
  <2>1. HandInv' /\ FreshInv' /\ LockInv' /\ EntryInv' /\ WrapInv'
    BY DEF HandInv, FreshInv, LockInv, EntryInv, WrapInv
  <2>2. ScanInv' /\ EarlyInv'
    BY DEF ScanInv, EarlyInv
  <2>3. OneEntryPerAddress' /\ IdNamesServer'
    BY DEF OneEntryPerAddress, IdNamesServer
  <2>4. EntryHasConnection'
    BY DEF EntryHasConnection
  <2> QED
    BY <2>1, <2>2, <2>3, <2>4
<1>10. ASSUME NEW t \in Workers, Register(t) PROVE SInv'
  <2> USE <1>10 DEF Register, Use, config, lock, list
  <2>1. /\ HandInv' /\ FreshInv' /\ LockInv' /\ EntryInv'
        /\ WrapInv' /\ ScanInv' /\ EarlyInv' /\ OneEntryPerAddress'
    BY DEF HandInv, FreshInv, LockInv, EntryInv, WrapInv, ScanInv, EarlyInv,
       OneEntryPerAddress
  <2>2. EntryHasConnection'
    BY DEF EntryHasConnection, ScanInv
  <2>3. IdNamesServer'
    BY DEF IdNamesServer, ScanInv
  <2> QED
    BY <2>1, <2>2, <2>3
<1>11. ASSUME NEW t \in Workers, Insert(t) PROVE SInv'
  <2> USE <1>11 DEF Insert, config, lock, list, objects
  <2>1. /\ HandInv' /\ FreshInv' /\ LockInv' /\ EntryInv'
        /\ WrapInv' /\ ScanInv' /\ OneEntryPerAddress' /\ IdNamesServer'
    BY DEF HandInv, FreshInv, LockInv, EntryInv, WrapInv, ScanInv, OneEntryPerAddress,
       IdNamesServer
  <2>2. EarlyInv'
    BY DEF EarlyInv, HandInv
  <2>3. EntryHasConnection'
    BY ZenonT(30) DEF EntryHasConnection, HandInv
  <2> QED
    BY <2>1, <2>2, <2>3
<1>12. ASSUME NEW t \in Workers, Initialize(t) PROVE SInv'
  <2> USE DEF lock, list
  <2>a. CASE c[t] \in deleted
    <3>e. /\ pc[t] = "init" /\ Done(t)
          /\ UNCHANGED <<lock, list, socketmap, objects>>
      BY <1>12, <2>a DEF Initialize, objects
    <3> USE <3>e DEF Done, objects
    <3>1. /\ HandInv' /\ FreshInv' /\ LockInv' /\ EntryInv'
          /\ WrapInv' /\ ScanInv' /\ EarlyInv' /\ OneEntryPerAddress' /\ IdNamesServer'
      BY DEF HandInv, FreshInv, LockInv, EntryInv, WrapInv, ScanInv, EarlyInv,
         OneEntryPerAddress, IdNamesServer
    <3>2. EntryHasConnection'
      BY DEF EntryHasConnection, ScanInv
    <3> QED
      BY <3>1, <3>2
  <2>b. CASE c[t] \notin deleted
    <3>e. /\ pc[t] = "init" /\ Goto(t, "read") /\ refs' = [refs EXCEPT ![c[t]] = refs[c[t]] + 1]
          /\ UNCHANGED <<lock, list, socketmap, addr, serverid, open, io, deleted,
                         c, id, at, old>>
      BY <1>12, <2>b DEF Initialize, AddRef
    <3> USE <3>e
    <3>1. /\ HandInv' /\ FreshInv' /\ LockInv' /\ EntryInv'
          /\ WrapInv' /\ ScanInv' /\ EarlyInv' /\ OneEntryPerAddress' /\ IdNamesServer'
      BY SMTT(20) DEF HandInv, FreshInv, LockInv, EntryInv, WrapInv, ScanInv, EarlyInv,
         OneEntryPerAddress, IdNamesServer
    <3>2. EntryHasConnection'
      BY DEF EntryHasConnection, HandInv, ScanInv
    <3> QED
      BY <3>1, <3>2
  <2> QED
    BY <2>a, <2>b
<1>13. ASSUME NEW t \in Workers, Read(t) PROVE SInv'
  <2> USE <1>13 DEF Read, Done, Release, config, lock, list
  <2>1. /\ HandInv' /\ FreshInv' /\ LockInv' /\ EntryInv'
        /\ WrapInv' /\ ScanInv' /\ OneEntryPerAddress' /\ IdNamesServer'
    BY DEF HandInv, FreshInv, LockInv, EntryInv, WrapInv, ScanInv, OneEntryPerAddress,
       IdNamesServer
  <2>2. EarlyInv'
    BY DEF EarlyInv, HandInv
  <2>3. EntryHasConnection'
    BY DEF EntryHasConnection, ScanInv
  <2> QED
    BY <2>1, <2>2, <2>3
<1>14. CASE ReadLock
  <2> USE <1>14 DEF ReadLock, config, list, objects, Lock!AcquireRead
  <2>1. HandInv' /\ FreshInv' /\ LockInv' /\ EntryInv' /\ WrapInv'
    BY DEF HandInv, FreshInv, LockInv, EntryInv, WrapInv
  <2>2. ScanInv' /\ EarlyInv'
    BY DEF ScanInv, EarlyInv
  <2>3. OneEntryPerAddress' /\ IdNamesServer'
    BY DEF OneEntryPerAddress, IdNamesServer
  <2>4. EntryHasConnection'
    BY DEF EntryHasConnection
  <2> QED
    BY <2>1, <2>2, <2>3, <2>4
<1>15. CASE SendSocket
  <2> USE <1>15 DEF SendSocket, lock, list
  <2>e. PICK i \in Entries :
          /\ at' = [at EXCEPT ![UI] = i + 1]
          /\ LET x == socketmap[srvAddr[i]] IN
             IF x = None \/ x \in deleted
             THEN UNCHANGED <<refs, deleted, pc, c>>
             ELSE AddRef(x) /\ Goto(UI, "send") /\ c' = [c EXCEPT ![UI] = x]
    OBVIOUS
  <2>x. PICK x \in Conns \cup {None} : x = socketmap[srvAddr[i]]
    OBVIOUS
  <2>a. CASE x = None \/ x \in deleted
    <3>e. UNCHANGED <<refs, deleted, pc, c>>
      BY <2>a, <2>e, <2>x
    <3> USE <2>e, <3>e
    <3>1. /\ HandInv' /\ FreshInv' /\ LockInv' /\ EntryInv' /\ WrapInv'
          /\ ScanInv' /\ EarlyInv' /\ OneEntryPerAddress' /\ EntryHasConnection' /\ IdNamesServer'
      BY SMTT(20) DEF HandInv, FreshInv, LockInv, EntryInv, WrapInv, ScanInv, EarlyInv,
         OneEntryPerAddress, EntryHasConnection, IdNamesServer
    <3> QED
      BY <3>1
  <2>b. CASE x \in Conns \ deleted
    <3>e. /\ Goto(UI, "send") /\ c' = [c EXCEPT ![UI] = x]
          /\ refs' = [refs EXCEPT ![x] = @ + 1] /\ UNCHANGED deleted
      BY <2>b, <2>e, <2>x DEF AddRef
    <3> USE <2>b, <2>e, <2>x, <3>e
    <3>1. /\ HandInv' /\ FreshInv' /\ LockInv' /\ EntryInv'
          /\ WrapInv' /\ ScanInv' /\ OneEntryPerAddress' /\ EntryHasConnection' /\ IdNamesServer'
      BY DEF HandInv, FreshInv, LockInv, EntryInv, WrapInv, ScanInv, OneEntryPerAddress,
         EntryHasConnection, IdNamesServer
    <3>2. EarlyInv'
      BY DEF EarlyInv, ScanInv
    <3> QED
      BY <3>1, <3>2
  <2> QED
    BY <2>a, <2>b, <2>x
<1>16. CASE EndSend
  <2> USE <1>16 DEF EndSend, Release, config, lock, list
  <2>1. /\ HandInv' /\ FreshInv' /\ LockInv' /\ EntryInv'
        /\ WrapInv' /\ ScanInv' /\ OneEntryPerAddress' /\ EntryHasConnection' /\ IdNamesServer'
    BY DEF HandInv, FreshInv, LockInv, EntryInv, WrapInv, ScanInv, OneEntryPerAddress,
       EntryHasConnection, IdNamesServer
  <2>2. EarlyInv'
    BY DEF EarlyInv, HandInv
  <2> QED
    BY <2>1, <2>2
<1>17. CASE ReadUnlock
  <2> USE <1>17 DEF ReadUnlock, Done, config, list, objects, Lock!ReleaseRead
  <2>1. /\ HandInv' /\ FreshInv' /\ LockInv' /\ EntryInv'
        /\ WrapInv' /\ ScanInv' /\ OneEntryPerAddress' /\ EntryHasConnection' /\ IdNamesServer'
    BY DEF HandInv, FreshInv, LockInv, EntryInv, WrapInv, ScanInv, OneEntryPerAddress,
       EntryHasConnection, IdNamesServer
  <2>2. EarlyInv'
    BY DEF EarlyInv, HandInv
  <2> QED
    BY <2>1, <2>2
<1>18. CASE UNCHANGED vars
  <2> USE <1>18 DEF vars, config, lock, list, objects
  <2> QED
    BY DEF HandInv, FreshInv, LockInv, EntryInv, WrapInv, ScanInv, EarlyInv,
       OneEntryPerAddress, EntryHasConnection, IdNamesServer
<1>19. CASE UpdateDBLock \/ UpdateDBUnlock
  <2>1. UNCHANGED <<list, socketmap, objects, pc, c, id, at, old, writers>>
    BY <1>19 DEF UpdateDBLock, UpdateDBUnlock, allButLock, Lock!AcquireRead, Lock!ReleaseRead
  <2>2. LockInv'
    BY <1>19 DEF UpdateDBLock, UpdateDBUnlock, allButLock, Lock!AcquireRead, Lock!ReleaseRead,
       LockInv
  <2> QED
    BY <2>1, <2>2 DEF list, objects, HandInv, FreshInv, EntryInv, WrapInv, ScanInv, EarlyInv,
       OneEntryPerAddress, EntryHasConnection, IdNamesServer
<1> QED
  BY <1>1, <1>2, <1>3, <1>4, <1>5, <1>6, <1>7, <1>8, <1>9, <1>10, <1>11, <1>12, <1>13,
     <1>14, <1>15, <1>16, <1>17, <1>18, <1>19 DEF Next

-----------------------------------------------------------------------------
(* One connection per server *)

\* The reference that the window gives back is not the last one of an open connection.
LEMMA StillOpen ==
  ASSUME SInv, EndSend
  PROVE  open \ deleted' = open \ deleted
<1>1. c[UI] \in Conns /\ Sending(c[UI]) /\ Release(c[UI], 1)
  BY DEF SInv, HandInv, EndSend, At, Sending
<1>2. c[UI] \notin deleted
  BY <1>1 DEF SInv, RefInv
<1>3. c[UI] \in open => refs[c[UI]] >= 2
  <2>1. refs[c[UI]] >= B2N(c[UI] \in open) + 1
    BY <1>1, <1>2, HeldTwice DEF SInv
  <2> QED
    BY <2>1 DEF B2N
<1> QED
  BY <1>1, <1>3 DEF Release

\* A thread that has a server to itself finds the list as it left it.
LEMMA NextAloneKeep ==
  SInv /\ SInv' /\ AloneInv /\ KeepInv /\ [Next]_vars => AloneInv' /\ KeepInv'
<1> SUFFICES ASSUME SInv, SInv', AloneInv, KeepInv, [Next]_vars
             PROVE  AloneInv' /\ KeepInv'
  OBVIOUS
<1>t. TypeOK'
  BY DEF SInv
<1>o. UNCHANGED config
  BY DEF Next, vars, Accept, WriteLock, Relock, Disconnect, ScanFree, ScanTaken, Drop, ScanEnd,
         Refuse, Register, Insert, Initialize, Read, ReadLock, SendSocket, EndSend, ReadUnlock,
         UpdateDBLock, UpdateDBUnlock, allButLock
<1> USE <1>t, <1>o, WorldAssumption
    DEF SInv, TypeOK, Threads, PCs, Ids, Goto, At, CreatePCs, EarlyPCs, Entries,
        config, list
<1>1. ASSUME NEW t \in Workers, Accept(t) PROVE AloneInv' /\ KeepInv'
  <2> USE <1>1 DEF Accept, lock
  <2>1. AloneInv'
    BY SMTT(20) DEF AloneInv, HandInv
  <2>2. KeepInv'
    BY DEF KeepInv, HandInv, FreshInv, Kept, Sole
  <2> QED
    BY <2>1, <2>2
<1>2. ASSUME NEW t \in Workers, WriteLock(t) PROVE AloneInv' /\ KeepInv'
  <2> USE <1>2 DEF WriteLock, lock, objects, Lock!AcquireWrite
  <2>1. AloneInv'
    BY DEF AloneInv
  <2>2. KeepInv'
    BY DEF KeepInv, HandInv, Kept, Sole
  <2> QED
    BY <2>1, <2>2
<1>3. ASSUME NEW t \in Workers, Relock(t) PROVE AloneInv' /\ KeepInv'
  <2> USE <1>3 DEF Relock, Assign, objects, Lock!AcquireWrite
  <2>1. AloneInv'
    BY DEF AloneInv
  <2>2. KeepInv'
    <3> SUFFICES ASSUME ~specifiesId, NEW u \in Workers, Sole(u)' PROVE Kept(u)'
      BY DEF KeepInv
    <3>1. Sole(u) /\ Kept(u)
      BY DEF KeepInv, Sole
    <3>2. at[t] \in Ids /\ srvAddr[at[t]] = addr[c[t]] /\ addr[c[t]] # None
      BY DEF ScanInv, HandInv
    <3>3. CASE u = t
      <4>1. \A j \in Ids : srvAddr[j] = addr[c[t]] => j = at[t]
        BY <3>2 DEF OneEntryPerAddress
      <4> QED
        BY <3>1, <3>2, <3>3, <4>1 DEF Kept
    <3>4. CASE u # t
      <4>1. addr[c[u]] # addr[c[t]] /\ c[u] # c[t]
        BY <3>1, <3>4 DEF Sole, AloneInv, HandInv
      <4>2. pc[u] \in {"drop", "relock"} => srvAddr[at[u]] = addr[c[u]] /\ at[u] \in Ids
        BY DEF ScanInv
      <4>3. \A j \in Ids : srvAddr[j] = addr[c[u]] => srvSock'[j] = srvSock[j]
        BY <3>2, <4>1
      <4>4. \A j \in Ids : srvSock'[j] = c[u] => srvSock[j] = c[u]
        BY <4>1
      <4>5. /\ pc'[u] = pc[u] /\ c'[u] = c[u] /\ at'[u] = at[u] /\ id'[u] = id[u]
            /\ old'[u] = old[u] /\ UNCHANGED <<open, deleted, addr, srvAddr>>
        BY <3>4
      <4> HIDE <1>3
      <4> QED
        BY <3>1, <4>2, <4>3, <4>4, <4>5 DEF Kept
    <3> QED
      BY <3>3, <3>4
  <2> QED
    BY <2>1, <2>2
<1>4. ASSUME NEW t \in Workers, Disconnect(t) PROVE AloneInv' /\ KeepInv'
  <2> USE <1>4 DEF Disconnect, Release, lock
  <2>1. AloneInv'
    BY DEF AloneInv
  <2>2. KeepInv'
    BY DEF KeepInv, HandInv, EarlyInv, Kept, Sole
  <2> QED
    BY <2>1, <2>2
<1>5. ASSUME NEW t \in Workers, ScanFree(t) PROVE AloneInv' /\ KeepInv'
  <2>e. PICK i \in Ids : ScanFreeAt(t, i)
    BY <1>5, ScanSteps
  <2> USE <2>e DEF ScanFreeAt, Assign, lock, objects, NextEntry
  <2>1. AloneInv'
    BY DEF AloneInv
  <2>2. KeepInv'
    <3> SUFFICES ASSUME ~specifiesId, NEW u \in Workers, Sole(u)' PROVE Kept(u)'
      BY DEF KeepInv
    <3>1. Sole(u) /\ Kept(u)
      BY DEF KeepInv, Sole
    <3>2. CASE u = t
      BY <3>1, <3>2 DEF Kept
    <3>3. CASE u # t
      <4>1. addr[c[u]] # addr[c[t]] /\ c[u] # c[t]
        BY <3>1, <3>3 DEF Sole, AloneInv, HandInv
      <4> QED
        BY <3>1, <3>3, <4>1 DEF Kept, ScanInv
    <3> QED
      BY <3>2, <3>3
  <2> QED
    BY <2>1, <2>2
<1>6. ASSUME NEW t \in Workers, ScanTaken(t) PROVE AloneInv' /\ KeepInv'
  <2>e. PICK i \in Ids : ScanTakenAt(t, i)
    BY <1>6, ScanSteps
  <2> USE <2>e DEF ScanTakenAt, objects, NextEntry, Lock!ReleaseWrite
  <2>1. AloneInv'
    BY DEF AloneInv
  <2>2. KeepInv'
    <3> SUFFICES ASSUME ~specifiesId, NEW u \in Workers, Sole(u)' PROVE Kept(u)'
      BY DEF KeepInv
    <3>1. Sole(u) /\ Kept(u)
      BY DEF KeepInv, Sole
    <3>2. CASE u = t
      <4>1. old[t]' # c[t] /\ \A j \in Ids : srvSock[j] = c[t] => j < i
        BY <3>1, <3>2 DEF Kept
      <4>2. \A j \in Ids : srvSock[j] # c[t]
        <5>1. c[t] \in Conns
          BY DEF HandInv
        <5>2. \A j \in Ids : srvSock[j] = c[t] => j = i
          BY <5>1 DEF EntryInv, OneEntryPerAddress
        <5> QED
          BY <4>1, <5>2
      <4> QED
        BY <3>1, <3>2, <4>1, <4>2 DEF Kept
    <3>3. CASE u # t
      <4>1. addr[c[u]] # addr[c[t]]
        BY <3>1, <3>3 DEF Sole, AloneInv, HandInv
      <4> QED
        BY <3>1, <3>3, <4>1, SMTT(20) DEF Kept
    <3> QED
      BY <3>2, <3>3
  <2> QED
    BY <2>1, <2>2
<1>7. ASSUME NEW t \in Workers, Drop(t) PROVE AloneInv' /\ KeepInv'
  <2> USE <1>7 DEF Drop, Use, Release, lock
  <2>1. AloneInv'
    BY DEF AloneInv
  <2>2. KeepInv'
    BY SMTT(20) DEF KeepInv, HandInv, AloneInv, ScanInv, Kept, Sole
  <2> QED
    BY <2>1, <2>2
<1>8. ASSUME NEW t \in Workers, ScanEnd(t) PROVE AloneInv' /\ KeepInv'
  <2>e. PICK i \in Ids : ScanEndAt(t, i)
    BY <1>8, ScanSteps
  <2> USE <2>e DEF ScanEndAt, objects, Lock!ReleaseWrite
  <2>1. AloneInv'
    BY DEF AloneInv
  <2>2. KeepInv'
    <3> SUFFICES ASSUME ~specifiesId, NEW u \in Workers, Sole(u)' PROVE Kept(u)'
      BY DEF KeepInv
    <3>1. Sole(u) /\ Kept(u)
      BY DEF KeepInv, Sole
    <3>2. CASE u = t
      BY <3>1, <3>2 DEF Kept, ScanInv, HandInv
    <3>3. CASE u # t
      <4>1. addr[c[u]] # addr[c[t]] /\ c[u] # c[t]
        BY <3>1, <3>3 DEF Sole, AloneInv, HandInv
      <4>2. pc[u] \in {"drop", "relock"} => srvAddr[at[u]] = addr[c[u]] /\ at[u] \in Ids
        BY DEF ScanInv
      <4>3. \A j \in Ids : srvAddr[j] = addr[c[u]] =>
                             srvSock'[j] = srvSock[j] /\ srvAddr'[j] = srvAddr[j]
        <5>1. addr[c[u]] # None
          BY <3>1 DEF HandInv, Sole
        <5> QED
          BY <5>1
      <4>4. \A j \in Ids : /\ srvSock'[j] = c[u] => srvSock[j] = c[u]
                           /\ srvAddr'[j] = addr[c[u]] => srvAddr[j] = addr[c[u]]
        BY <4>1, SMTT(20)
      <4>5. /\ pc'[u] = pc[u] /\ c'[u] = c[u] /\ at'[u] = at[u] /\ id'[u] = id[u]
            /\ old'[u] = old[u] /\ UNCHANGED <<open, deleted, addr>>
        BY <3>3
      <4>6. addr'[c'[u]] = addr[c[u]] /\ id[u] \in Ids
        BY <4>5
      <4> HIDE <1>8, <1>t, <1>o, <2>e DEF Ids, PCs, TypeOK
      <4> USE <3>1, <4>5, <4>6
      <4>7. c'[u] \in open' \ deleted' /\ (pc'[u] = "drop" => old'[u] # c'[u])
        BY DEF Kept
      <4>8. pc'[u] \in {"lock", "scan"} => \A j \in Ids : srvSock'[j] = c'[u] => j < at'[u]
        BY <4>4 DEF Kept
      <4>9. pc'[u] = "scan" =>
              \A j \in Ids : j < at'[u] /\ srvAddr'[j] = addr'[c'[u]] => srvSock'[j] = c'[u]
        BY <4>3, <4>4 DEF Kept
      <4>10. pc'[u] \in {"drop", "relock"} =>
               srvSock'[at'[u]] = None /\ \A j \in Ids : srvSock'[j] # c'[u]
        BY <4>2, <4>3, <4>4 DEF Kept
      <4>11. /\ pc'[u] \in {"insert", "init", "read"} => id'[u] # 0
             /\ pc'[u] \in {"registered", "insert", "init", "read"} /\ id'[u] # 0 =>
                  srvAddr'[id'[u]] = addr'[c'[u]] /\ srvSock'[id'[u]] = c'[u]
        BY <4>3 DEF Kept
      <4> QED
        BY <4>7, <4>8, <4>9, <4>10, <4>11 DEF Kept
    <3> QED
      BY <3>2, <3>3
  <2> QED
    BY <2>1, <2>2
<1>9. ASSUME NEW t \in Workers, Refuse(t) PROVE AloneInv' /\ KeepInv'
  <2> USE <1>9 DEF Refuse, Done, Use, lock
  <2>1. AloneInv'
    BY DEF AloneInv
  <2>2. KeepInv'
    BY DEF KeepInv, HandInv, Kept, Sole
  <2> QED
    BY <2>1, <2>2
<1>10. ASSUME NEW t \in Workers, Register(t) PROVE AloneInv' /\ KeepInv'
  <2> USE <1>10 DEF Register, Use, lock
  <2>1. AloneInv'
    BY DEF AloneInv
  <2>2. KeepInv'
    BY DEF KeepInv, HandInv, Kept, Sole
  <2> QED
    BY <2>1, <2>2
<1>11. ASSUME NEW t \in Workers, Insert(t) PROVE AloneInv' /\ KeepInv'
  <2> USE <1>11 DEF Insert, lock, objects
  <2>1. AloneInv'
    BY DEF AloneInv
  <2>2. KeepInv'
    BY DEF KeepInv, HandInv, Kept, Sole
  <2> QED
    BY <2>1, <2>2
<1>12. ASSUME NEW t \in Workers, Initialize(t) PROVE AloneInv' /\ KeepInv'
  <2>a. CASE c[t] \in deleted
    <3>e. /\ pc[t] = "init" /\ Done(t)
          /\ UNCHANGED <<lock, list, socketmap, objects, overlap>>
      BY <1>12, <2>a DEF Initialize, objects
    <3> USE <3>e DEF Done, objects
    <3>1. AloneInv'
      BY DEF AloneInv
    <3>2. KeepInv'
      BY DEF KeepInv, Kept, Sole
    <3> QED
      BY <3>1, <3>2
  <2>b. CASE c[t] \notin deleted
    <3>e. /\ pc[t] = "init" /\ Goto(t, "read")
          /\ UNCHANGED <<list, addr, open, deleted, overlap, c, id, at, old>>
      BY <1>12, <2>b DEF Initialize, AddRef
    <3> USE <3>e
    <3>1. AloneInv'
      BY DEF AloneInv
    <3>2. KeepInv'
      BY DEF KeepInv, Kept, Sole
    <3> QED
      BY <3>1, <3>2
  <2> QED
    BY <2>a, <2>b
<1>13. ASSUME NEW t \in Workers, Read(t) PROVE AloneInv' /\ KeepInv'
  <2> USE <1>13 DEF Read, Done, Release, lock
  <2>1. AloneInv'
    BY DEF AloneInv
  <2>2. KeepInv'
    BY DEF KeepInv, HandInv, Kept, Sole
  <2> QED
    BY <2>1, <2>2
<1>14. CASE ReadLock
  <2> USE <1>14 DEF ReadLock, objects, Lock!AcquireRead
  <2>1. AloneInv'
    BY DEF AloneInv
  <2>2. KeepInv'
    BY DEF KeepInv, Kept, Sole
  <2> QED
    BY <2>1, <2>2
<1>15. CASE SendSocket
  <2>1. UNCHANGED <<list, addr, open, overlap, id, old>> /\ \A t \in Workers : at'[t] = at[t]
    BY <1>15 DEF SendSocket
  <2>2. UNCHANGED deleted /\ \A t \in Workers : pc'[t] = pc[t] /\ c'[t] = c[t]
    BY <1>15 DEF SendSocket, AddRef
  <2>3. \A t \in Workers : id'[t] = id[t] /\ old'[t] = old[t]
    BY <2>1
  <2>4. AloneInv'
    BY <2>1, <2>2 DEF AloneInv
  <2>5. KeepInv'
    BY <2>1, <2>2, <2>3 DEF KeepInv, Kept, Sole
  <2> QED
    BY <2>4, <2>5
<1>16. CASE EndSend
  <2> USE <1>16 DEF EndSend, Release, lock
  <2>1. AloneInv'
    BY DEF AloneInv
  <2>2. KeepInv'
    <3>1. open \ deleted' = open \ deleted
      BY StillOpen
    <3> QED
      BY <3>1 DEF KeepInv, Kept, Sole
  <2> QED
    BY <2>1, <2>2
<1>17. CASE ReadUnlock
  <2> USE <1>17 DEF ReadUnlock, Done, objects, Lock!ReleaseRead
  <2>1. AloneInv'
    BY DEF AloneInv
  <2>2. KeepInv'
    BY DEF KeepInv, Kept, Sole
  <2> QED
    BY <2>1, <2>2
<1>18. CASE UNCHANGED vars
  BY <1>18 DEF vars, objects, AloneInv, KeepInv, Kept, Sole
<1>19. CASE UpdateDBLock \/ UpdateDBUnlock
  BY <1>19 DEF UpdateDBLock, UpdateDBUnlock, allButLock, objects, AloneInv, KeepInv, Kept, Sole
<1> QED
  BY <1>1, <1>2, <1>3, <1>4, <1>5, <1>6, <1>7, <1>8, <1>9, <1>10, <1>11, <1>12, <1>13,
     <1>14, <1>15, <1>16, <1>17, <1>18, <1>19 DEF Next

\* a step that leaves what the threads hold of a connection, and the list
LEMMA SameCover ==
  ASSUME NEW x, Covered(x), UNCHANGED srvSock,
         \A u \in Workers : /\ c'[u] = c[u] \/ c[u] # x
                            /\ pc[u] = "drop" /\ old[u] = x => pc'[u] = "drop" /\ old'[u] = x
  PROVE  Covered(x)'
  BY DEF Covered

\* An open connection leaves the hands of a thread, or an entry, only for another place.
LEMMA NextCoverInv == SInv /\ SInv' /\ OneInv /\ [Next]_vars => CoverInv'
<1> SUFFICES ASSUME SInv, SInv', OneInv, [Next]_vars,
                    ~specifiesId', NEW x \in open' \ deleted', addr'[x] \notin overlap'
             PROVE  Covered(x)'
  BY DEF CoverInv
<1>c. CASE Covered(x) /\ ~specifiesId /\ x \in open \ deleted /\ addr[x] \notin overlap
  <2> USE <1>c, WorldAssumption DEF SInv, TypeOK, Threads, PCs, Ids, Goto, At, Entries
  <2>0. x \in Conns
    OBVIOUS
  <2>1. ASSUME NEW t \in Workers, Accept(t) PROVE Covered(x)'
    <3>1. c[t] # x
      BY <2>1 DEF Accept, HandInv
    <3> QED
      BY <2>1, <3>1, SameCover DEF Accept, list
  <2>2. ASSUME NEW t \in Workers, WriteLock(t) PROVE Covered(x)'
    BY <2>2, SameCover DEF WriteLock, list
  <2>3. ASSUME NEW t \in Workers, Relock(t) PROVE Covered(x)'
    <3>1. at[t] \in Ids /\ srvAddr[at[t]] = addr[c[t]] /\ c[t] \in Conns
      BY <2>3 DEF Relock, ScanInv, HandInv
    <3>2. srvSock[at[t]] # x
      <4> SUFFICES ASSUME srvSock[at[t]] = x PROVE FALSE
        OBVIOUS
      <4>1. Sole(t)
        BY <2>0, <3>1 DEF EntryInv, Sole
      <4> QED
        BY <2>0, <2>3, <4>1 DEF Relock, OneInv, KeepInv, Kept
    <3> QED
      BY <2>3, <3>1, <3>2 DEF Relock, Assign, Covered
  <2>4. ASSUME NEW t \in Workers, Disconnect(t) PROVE Covered(x)'
    BY <2>4, SameCover DEF Disconnect, list
  <2>5. ASSUME NEW t \in Workers, ScanFree(t) PROVE Covered(x)'
    <3>1. PICK i \in Ids : ScanFreeAt(t, i)
      BY <2>5, ScanSteps
    <3>2. srvSock[i] # x
      BY <2>0, <3>1 DEF ScanFreeAt
    <3> QED
      BY <3>1, <3>2 DEF ScanFreeAt, Assign, Covered
  <2>6. ASSUME NEW t \in Workers, ScanTaken(t) PROVE Covered(x)'
    <3>1. PICK i \in Ids : ScanTakenAt(t, i)
      BY <2>6, ScanSteps
    <3>2. pc'[t] = "drop" /\ old'[t] = srvSock[i]
      BY <3>1 DEF ScanTakenAt
    <3> QED
      BY <3>1, <3>2 DEF ScanTakenAt, Covered
  <2>7. ASSUME NEW t \in Workers, Drop(t) PROVE Covered(x)'
    <3>1. old[t] # x
      BY <2>7 DEF Drop
    <3> QED
      BY <2>7, <3>1, SameCover DEF Drop, list
  <2>8. ASSUME NEW t \in Workers, ScanEnd(t) PROVE Covered(x)'
    <3>1. PICK f \in Ids : ScanEndAt(t, f)
      BY <2>8, ScanSteps
    <3>2. f \notin Entries => srvSock[f] # x
      BY <2>0 DEF EntryInv
    <3> QED
      BY <3>1, <3>2 DEF ScanEndAt, Covered, list
  <2>9. ASSUME NEW t \in Workers, Refuse(t) PROVE Covered(x)'
    <3>1. c[t] # x
      BY <2>9 DEF Refuse
    <3> QED
      BY <2>9, <3>1, SameCover DEF Refuse, Done, list
  <2>10. ASSUME NEW t \in Workers, Register(t) PROVE Covered(x)'
    BY <2>10, SameCover DEF Register, list
  <2>11. ASSUME NEW t \in Workers, Insert(t) PROVE Covered(x)'
    BY <2>11, SameCover DEF Insert, list
  <2>12. ASSUME NEW t \in Workers, Initialize(t) PROVE Covered(x)'
    <3>1. CASE c[t] \in deleted
      <4>1. Done(t) /\ UNCHANGED srvSock /\ c[t] # x /\ pc[t] = "init"
        BY <2>12, <3>1 DEF Initialize, list
      <4> QED
        BY <4>1, SameCover DEF Done
    <3>2. CASE c[t] \notin deleted
      BY <2>12, <3>2, SameCover DEF Initialize, list
    <3> QED
      BY <3>1, <3>2
  <2>13. ASSUME NEW t \in Workers, Read(t) PROVE Covered(x)'
    <3>1. CASE c[t] = x
      <4>1. Sole(t)
        BY <2>0, <3>1 DEF Sole
      <4>2. id[t] \in Ids /\ srvSock[id[t]] = x
        BY <2>13, <3>1, <4>1 DEF Read, OneInv, KeepInv, Kept
      <4> QED
        BY <2>13, <4>2 DEF Read, list, Covered
    <3>2. CASE c[t] # x
      BY <2>13, <3>2, SameCover DEF Read, Done, list
    <3> QED
      BY <3>1, <3>2
  <2>14. CASE ReadLock
    BY <2>14, SameCover DEF ReadLock, list
  <2>15. CASE SendSocket
    <3>1. UNCHANGED <<srvSock, old>> /\ \A u \in Workers : pc'[u] = pc[u] /\ c'[u] = c[u]
      BY <2>15 DEF SendSocket, list
    <3> QED
      BY <3>1, SameCover
  <2>16. CASE EndSend
    BY <2>16, SameCover DEF EndSend, list
  <2>17. CASE ReadUnlock
    <3>1. /\ UNCHANGED srvSock
          /\ \A u \in Workers : pc'[u] = pc[u] /\ c'[u] = c[u] /\ old'[u] = old[u]
      BY <2>17 DEF ReadUnlock, Done, list
    <3> QED
      BY <3>1, SameCover
  <2>18. CASE UNCHANGED vars
    BY <2>18, SameCover DEF vars, list
  <2>19. CASE UpdateDBLock \/ UpdateDBUnlock
    BY <2>19, SameCover DEF UpdateDBLock, UpdateDBUnlock, allButLock, list
  <2> QED
    BY <2>1, <2>2, <2>3, <2>4, <2>5, <2>6, <2>7, <2>8, <2>9, <2>10, <2>11, <2>12, <2>13,
       <2>14, <2>15, <2>16, <2>17, <2>18, <2>19 DEF Next
<1>n. CASE \E t \in Workers : c'[t] = x
  BY <1>n DEF Covered
<1>o. CASE x \in open /\ x \notin deleted /\ addr[x] \notin overlap
  <2>1. UNCHANGED specifiesId
    BY DEF Next, vars, Accept, WriteLock, Relock, Disconnect, ScanFree, ScanTaken, Drop,
           ScanEnd, Refuse, Register, Insert, Initialize, Read, ReadLock, SendSocket, EndSend,
           ReadUnlock, UpdateDBLock, UpdateDBUnlock, allButLock, config
  <2> QED
    BY <1>c, <1>o, <2>1 DEF OneInv, CoverInv
<1>q. \/ \E t \in Workers : c'[t] = x
      \/ x \in open /\ x \notin deleted /\ addr[x] \notin overlap
  <2>1. CASE \E t \in Workers : Accept(t)
    <3>1. PICK t \in Workers, y \in Conns, a \in Addrs :
            /\ addr[y] = None /\ addr' = [addr EXCEPT ![y] = a]
            /\ open' = open \cup {y} /\ c' = [c EXCEPT ![t] = y] /\ UNCHANGED deleted
            /\ overlap \subseteq overlap'
      BY <2>1 DEF Accept
    <3> QED
      BY <3>1 DEF SInv, TypeOK, Threads
  <2>2. CASE ~\E t \in Workers : Accept(t)
    <3>1. UNCHANGED <<addr, overlap>>
      BY <2>2 DEF Next, vars, WriteLock, Relock, Disconnect, ScanFree, ScanTaken, Drop,
           ScanEnd, Refuse, Register, Insert, Initialize, Read, ReadLock, SendSocket, EndSend,
           ReadUnlock, UpdateDBLock, UpdateDBUnlock, allButLock, objects
    <3>2. open' \subseteq open
      BY <2>2 DEF Next, vars, WriteLock, Relock, Disconnect, ScanFree, ScanTaken, Drop,
           ScanEnd, Refuse, Register, Insert, Initialize, Read, ReadLock, SendSocket, EndSend,
           ReadUnlock, UpdateDBLock, UpdateDBUnlock, allButLock, objects
    <3>3. deleted \subseteq deleted'
      BY <2>2 DEF Next, vars, WriteLock, Relock, Disconnect, ScanFree, ScanTaken, Drop,
           ScanEnd, Refuse, Register, Insert, Initialize, Read, ReadLock, SendSocket, EndSend,
           ReadUnlock, UpdateDBLock, UpdateDBUnlock, allButLock, objects, Release, AddRef
    <3> QED
      BY <3>1, <3>2, <3>3
  <2> QED
    BY <2>1, <2>2
<1> QED
  BY <1>n, <1>o, <1>q

-----------------------------------------------------------------------------
(* The theorems *)

\* The server starts with nothing.
LEMMA InitIInv == Init => IInv
<1> SUFFICES ASSUME Init PROVE IInv
  OBVIOUS
<1> USE WorldAssumption
    DEF Init, Threads, PCs, Ids, Entries, CreatePCs, EarlyPCs, Lock!Init
<1>1. TypeOK
  <2>1. 0 \in Ids /\ 0 \in 0..IdRange
    OBVIOUS
  <2>2. /\ serverid \in [Conns -> Ids] /\ id \in [Threads -> Ids]
        /\ at \in [Threads -> 0..IdRange] /\ refs \in [Conns -> Nat]
    BY <2>1
  <2>3. /\ srvAddr \in [Ids -> Addrs \cup {None}] /\ srvSock \in [Ids -> Conns \cup {None}]
        /\ socketmap \in [Addrs -> Conns \cup {None}] /\ addr \in [Conns -> Addrs \cup {None}]
    OBVIOUS
  <2>4. /\ pc \in [Threads -> PCs] /\ c \in [Threads -> Conns \cup {None}]
        /\ old \in [Threads -> Conns \cup {None}]
    OBVIOUS
  <2>5. /\ readers \subseteq {UI, Timer} /\ writers \subseteq Workers /\ open \subseteq Conns
        /\ deleted \subseteq Conns /\ io \subseteq Conns /\ crashed \in BOOLEAN
        /\ overlap \subseteq Addrs
    OBVIOUS
  <2> QED
    BY <2>2, <2>3, <2>4, <2>5 DEF TypeOK
<1>2. HandInv /\ FreshInv /\ LockInv
  BY DEF HandInv, FreshInv, LockInv
<1>3. EntryInv /\ WrapInv /\ OneEntryPerAddress /\ EntryHasConnection /\ IdNamesServer
  BY DEF EntryInv, WrapInv, OneEntryPerAddress, EntryHasConnection, IdNamesServer
<1>4. ScanInv /\ EarlyInv
  BY DEF ScanInv, EarlyInv
<1>5. RefInv
  BY DEF RefInv, Reading, Sending, B2N
<1>6. OneInv
  BY DEF OneInv, AloneInv, KeepInv, Sole, CoverInv
<1> QED
  BY <1>1, <1>2, <1>3, <1>4, <1>5, <1>6 DEF IInv, SInv

\* The inductive invariant, for any number of threads, connections and ids.
THEOREM Invariance == Spec => []IInv
<1>1. IInv /\ [Next]_vars => IInv'
  <2> SUFFICES ASSUME IInv, [Next]_vars PROVE IInv'
    OBVIOUS
  <2>1. SInv'
    BY NextSInv DEF IInv
  <2> QED
    BY <2>1, NextAloneKeep, NextCoverInv DEF IInv, OneInv
<1> QED
  BY InitIInv, <1>1, PTL DEF Spec

\* The types, with reference counts that never fall below zero.
THEOREM TypeOKHolds == Spec => []TypeOK
<1>1. IInv => TypeOK
  BY DEF IInv, SInv
<1> QED
  BY Invariance, <1>1, PTL

\* A server has one entry in the list, although the lock is given up in the scan for it
\* and the ids wrap (CServerList::SetServerSocketByAddress).
THEOREM OneEntryPerAddressHolds == Spec => []OneEntryPerAddress
<1>1. IInv => OneEntryPerAddress
  BY DEF IInv, SInv
<1> QED
  BY Invariance, <1>1, PTL

\* The id that a connection was given is the one of the entry of its server.
THEOREM IdNamesServerHolds == Spec => []IdNamesServer
<1>1. IInv => IdNamesServer
  BY DEF IInv, SInv
<1> QED
  BY Invariance, <1>1, PTL

\* An entry has a connection from its own address unless the first one is being dropped.
THEOREM EntryHasConnectionHolds == Spec => []EntryHasConnection
<1>1. IInv => EntryHasConnection
  BY DEF IInv, SInv
<1> QED
  BY Invariance, <1>1, PTL

\* While the accepts from an address do not overlap, the list keeps all the connections
\* from it, and its one entry has room for one.
THEOREM ServerHasOneConnectionHolds == Spec => []ServerHasOneConnection
<1>1. IInv => ServerHasOneConnection
  <2> SUFFICES ASSUME IInv, ~specifiesId, NEW a \in Addrs \ overlap
               PROVE  /\ Creating(a) = {} => Cardinality(Connected(a)) <= 1
                      /\ \A t \in Creating(a) : c[t] \notin deleted
    BY DEF ServerHasOneConnection
  <2> USE DEF IInv, SInv, OneInv
  <2>1. \A t \in Creating(a) : c[t] \notin deleted
    BY DEF Creating, KeepInv, Sole, Kept
  <2>2. ASSUME Creating(a) = {} PROVE Cardinality(Connected(a)) <= 1
    <3>1. \A x \in Connected(a) : \E i \in Ids : srvSock[i] = x /\ srvAddr[i] = a /\ i \in Entries
      <4> SUFFICES ASSUME NEW x \in Connected(a)
                   PROVE  \E i \in Ids : srvSock[i] = x /\ srvAddr[i] = a /\ i \in Entries
        OBVIOUS
      <4>1. x \in Conns /\ x \in open \ deleted /\ addr[x] = a /\ a # None /\ x # None
        BY WorldAssumption DEF Connected, TypeOK
      <4>2. \A t \in Workers : c[t] # x
        BY <2>2, <4>1 DEF Creating
      <4>3. \A t \in Workers : pc[t] = "drop" => old[t] # x
        <5> SUFFICES ASSUME NEW t \in Workers, pc[t] = "drop", old[t] = x PROVE FALSE
          OBVIOUS
        <5>1. addr[c[t]] = a /\ c[t] # None
          BY <4>1 DEF ScanInv, HandInv, CreatePCs, EarlyPCs
        <5> QED
          BY <2>2, <5>1 DEF Creating
      <4>4. PICK i \in Ids : srvSock[i] = x
        BY <4>1, <4>2, <4>3 DEF CoverInv, Covered
      <4> QED
        BY <4>1, <4>4 DEF EntryInv, Entries
    <3>2. \A x, y \in Connected(a) : x = y
      BY <3>1 DEF OneEntryPerAddress
    <3>3. CASE Connected(a) = {}
      BY <3>3, FS_EmptySet
    <3>4. CASE Connected(a) # {}
      <4>1. PICK x : Connected(a) = {x}
        BY <3>2, <3>4
      <4> QED
        BY <4>1, FS_Singleton
    <3> QED
      BY <3>3, <3>4
  <2> QED
    BY <2>1, <2>2
<1> QED
  BY Invariance, <1>1, PTL
=============================================================================
