---------------------------- MODULE RWLockProofs ----------------------------
(***************************************************************************)
(* Proofs about RWLock for any finite set of threads.                      *)
(***************************************************************************)
EXTENDS RWLock, FiniteSetTheorems, TLAPS

\* the threads ReadLock has counted and ReadUnlock has not yet uncounted
Counted == {t \in Threads : pc[t] \in {"r_wait", "r_leave", "reading", "ru_enter"}}

\* the counted threads that need not wait for the semaphore any more
Holding == {t \in Threads : pc[t] \in {"r_leave", "reading", "ru_enter"}}

CountInv == readerCount = Cardinality(Counted)

MutexInv ==
  \A t \in Threads : pc[t] \in {"r_wait", "r_leave", "ru_leave"} <=> mutex = t

WaitInv == \A t \in Threads : pc[t] = "r_wait" => Holding = {}

ExclusionInv ==
  /\ \A t, u \in Writers : t = u
  /\ Writers # {} => Holding = {}

SemaphoreInv == dataLock = 0 <=> (Writers # {} \/ Holding # {})

(***************************************************************************)
(* Mutual exclusion alone is not inductive: that a second reader may enter *)
(* without looking at the semaphore rests on what the count counts, on who *)
(* holds the mutex while the first reader waits, and on when the semaphore *)
(* is taken.                                                               *)
(***************************************************************************)
IInv == /\ TypeOK /\ CountInv /\ MutexInv /\ WaitInv /\ ExclusionInv /\ SemaphoreInv

-----------------------------------------------------------------------------
\* The number of counted threads when one comes or goes.
LEMMA CountedCardinality ==
  /\ IsFiniteSet(Counted)
  /\ Cardinality(Counted) \in Nat
  /\ Cardinality(Counted) = 0 <=> Counted = {}
<1>1. IsFiniteSet(Counted)
  BY ThreadsAssumption, FS_Subset DEF Counted
<1> QED
  BY <1>1, FS_CardinalityType, FS_EmptySet

LEMMA CountedAdd ==
  ASSUME NEW t \in Threads, t \notin Counted, Counted' = Counted \cup {t}
  PROVE  Cardinality(Counted') = Cardinality(Counted) + 1
BY CountedCardinality, FS_AddElement

LEMMA CountedRemove ==
  ASSUME NEW t \in Threads, t \in Counted, Counted' = Counted \ {t}
  PROVE  /\ Cardinality(Counted') = Cardinality(Counted) - 1
         /\ Cardinality(Counted') = 0 <=> Counted' = {}
BY CountedCardinality, FS_RemoveElement, FS_EmptySet, FS_Subset

-----------------------------------------------------------------------------
LEMMA InitIInv == Init => IInv
<1> SUFFICES ASSUME Init PROVE IInv
  OBVIOUS
<1>1. Counted = {} /\ Holding = {} /\ Writers = {}
  BY DEF Init, Counted, Holding, Writers
<1>2. CountInv
  BY <1>1, FS_EmptySet DEF Init, CountInv
<1>3. TypeOK
  BY DEF Init, TypeOK, PCs
<1>4. MutexInv /\ WaitInv
  BY ThreadsAssumption DEF Init, MutexInv, WaitInv
<1>5. ExclusionInv /\ SemaphoreInv
  BY <1>1 DEF Init, ExclusionInv, SemaphoreInv
<1> QED
  BY <1>2, <1>3, <1>4, <1>5 DEF IInv

LEMMA NextIInv == IInv /\ [Next]_vars => IInv'
<1> SUFFICES ASSUME IInv, [Next]_vars PROVE IInv'
  OBVIOUS
<1> USE ThreadsAssumption DEF IInv, Goto
<1>t. TypeOK'
  BY DEF TypeOK, PCs, vars, Next, CallReadLock, CallReadUnlock, CallWriteLock,
         CallWriteUnlock, ReadEnter, ReadWait, ReadLeave, ReadUnlockEnter,
         ReadUnlockLeave, WriteWait, WriteTryLock, WriteRelease, ReleaseSemaphore
<1>1. ASSUME NEW t \in Threads,
             CallReadLock(t) \/ CallReadUnlock(t) \/ CallWriteLock(t) \/ CallWriteUnlock(t)
      PROVE  IInv'
  <2>1. Counted' = Counted /\ Holding' = Holding /\ Writers' = Writers
    BY <1>1 DEF TypeOK, Counted, Holding, Writers, CallReadLock, CallReadUnlock,
                CallWriteLock, CallWriteUnlock
  <2>2. CountInv' /\ ExclusionInv' /\ SemaphoreInv'
    BY <1>1, <2>1 DEF CountInv, ExclusionInv, SemaphoreInv, CallReadLock,
                CallReadUnlock, CallWriteLock, CallWriteUnlock
  <2>3. MutexInv' /\ WaitInv'
    BY <1>1, <2>1 DEF TypeOK, MutexInv, WaitInv, CallReadLock, CallReadUnlock,
                CallWriteLock, CallWriteUnlock
  <2> QED
    BY <1>t, <2>2, <2>3
<1>2. ASSUME NEW t \in Threads, ReadEnter(t) PROVE IInv'
  <2>1. t \notin Counted /\ Counted' = Counted \cup {t} /\ Writers' = Writers
    BY <1>2 DEF TypeOK, Counted, Writers, ReadEnter
  <2>2. CountInv'
    BY <1>2, <2>1, CountedAdd, CountedCardinality DEF CountInv, ReadEnter
  <2>3. MutexInv'
    BY <1>2 DEF TypeOK, MutexInv, ReadEnter
  <2>4. CASE readerCount = 0
    <3>1. Counted = {} /\ Holding = {}
      BY <2>4, CountedCardinality DEF CountInv, Counted, Holding
    <3>2. Holding' = Holding
      BY <1>2, <2>4, <3>1 DEF TypeOK, Holding, Counted, ReadEnter
    <3> QED
      BY <1>2, <1>t, <2>1, <2>2, <2>3, <3>1, <3>2
         DEF WaitInv, ExclusionInv, SemaphoreInv, ReadEnter
  <2>5. CASE readerCount # 0
    <3>1. \E u \in Threads : u \in Counted
      BY <2>5, CountedCardinality DEF CountInv, Counted
    <3>2. \A u \in Threads : pc[u] # "r_wait"
      BY <1>2 DEF MutexInv, ReadEnter
    <3>3. Holding # {}
      BY <3>1, <3>2 DEF Counted, Holding
    <3>4. Holding' = Holding \cup {t} /\ \A u \in Threads : pc'[u] # "r_wait"
      BY <1>2, <2>5, <3>2 DEF TypeOK, Holding, ReadEnter
    <3> QED
      BY <1>2, <1>t, <2>1, <2>2, <2>3, <3>3, <3>4
         DEF WaitInv, ExclusionInv, SemaphoreInv, ReadEnter
  <2> QED
    BY <2>4, <2>5
<1>3. ASSUME NEW t \in Threads, ReadWait(t) PROVE IInv'
  <2>1. Counted' = Counted /\ Writers' = Writers /\ Holding' = Holding \cup {t}
    BY <1>3 DEF TypeOK, Counted, Writers, Holding, ReadWait
  <2>2. CountInv' /\ MutexInv'
    BY <1>3, <2>1 DEF TypeOK, CountInv, MutexInv, ReadWait
  <2>3. Writers = {}
    BY <1>3 DEF TypeOK, SemaphoreInv, ReadWait
  <2>4. \A u \in Threads : pc'[u] # "r_wait"
    BY <1>3 DEF TypeOK, MutexInv, ReadWait
  <2>5. dataLock' = 0
    BY <1>3 DEF TypeOK, ReadWait
  <2> QED
    BY <1>t, <2>1, <2>2, <2>3, <2>4, <2>5 DEF WaitInv, ExclusionInv, SemaphoreInv
<1>4. ASSUME NEW t \in Threads, ReadLeave(t) PROVE IInv'
  <2>1. Counted' = Counted /\ Writers' = Writers /\ Holding' = Holding
    BY <1>4 DEF TypeOK, Counted, Writers, Holding, ReadLeave
  <2>2. MutexInv'
    BY <1>4 DEF TypeOK, MutexInv, ReadLeave
  <2> QED
    BY <1>4, <1>t, <2>1, <2>2
       DEF TypeOK, CountInv, WaitInv, ExclusionInv, SemaphoreInv, ReadLeave
<1>5. ASSUME NEW t \in Threads, ReadUnlockEnter(t) PROVE IInv'
  <2>1. /\ t \in Counted /\ Counted' = Counted \ {t} /\ Writers' = Writers
        /\ t \in Holding /\ Holding' = Holding \ {t}
    BY <1>5 DEF TypeOK, Counted, Writers, Holding, ReadUnlockEnter
  <2>2. CountInv'
    BY <1>5, <2>1, CountedRemove, CountedCardinality DEF CountInv, ReadUnlockEnter
  <2>3. MutexInv'
    BY <1>5 DEF TypeOK, MutexInv, ReadUnlockEnter
  <2>4. \A u \in Threads : pc[u] # "r_wait" /\ pc'[u] # "r_wait"
    BY <1>5 DEF TypeOK, MutexInv, ReadUnlockEnter
  <2>5. Holding' = Counted'
    BY <2>1, <2>4 DEF Holding, Counted
  <2>6. readerCount' = 0 <=> Holding' = {}
    BY <2>1, <2>2, <2>5, CountedRemove DEF CountInv
  <2>7. dataLock = 0 /\ Writers = {}
    BY <2>1 DEF SemaphoreInv, ExclusionInv
  <2>8. SemaphoreInv'
    BY <1>5, <2>1, <2>6, <2>7 DEF SemaphoreInv, ReadUnlockEnter, ReleaseSemaphore
  <2> QED
    BY <1>t, <2>1, <2>2, <2>3, <2>4, <2>7, <2>8 DEF WaitInv, ExclusionInv
<1>6. ASSUME NEW t \in Threads, ReadUnlockLeave(t) PROVE IInv'
  <2>1. Counted' = Counted /\ Writers' = Writers /\ Holding' = Holding
    BY <1>6 DEF TypeOK, Counted, Writers, Holding, ReadUnlockLeave
  <2>2. MutexInv'
    BY <1>6 DEF TypeOK, MutexInv, ReadUnlockLeave
  <2> QED
    BY <1>6, <1>t, <2>1, <2>2
       DEF TypeOK, CountInv, WaitInv, ExclusionInv, SemaphoreInv, ReadUnlockLeave
<1>7. ASSUME NEW t \in Threads, WriteWait(t) \/ WriteTryLock(t) PROVE IInv'
  <2>1. Counted' = Counted /\ Holding' = Holding /\ Writers' = Writers \cup {t}
    BY <1>7 DEF TypeOK, Counted, Writers, Holding, WriteWait, WriteTryLock
  <2>2. Writers = {} /\ Holding = {} /\ dataLock' = 0
    BY <1>7 DEF TypeOK, SemaphoreInv, WriteWait, WriteTryLock
  <2>3. MutexInv'
    BY <1>7 DEF TypeOK, MutexInv, WriteWait, WriteTryLock
  <2> QED
    BY <1>7, <1>t, <2>1, <2>2, <2>3
       DEF CountInv, WaitInv, ExclusionInv, SemaphoreInv, WriteWait, WriteTryLock
<1>8. ASSUME NEW t \in Threads, WriteRelease(t) PROVE IInv'
  <2>1. /\ Counted' = Counted /\ Holding' = Holding
        /\ t \in Writers /\ Writers' = Writers \ {t}
    BY <1>8 DEF TypeOK, Counted, Writers, Holding, WriteRelease
  <2>2. Writers' = {} /\ Holding = {} /\ dataLock' = 1
    BY <1>8, <2>1 DEF ExclusionInv, SemaphoreInv, WriteRelease, ReleaseSemaphore
  <2>3. MutexInv'
    BY <1>8 DEF TypeOK, MutexInv, WriteRelease
  <2> QED
    BY <1>8, <1>t, <2>1, <2>2, <2>3
       DEF CountInv, WaitInv, ExclusionInv, SemaphoreInv, WriteRelease
<1>9. CASE UNCHANGED vars
  <2>1. Counted' = Counted /\ Writers' = Writers /\ Holding' = Holding
    BY <1>9 DEF vars, Counted, Writers, Holding
  <2> QED
    BY <1>9, <1>t, <2>1
       DEF vars, CountInv, MutexInv, WaitInv, ExclusionInv, SemaphoreInv
<1> QED
  BY <1>1, <1>2, <1>3, <1>4, <1>5, <1>6, <1>7, <1>8, <1>9 DEF Next

\* IInv holds in every state CRWLock can reach.
THEOREM Invariance == Spec => []IInv
BY InitIInv, NextIInv, PTL DEF Spec

-----------------------------------------------------------------------------
\* No writer runs beside a reader or another writer, whatever the number of
\* threads (CRWLock, Lock.cpp:112-149).
THEOREM MutualExclusionHolds == Spec => []MutualExclusion
<1>1. IInv => MutualExclusion
  BY DEF IInv, ExclusionInv, MutualExclusion, Holding, Readers
<1> QED
  BY <1>1, Invariance, PTL

\* Both ReleaseSemaphore calls find the semaphore taken (Lock.cpp:128, 146).
THEOREM NoOverReleaseHolds == Spec => []NoOverRelease
<1>1. IInv => NoOverRelease
  BY DEF IInv, SemaphoreInv, NoOverRelease, Holding, Writers
<1> QED
  BY <1>1, Invariance, PTL

\* A waiting first reader holds the mutex and nobody is reading (Lock.cpp:112-121).
THEOREM WaitingReaderHolds == Spec => []WaitingReaderBlocksNoReader
<1>1. IInv => WaitingReaderBlocksNoReader
  BY DEF IInv, WaitInv, MutexInv, WaitingReaderBlocksNoReader, Holding, Readers
<1> QED
  BY <1>1, Invariance, PTL

-----------------------------------------------------------------------------
\* CRWLock implements the abstract readers-writer lock: every step of it is an
\* acquisition, a release or invisible.
LEMMA StepRefines == IInv /\ [Next]_vars => [Abstract!Next]_(Abstract!vars)
<1> SUFFICES ASSUME IInv, [Next]_vars PROVE [Abstract!Next]_(Abstract!vars)
  OBVIOUS
<1> USE DEF Goto
<1>1. ASSUME NEW t \in Threads,
             CallReadLock(t) \/ CallReadUnlock(t) \/ CallWriteLock(t) \/ CallWriteUnlock(t)
             \/ ReadLeave(t) \/ ReadUnlockLeave(t)
      PROVE  Holding' = Holding /\ Writers' = Writers
  BY <1>1 DEF IInv, TypeOK, Holding, Writers, CallReadLock, CallReadUnlock, CallWriteLock,
              CallWriteUnlock, ReadLeave, ReadUnlockLeave
<1>2. ASSUME NEW t \in Threads, ReadEnter(t)
      PROVE  \/ Holding' = Holding /\ Writers' = Writers
             \/ /\ t \notin Holding /\ Writers = {}
                /\ Holding' = Holding \cup {t} /\ Writers' = Writers
  <2>1. t \notin Holding /\ Writers' = Writers
    BY <1>2 DEF IInv, TypeOK, Holding, Writers, ReadEnter
  <2>2. CASE readerCount = 0
    BY <1>2, <2>1, <2>2 DEF IInv, TypeOK, Holding, ReadEnter
  <2>3. CASE readerCount # 0
    <3>1. \E u \in Threads : u \in Counted
      BY <2>3, CountedCardinality DEF IInv, CountInv, Counted
    <3>2. \A u \in Threads : pc[u] # "r_wait"
      BY <1>2, ThreadsAssumption DEF IInv, MutexInv, ReadEnter
    <3>3. Writers = {}
      BY <3>1, <3>2 DEF IInv, ExclusionInv, Counted, Holding
    <3>4. Holding' = Holding \cup {t}
      BY <1>2, <2>3 DEF IInv, TypeOK, Holding, ReadEnter
    <3> QED
      BY <2>1, <3>3, <3>4
  <2> QED
    BY <2>2, <2>3
<1>3. ASSUME NEW t \in Threads, ReadWait(t)
      PROVE  /\ t \notin Holding /\ Writers = {}
             /\ Holding' = Holding \cup {t} /\ Writers' = Writers
  BY <1>3 DEF IInv, TypeOK, SemaphoreInv, Holding, Writers, ReadWait
<1>4. ASSUME NEW t \in Threads, ReadUnlockEnter(t)
      PROVE  t \in Holding /\ Holding' = Holding \ {t} /\ Writers' = Writers
  BY <1>4 DEF IInv, TypeOK, Holding, Writers, ReadUnlockEnter
<1>5. ASSUME NEW t \in Threads, WriteWait(t) \/ WriteTryLock(t)
      PROVE  Holding = {} /\ Writers = {} /\ Holding' = Holding /\ Writers' = {t}
  <2>1. Holding = {} /\ Writers = {}
    BY <1>5 DEF IInv, TypeOK, SemaphoreInv, WriteWait, WriteTryLock
  <2> QED
    BY <1>5, <2>1 DEF IInv, TypeOK, Holding, Writers, WriteWait, WriteTryLock
<1>6. ASSUME NEW t \in Threads, WriteRelease(t)
      PROVE  t \in Writers /\ Holding' = Holding /\ Writers' = Writers \ {t}
  BY <1>6 DEF IInv, TypeOK, Holding, Writers, WriteRelease
<1>7. CASE UNCHANGED vars
  BY <1>7 DEF vars, Abstract!vars, Holding, Writers
<1> USE DEF Abstract!Next, Abstract!vars, Abstract!AcquireRead, Abstract!ReleaseRead,
            Abstract!AcquireWrite, Abstract!ReleaseWrite, Holding
<1> QED
  BY <1>1, <1>2, <1>3, <1>4, <1>5, <1>6, <1>7 DEF Next

\* Every step of CRWLock is a step of the abstract readers-writer lock or a stutter
\* (Lock.cpp:98-149).
THEOREM Refinement == Spec => ImplementsRWLock
<1>1. Init => Abstract!Init
  BY DEF Init, Abstract!Init, Writers
<1> QED
  BY <1>1, Invariance, StepRefines, PTL DEF Spec, ImplementsRWLock, Abstract!Spec
=============================================================================
