------------------------------- MODULE RWLock -------------------------------
(***************************************************************************)
(* CRWLock (Lock.cpp:98-149): a readers-writer lock built from a critical  *)
(* section (mutex), a reader count and a semaphore of initial and maximum  *)
(* count 1 (dataLock).  The first reader takes the semaphore while it      *)
(* holds the mutex, the last one gives it back; a writer takes it alone.   *)
(* Each thread is at one control point, one step per synchronisation call. *)
(***************************************************************************)
EXTENDS Integers, FiniteSets

CONSTANTS Threads,    \* the threads that share the lock
          NoThread    \* the owner of a critical section nobody has entered

ASSUME ThreadsAssumption == IsFiniteSet(Threads) /\ NoThread \notin Threads

VARIABLES
  pc,           \* the control point of each thread
  mutex,        \* the thread inside the critical section
  readerCount,  \* CRWLock::readerCount
  dataLock      \* the count of the semaphore

vars == <<pc, mutex, readerCount, dataLock>>

PCs == { "idle",
         "r_enter", "r_wait", "r_leave",      \* inside ReadLock
         "reading",
         "ru_enter", "ru_leave",              \* inside ReadUnlock
         "w_wait",                            \* inside WriteLock
         "writing",
         "wu_release" }                       \* inside WriteUnlock

Goto(t, label) == pc' = [pc EXCEPT ![t] = label]

Init ==
  /\ pc = [t \in Threads |-> "idle"]
  /\ mutex = NoThread
  /\ readerCount = 0
  /\ dataLock = 1

-----------------------------------------------------------------------------
(* A caller of ReadLock, ReadUnlock, WriteLock or WriteUnlock *)

CallReadLock(t)    == pc[t] = "idle"    /\ Goto(t, "r_enter")
                      /\ UNCHANGED <<mutex, readerCount, dataLock>>
CallReadUnlock(t)  == pc[t] = "reading" /\ Goto(t, "ru_enter")
                      /\ UNCHANGED <<mutex, readerCount, dataLock>>
CallWriteLock(t)   == pc[t] = "idle"    /\ Goto(t, "w_wait")
                      /\ UNCHANGED <<mutex, readerCount, dataLock>>
CallWriteUnlock(t) == pc[t] = "writing" /\ Goto(t, "wu_release")
                      /\ UNCHANGED <<mutex, readerCount, dataLock>>

-----------------------------------------------------------------------------
(* ReadLock *)

\* the bug of a ReadLock that leaves the mutex before it waits
ReadEnterUnguarded(t) ==
  /\ pc[t] = "r_enter"
  /\ mutex = NoThread
  /\ readerCount' = readerCount + 1
  /\ Goto(t, IF readerCount' = 1 THEN "r_wait" ELSE "r_leave")
  /\ UNCHANGED <<mutex, dataLock>>

\* EnterCriticalSection, then ++readerCount == 1 decides who waits
ReadEnter(t) ==
  /\ pc[t] = "r_enter"
  /\ mutex = NoThread
  /\ mutex' = t
  /\ readerCount' = readerCount + 1
  /\ Goto(t, IF readerCount' = 1 THEN "r_wait" ELSE "r_leave")
  /\ UNCHANGED dataLock

\* WaitForSingleObject(dataLock) with the mutex still held
ReadWait(t) ==
  /\ pc[t] = "r_wait"
  /\ dataLock > 0
  /\ dataLock' = dataLock - 1
  /\ Goto(t, "r_leave")
  /\ UNCHANGED <<mutex, readerCount>>

ReadLeave(t) ==
  /\ pc[t] = "r_leave"
  /\ mutex' = NoThread
  /\ Goto(t, "reading")
  /\ UNCHANGED <<readerCount, dataLock>>

(* ReadUnlock *)

\* ReleaseSemaphore does nothing when the count is already at its maximum
ReleaseSemaphore == dataLock' = IF dataLock < 1 THEN dataLock + 1 ELSE dataLock

\* the bug of a ReadUnlock that gives the semaphore back while readers remain
ReadUnlockEnterEager(t) ==
  /\ pc[t] = "ru_enter"
  /\ mutex = NoThread
  /\ mutex' = t
  /\ readerCount' = readerCount - 1
  /\ ReleaseSemaphore
  /\ Goto(t, "ru_leave")

\* the bug of a ReadUnlock that keeps the semaphore when the last reader leaves
ReadUnlockEnterKeeps(t) ==
  /\ pc[t] = "ru_enter"
  /\ mutex = NoThread
  /\ mutex' = t
  /\ readerCount' = readerCount - 1
  /\ UNCHANGED dataLock
  /\ Goto(t, "ru_leave")

ReadUnlockEnter(t) ==
  /\ pc[t] = "ru_enter"
  /\ mutex = NoThread
  /\ mutex' = t
  /\ readerCount' = readerCount - 1
  /\ IF readerCount' = 0 THEN ReleaseSemaphore ELSE UNCHANGED dataLock
  /\ Goto(t, "ru_leave")

ReadUnlockLeave(t) ==
  /\ pc[t] = "ru_leave"
  /\ mutex' = NoThread
  /\ Goto(t, "idle")
  /\ UNCHANGED <<readerCount, dataLock>>

-----------------------------------------------------------------------------
(* WriteLock, WriteTryLock and WriteUnlock *)

WriteWait(t) ==
  /\ pc[t] = "w_wait"
  /\ dataLock > 0
  /\ dataLock' = dataLock - 1
  /\ Goto(t, "writing")
  /\ UNCHANGED <<mutex, readerCount>>

\* a wait of zero milliseconds: taken at once or not at all
WriteTryLock(t) ==
  /\ pc[t] = "idle"
  /\ dataLock > 0
  /\ dataLock' = dataLock - 1
  /\ Goto(t, "writing")
  /\ UNCHANGED <<mutex, readerCount>>

WriteRelease(t) ==
  /\ pc[t] = "wu_release"
  /\ ReleaseSemaphore
  /\ Goto(t, "idle")
  /\ UNCHANGED <<mutex, readerCount>>

-----------------------------------------------------------------------------
\* the steps a thread takes inside the four operations
LockStep(t) ==
  \/ ReadEnter(t) \/ ReadWait(t) \/ ReadLeave(t)
  \/ ReadUnlockEnter(t) \/ ReadUnlockLeave(t)
  \/ WriteWait(t) \/ WriteRelease(t)

Next == \E t \in Threads :
  \/ CallReadLock(t) \/ CallReadUnlock(t) \/ CallWriteLock(t) \/ CallWriteUnlock(t)
  \/ ReadEnter(t) \/ ReadWait(t) \/ ReadLeave(t)
  \/ ReadUnlockEnter(t) \/ ReadUnlockLeave(t)
  \/ WriteWait(t) \/ WriteTryLock(t) \/ WriteRelease(t)

Spec == Init /\ [][Next]_vars

(***************************************************************************)
(* Every caller releases what it acquired, and the scheduler runs every    *)
(* thread.  Waiting on the semaphore and entering the critical section are *)
(* strongly fair: Windows wakes the waiters of both in turn.               *)
(***************************************************************************)
Fairness == \A t \in Threads :
  /\ WF_vars(CallReadUnlock(t)) /\ WF_vars(CallWriteUnlock(t))
  /\ WF_vars(ReadLeave(t)) /\ WF_vars(ReadUnlockLeave(t)) /\ WF_vars(WriteRelease(t))
  /\ SF_vars(ReadEnter(t)) /\ SF_vars(ReadUnlockEnter(t))
  /\ SF_vars(ReadWait(t)) /\ SF_vars(WriteWait(t))

FairSpec == Spec /\ Fairness

-----------------------------------------------------------------------------
(* Properties *)

TypeOK ==
  /\ pc \in [Threads -> PCs]
  /\ mutex \in Threads \cup {NoThread}
  /\ readerCount \in Int
  /\ dataLock \in {0, 1}

\* the threads a caller sees as holding the lock
Readers == {t \in Threads : pc[t] \in {"reading", "ru_enter"}}
Writers == {t \in Threads : pc[t] \in {"writing", "wu_release"}}

\* A writer never runs beside a reader or another writer: the protected lists
\* (CServerList, CIPList, the connection pointers) are written alone.
MutualExclusion ==
  /\ \A t, u \in Writers : t = u
  /\ Writers # {} => Readers = {}

\* A release always finds the semaphore taken, so the error of WriteUnlock
\* ("semaphore was not locked", Lock.cpp:147-149) is never logged.
NoOverRelease ==
  \A t \in Threads :
    (pc[t] = "wu_release" \/ (pc[t] = "ru_enter" /\ readerCount = 1)) => dataLock = 0

\* A reader that waits for the semaphore holds the mutex that ReadUnlock needs:
\* at that moment nobody holds the lock for reading, so no ReadUnlock, and no
\* release of the semaphore, can be stuck behind it.
WaitingReaderBlocksNoReader ==
  \A t \in Threads : pc[t] = "r_wait" => Readers = {} /\ mutex = t

\* CRWLock gives the abstract lock: a reader is in from the moment it need not
\* wait any more until it has counted itself out.
Abstract == INSTANCE AbstractRWLock WITH
  readers <- {t \in Threads : pc[t] \in {"r_leave", "reading", "ru_enter"}},
  writers <- Writers

ImplementsRWLock == Abstract!Spec

\* A caller of ReadLock always gets the lock; a caller of WriteLock gets it
\* unless readers keep arriving for ever: the only starvation the lock allows is
\* that of writers by readers that overlap without end.
ReaderServed == \A t \in Threads : pc[t] = "r_enter" ~> pc[t] = "reading"
WriterStarvesOnlyUnderReaders ==
  \A t \in Threads : <>[](pc[t] = "w_wait") => []<>(readerCount > 0)
LockIsServed == ReaderServed /\ WriterStarvesOnlyUnderReaders
=============================================================================
