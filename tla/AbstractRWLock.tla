---------------------------- MODULE AbstractRWLock ----------------------------
(***************************************************************************)
(* What CRWLock (Lock.h) promises to its callers: at any time either any   *)
(* number of threads hold it for reading or one thread holds it for        *)
(* writing.  Acquiring and releasing are single steps here.                *)
(***************************************************************************)
CONSTANT Threads

VARIABLES readers,   \* the threads between ReadLock and ReadUnlock
          writers    \* the threads between WriteLock and WriteUnlock

vars == <<readers, writers>>

Init == readers = {} /\ writers = {}

AcquireRead(t) ==
  /\ t \notin readers
  /\ writers = {}
  /\ readers' = readers \cup {t}
  /\ UNCHANGED writers

ReleaseRead(t) ==
  /\ t \in readers
  /\ readers' = readers \ {t}
  /\ UNCHANGED writers

AcquireWrite(t) ==
  /\ readers = {} /\ writers = {}
  /\ writers' = {t}
  /\ UNCHANGED readers

ReleaseWrite(t) ==
  /\ t \in writers
  /\ writers' = writers \ {t}
  /\ UNCHANGED readers

Next == \E t \in Threads :
          \/ AcquireRead(t)  \/ ReleaseRead(t)
          \/ AcquireWrite(t) \/ ReleaseWrite(t)

Spec == Init /\ [][Next]_vars
=============================================================================
