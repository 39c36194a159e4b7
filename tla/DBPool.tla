------------------------------- MODULE DBPool -------------------------------
(***************************************************************************)
(* The pool of database connections (DBEnv) and its users: the constructor *)
(* of CDBConn takes the first element of a linked list, asking again every *)
(* 100 ms while there is none, and its destructor appends the element.     *)
(* Users are the main window (ExecuteSqlGift, GetBossInfoFromDB) and the   *)
(* timer callbacks of CServerList::UpdateDB, which wait for a connection   *)
(* with the list of world servers locked for reading; a world server that  *)
(* connects needs that lock for writing.                                   *)
(*                                                                         *)
(* The critical section m_lock makes taking and giving back single steps.  *)
(* The lock of the list is the AbstractRWLock that RWLock implements.  The *)
(* statements a user runs are one step.  DBEnv::OnTimerCallback and the    *)
(* flag `reset` are left out: nothing registers the timer or sets the flag.*)
(***************************************************************************)
EXTENDS Integers, Sequences

CONSTANTS
  ConnCount,  \* config: the size of the pool
  UI,         \* the thread of the main window
  Timers,     \* timer queue threads in UpdateDB; a call may overlap the one before
  Acceptors,  \* threads in SetServerSocketByAddress
  NoSlot      \* NULL

ASSUME DBPoolAssumption ==
  /\ ConnCount \in Nat /\ ConnCount > 0 /\ NoSlot \notin Nat
  /\ UI \notin Timers \cup Acceptors /\ Timers \cap Acceptors = {}

VARIABLES
  loggedIn,          \* DBEnv::Login succeeded at the start
  first, last,       \* m_pFreeSqlPool and m_pFreeSqlPoolEnd
  next,              \* SQLPool::pNext
  cur,               \* CDBConn::m_pCurSql of every user
  readers, writers,  \* CServerList::mylock
  pc

list == <<first, last, next>>
lock == <<readers, writers>>
vars == <<loggedIn, list, cur, lock, pc>>

Slots   == 0..ConnCount - 1
Users   == Timers \cup {UI}
Threads == Users \cup Acceptors
PCs == {"idle", "lock", "poll", "use", "give", "write"}

Lock == INSTANCE AbstractRWLock

Goto(t, label) == pc' = [pc EXCEPT ![t] = label]

\* AllocSQLPool puts the elements in front one by one: the last is first, and
\* element 0, the first one put in, ends the list.
AllocSQLPool ==
  /\ first = ConnCount - 1 /\ last = 0
  /\ next = [s \in Slots |-> IF s = 0 THEN NoSlot ELSE s - 1]

EmptyPool ==
  /\ first = NoSlot /\ last = NoSlot
  /\ next = [s \in Slots |-> NoSlot]

Init ==
  /\ loggedIn \in BOOLEAN
  /\ IF loggedIn THEN AllocSQLPool ELSE EmptyPool
  /\ cur = [u \in Users |-> NoSlot]
  /\ Lock!Init
  /\ pc = [t \in Threads |-> "idle"]

-----------------------------------------------------------------------------
(* CDBConn *)

EndWithout(s) == IF next[s] = NoSlot THEN NoSlot ELSE last

\* the constructor; while the list is empty it sleeps and looks again
TakeFirst(u) ==
  /\ pc[u] = "poll"
  /\ first # NoSlot
  /\ cur' = [cur EXCEPT ![u] = first]
  /\ first' = next[first]
  /\ last' = EndWithout(first)
  /\ Goto(u, "use")
  /\ UNCHANGED <<loggedIn, next, lock>>

\* the bug of an element that keeps its old successor
Appended_Stale(s) == IF first = NoSlot THEN next ELSE [next EXCEPT ![last] = s]
Appended(s) ==
  LET cut == [next EXCEPT ![s] = NoSlot] IN
  IF first = NoSlot THEN cut ELSE [cut EXCEPT ![last] = s]

\* the bug of an element that is not put into an empty list
FirstWith_Lost(s) == first
FirstWith(s) == IF first = NoSlot THEN s ELSE first

\* the destructor
GiveBack(u) ==
  /\ pc[u] = "give"
  /\ next' = Appended(cur[u])
  /\ first' = FirstWith(cur[u])
  /\ last' = cur[u]
  /\ cur' = [cur EXCEPT ![u] = NoSlot]
  /\ Goto(u, "idle")
  /\ UNCHANGED <<loggedIn, lock>>

-----------------------------------------------------------------------------
(* The users *)

\* a command of the main window: ExecuteSqlGift or GetBossInfoFromDB
Command ==
  /\ pc[UI] = "idle"
  /\ Goto(UI, "poll")
  /\ UNCHANGED <<loggedIn, list, cur, lock>>

\* the statements of the command, whatever they return
RunCommand ==
  /\ pc[UI] = "use"
  /\ Goto(UI, "give")
  /\ UNCHANGED <<loggedIn, list, cur, lock>>

\* UpdateDBHelper, every 300 s
TimerFires(t) ==
  /\ pc[t] = "idle"
  /\ Goto(t, "lock")
  /\ UNCHANGED <<loggedIn, list, cur, lock>>

ReadLock(t) ==
  /\ pc[t] = "lock"
  /\ Lock!AcquireRead(t)
  /\ Goto(t, "poll")
  /\ UNCHANGED <<loggedIn, list, cur>>

\* the bug of a lock that is never released
ReadUnlock_Kept(t) ==
  /\ pc[t] = "use"
  /\ Goto(t, "give")
  /\ UNCHANGED <<loggedIn, list, cur, lock>>

ReadUnlock(t) ==
  /\ pc[t] = "use"
  /\ Lock!ReleaseRead(t)
  /\ Goto(t, "give")
  /\ UNCHANGED <<loggedIn, list, cur>>

-----------------------------------------------------------------------------
(* A world server connects *)

Accept(t) ==
  /\ pc[t] = "idle"
  /\ Goto(t, "lock")
  /\ UNCHANGED <<loggedIn, list, cur, lock>>

WriteLock(t) ==
  /\ pc[t] = "lock"
  /\ Lock!AcquireWrite(t)
  /\ Goto(t, "write")
  /\ UNCHANGED <<loggedIn, list, cur>>

WriteUnlock(t) ==
  /\ pc[t] = "write"
  /\ Lock!ReleaseWrite(t)
  /\ Goto(t, "idle")
  /\ UNCHANGED <<loggedIn, list, cur>>

-----------------------------------------------------------------------------
Next ==
  \/ \E u \in Users : TakeFirst(u) \/ GiveBack(u)
  \/ Command \/ RunCommand
  \/ \E t \in Timers : TimerFires(t) \/ ReadLock(t) \/ ReadUnlock(t)
  \/ \E t \in Acceptors : Accept(t) \/ WriteLock(t) \/ WriteUnlock(t)

Spec == Init /\ [][Next]_vars

(***************************************************************************)
(* A thread that need not wait goes on, and the statements of a user end.  *)
(* A thread that waits for a lock, or asks again every 100 ms, gets its    *)
(* turn if it can have one again and again.  Nothing makes a command, a    *)
(* callback or a world server come.                                        *)
(***************************************************************************)
Fairness ==
  /\ WF_vars(RunCommand)
  /\ \A u \in Users : SF_vars(TakeFirst(u)) /\ WF_vars(GiveBack(u))
  /\ \A t \in Timers : SF_vars(ReadLock(t)) /\ WF_vars(ReadUnlock(t))
  /\ \A t \in Acceptors : SF_vars(WriteLock(t)) /\ WF_vars(WriteUnlock(t))

FairSpec == Spec /\ Fairness

-----------------------------------------------------------------------------
(* Properties *)

TypeOK ==
  /\ loggedIn \in BOOLEAN
  /\ first \in Slots \cup {NoSlot} /\ last \in Slots \cup {NoSlot}
  /\ next \in [Slots -> Slots \cup {NoSlot}]
  /\ cur \in [Users -> Slots \cup {NoSlot}]
  /\ readers \subseteq Timers /\ writers \subseteq Acceptors
  /\ pc \in [Threads -> PCs]

\* the links lead from the head through the elements of q, in its order, and end there
IsList(q) ==
  /\ first = IF q = <<>> THEN NoSlot ELSE q[1]
  /\ \A i \in 1..Len(q) : next[q[i]] = IF i = Len(q) THEN NoSlot ELSE q[i + 1]

\* the free list; there is none if the links do not end, and at most one
Lists == {q \in UNION {[1..n -> Slots] : n \in 0..ConnCount} : IsList(q)}
FreeList == IF Lists = {} THEN <<NoSlot>> ELSE CHOOSE q \in Lists : TRUE

Queue == INSTANCE ConnQueue WITH
  Conns <- Slots, Nobody <- NoSlot, queue <- FreeList, inUse <- cur

\* The pointers are a queue: a connection is never given to two users, never
\* lost and never used while it is in the list, whatever the order in which the
\* window and overlapping callbacks take and give back; the list never turns
\* into a cycle.
ImplementsQueue == Queue!Spec

\* If the login at the start succeeded, every user gets a connection: no user
\* waits for one while it keeps one, so the polling cannot last for ever.
PoolServes == \A u \in Users : (loggedIn /\ pc[u] = "poll") ~> pc[u] = "use"

\* If the login succeeded, a world server waits for ever for the list only when
\* callbacks of UpdateDB that overlap keep coming: a single callback, though it
\* waits for a connection with the list locked, always lets go of it.
UpdateLetsGo ==
  loggedIn => \A t \in Acceptors :
    <>[](pc[t] = "lock") =>
      []<><<\E u \in Timers \cup Acceptors : ReadUnlock(u) \/ WriteUnlock(u)>>_vars
=============================================================================
