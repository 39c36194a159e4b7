----------------------------- MODULE EventLoop -----------------------------
(***************************************************************************)
(* How a connection that arrives comes to be accepted, and how the server  *)
(* stops.  ListenThread waits in CJob::RunEvent for the event of a         *)
(* listening port, resets it and posts one completion; a worker accepts    *)
(* one connection.  The timer thread runs CJob::RunTimer, whose queue      *)
(* always holds the 24 hour timer CIOTopTimer, the only timer anything     *)
(* registers.  SetTerminate, called when the main window is destroyed,     *)
(* ends both loops, and ListenThread then closes the ports and the         *)
(* connections to the IP and the log server, each under its lock.          *)
(*                                                                         *)
(* WSAEventSelect is external: Winsock sets the event of a port when a     *)
(* connection waits, and not again until accept has been called.           *)
(* RunTimer keeps m_lock while it pops, calls back and reads the top.      *)
(***************************************************************************)
EXTENDS Integers, FiniteSets

CONSTANTS
  PortCount,  \* listening ports, in the order of m_handles
  Backlog     \* LISTEN_BACKLOG: more connections than that do not wait on a port

ASSUME EventLoopAssumption == PortCount \in Nat \ {0} /\ Backlog \in Nat \ {0}

VARIABLES
  backlog,            \* how many connections wait on a port
  armed,              \* ports whose next connection Winsock will signal
  event,              \* ports whose m_hAcceptEvent is set
  tickets,            \* completions of a port in the queue of the workers
  listening,          \* ports whose m_hSocket is open
  lost,               \* history: PostQueuedCompletionStatus has failed
  terminating,        \* CJob::m_terminating
  terminateEvent,     \* CJob::m_terminateEvent, which stays set
  timerEvent,         \* CJob::m_timerEvent
  globalTerminate,    \* globalTeminateEvent: WinMain waits for it
  outgoing,           \* the locks of the connections there are to the IP and log server
  held,               \* those that a timer routine or a sender has at the moment
  lpc, port,          \* ListenThread: control point, port it serves
  tpc,                \* the timer thread
  queued, topRefs,    \* entries of m_timerQueue, CIOTopTimer's reference count
  noTop               \* history: top() of an empty queue was read

jobVars == <<backlog, armed, event, tickets, listening, lost, terminating, terminateEvent,
             timerEvent, globalTerminate, outgoing, held, lpc, port, tpc, queued, topRefs, noTop>>
accepting == <<backlog, armed, event, tickets, listening, lost>>
stopping  == <<terminating, terminateEvent, timerEvent, globalTerminate>>
locks     == <<outgoing, held>>
timing    == <<tpc, queued, topRefs, noTop>>

Ports == 1..PortCount

JobInit ==
  /\ backlog = [p \in Ports |-> 0]
  /\ armed = Ports /\ event = {} /\ tickets = [p \in Ports |-> 0]
  /\ listening = Ports /\ lost = FALSE
  /\ terminating = FALSE /\ terminateEvent = FALSE /\ timerEvent = FALSE
  /\ globalTerminate = FALSE
  /\ outgoing \in SUBSET {"gIPLock", "gLogLock"} /\ held = {}
  /\ lpc = "wait" /\ port = 1
  /\ tpc = "look" /\ queued = 1 /\ topRefs = 1 /\ noTop = FALSE

-----------------------------------------------------------------------------
(* Winsock and the peers *)

\* Winsock signals what waits, once, for a port that is armed
Signal(p, waiting) ==
  IF waiting > 0 THEN event' = event \cup {p} /\ armed' = armed \ {p}
                 ELSE armed' = armed \cup {p} /\ UNCHANGED event

Arrive(p) ==
  /\ p \in listening /\ backlog[p] < Backlog
  /\ backlog' = [backlog EXCEPT ![p] = @ + 1]
  /\ IF p \in armed THEN Signal(p, 1) ELSE UNCHANGED <<event, armed>>
  /\ UNCHANGED <<tickets, listening, lost, stopping, locks, lpc, port, timing>>

\* a peer that does not wait to be accepted
GiveUp(p) ==
  /\ backlog[p] > 0
  /\ backlog' = [backlog EXCEPT ![p] = @ - 1]
  /\ UNCHANGED <<armed, event, tickets, listening, lost, stopping, locks, lpc, port, timing>>

-----------------------------------------------------------------------------
(* A worker: CIOServer::OnIOCallback.  accept may find nothing, or the port closed. *)

AcceptOne(p) ==
  /\ tickets[p] > 0
  /\ tickets' = [tickets EXCEPT ![p] = @ - 1]
  /\ IF p \notin listening THEN UNCHANGED <<backlog, event, armed>>
     ELSE LET left == IF backlog[p] = 0 THEN 0 ELSE backlog[p] - 1
          IN  backlog' = [backlog EXCEPT ![p] = left] /\ Signal(p, left)
  /\ UNCHANGED <<listening, lost, stopping, locks, lpc, port, timing>>

-----------------------------------------------------------------------------
(* ListenThread: CJob::RunEvent and CIOServer::OnEventCallback *)

\* the bug of an event that is reset after a worker may have set it again
Then_ResetLast == [wake |-> "post", reset |-> "wait", post |-> "reset"]
Then == [wake |-> "reset", reset |-> "post", post |-> "wait"]

\* WaitForMultipleObjects returns the first handle that is set
Wake ==
  /\ lpc = "wait"
  /\ terminateEvent \/ event # {}
  /\ IF terminating THEN lpc' = "close" /\ UNCHANGED port
     ELSE /\ lpc' = Then["wake"]
          /\ port' = CHOOSE p \in event : \A q \in event : p <= q
  /\ UNCHANGED <<accepting, stopping, locks, timing>>

ResetEvent ==
  /\ lpc = "reset"
  /\ event' = event \ {port}
  /\ lpc' = Then["reset"]
  /\ UNCHANGED <<backlog, armed, tickets, listening, lost, stopping, locks, port, timing>>

\* the result of PostQueuedCompletionStatus is ignored
PostAccept ==
  /\ lpc = "post"
  /\ \/ tickets' = [tickets EXCEPT ![port] = @ + 1] /\ UNCHANGED lost
     \/ lost' = TRUE /\ UNCHANGED tickets
  /\ lpc' = Then["post"]
  /\ UNCHANGED <<backlog, armed, event, listening, stopping, locks, port, timing>>

\* the end of ListenThread; what it does to the connections it opened is in Reconnect
ClosePorts ==
  /\ lpc = "close"
  /\ listening' = {} /\ backlog' = [p \in Ports |-> 0]
  /\ lpc' = "endIP"
  /\ UNCHANGED <<armed, event, tickets, lost, stopping, locks, port, timing>>

\* WriteLock to WriteUnlock, if there is a connection
MayEnd(lock) == lock \notin outgoing \cap held

EndIPConn ==
  /\ lpc = "endIP" /\ MayEnd("gIPLock")
  /\ lpc' = "endLog"
  /\ UNCHANGED <<accepting, stopping, locks, port, timing>>

EndLogConn ==
  /\ lpc = "endLog" /\ MayEnd("gLogLock")
  /\ globalTerminate' = TRUE
  /\ lpc' = "ended"
  /\ UNCHANGED <<accepting, terminating, terminateEvent, timerEvent, locks, port, timing>>

\* others, who may have a lock for reading or writing
TakeLock(lock) ==
  /\ lock \in outgoing \ held /\ held' = held \cup {lock}
  /\ UNCHANGED <<accepting, stopping, outgoing, lpc, port, timing>>

LeaveLock(lock) ==
  /\ lock \in held /\ held' = held \ {lock}
  /\ UNCHANGED <<accepting, stopping, outgoing, lpc, port, timing>>

-----------------------------------------------------------------------------
(* The timer thread: CJob::RunTimer and CIOTopTimer::OnTimerCallback.      *)
(* topRefs is the reference count of the timer.                            *)

\* at the top of the loop, with or without a timer that is due
Look ==
  /\ tpc = "look"
  /\ tpc' \in {"due", "wait"}
  /\ UNCHANGED <<accepting, stopping, locks, lpc, port, queued, topRefs, noTop>>

\* the bug of a callback that does not register its timer again
Registered_Not == FALSE
Registered == ~terminating

\* pop and call back: RegisterTimer pushes, unless the stop has begun
RunTop ==
  /\ tpc = "due"
  /\ queued' = queued - 1 + (IF Registered THEN 1 ELSE 0)
  /\ tpc' = IF Registered THEN "addref" ELSE "top"
  /\ UNCHANGED <<accepting, stopping, locks, lpc, port, topRefs, noTop>>

\* the reference for the entry pushed, taken after the push
AddTopRef ==
  /\ tpc = "addref"
  /\ topRefs' = topRefs + 1
  /\ tpc' = "release"
  /\ UNCHANGED <<accepting, stopping, locks, lpc, port, queued, noTop>>

\* the callback could register, and gives the reference of the entry popped back
ReleaseTop ==
  /\ tpc = "release"
  /\ topRefs' = topRefs - 1
  /\ tpc' = "top"
  /\ UNCHANGED <<accepting, stopping, locks, lpc, port, queued, noTop>>

ReadTop ==
  /\ tpc = "top"
  /\ noTop' = (queued = 0)
  /\ tpc' = IF queued = 0 THEN "undefined" ELSE "wait"
  /\ UNCHANGED <<accepting, stopping, locks, lpc, port, queued, topRefs>>

\* the wait ends with an event or with time; the cleanup empties the queue
TimerWakes ==
  /\ tpc = "wait"
  /\ timerEvent' = (terminateEvent /\ timerEvent)
  /\ IF terminating
       THEN tpc' = "ended" /\ topRefs' = topRefs - queued /\ queued' = 0
       ELSE tpc' = "look" /\ UNCHANGED <<topRefs, queued>>
  /\ UNCHANGED <<accepting, terminating, terminateEvent, globalTerminate, locks, lpc, port, noTop>>

-----------------------------------------------------------------------------
(* CJob::SetTerminate *)

SetTerminate ==
  /\ ~terminating
  /\ terminating' = TRUE
  /\ UNCHANGED <<accepting, terminateEvent, timerEvent, globalTerminate, locks, lpc, port, timing>>

\* the bug of an end that only the timer thread is told
SetEvents_Timer ==
  /\ terminating /\ ~terminateEvent
  /\ timerEvent' = TRUE
  /\ UNCHANGED <<accepting, terminating, terminateEvent, globalTerminate, locks, lpc, port, timing>>

SetEvents ==
  /\ terminating /\ ~terminateEvent
  /\ terminateEvent' = TRUE /\ timerEvent' = TRUE
  /\ UNCHANGED <<accepting, terminating, globalTerminate, locks, lpc, port, timing>>

-----------------------------------------------------------------------------
Listen == Wake \/ ResetEvent \/ PostAccept \/ ClosePorts \/ EndIPConn \/ EndLogConn
RunTimer == Look \/ RunTop \/ AddTopRef \/ ReleaseTop \/ ReadTop \/ TimerWakes

JobNext ==
  \/ \E p \in Ports : Arrive(p) \/ GiveUp(p) \/ AcceptOne(p)
  \/ Listen \/ RunTimer \/ SetTerminate \/ SetEvents
  \/ \E lock \in outgoing : TakeLock(lock) \/ LeaveLock(lock)

JobSpec == JobInit /\ [][JobNext]_jobVars

(***************************************************************************)
(* The threads run and a worker takes what is posted.  Nothing makes a     *)
(* connection arrive or the window be destroyed.  Who has the lock of a    *)
(* connection lets it go (AttemptEnds of Reconnect, and a sender returns), *)
(* and ListenThread, which waits for it, gets it when it is free again and *)
(* again.                                                                  *)
(***************************************************************************)
JobFairness ==
  /\ WF_jobVars(Listen) /\ WF_jobVars(RunTimer) /\ WF_jobVars(SetEvents)
  /\ \A p \in Ports : WF_jobVars(AcceptOne(p))
  /\ SF_jobVars(EndIPConn) /\ SF_jobVars(EndLogConn)
  /\ \A lock \in {"gIPLock", "gLogLock"} : WF_jobVars(LeaveLock(lock))

JobFairSpec == JobSpec /\ JobFairness

-----------------------------------------------------------------------------
(* Properties *)

JobTypeOK ==
  /\ backlog \in [Ports -> 0..Backlog]
  /\ armed \subseteq Ports /\ event \subseteq Ports /\ listening \subseteq Ports
  /\ tickets \in [Ports -> Nat] /\ port \in Ports
  /\ held \subseteq outgoing /\ outgoing \subseteq {"gIPLock", "gLogLock"}
  /\ lpc \in {"wait", "reset", "post", "close", "endIP", "endLog", "ended"}
  /\ tpc \in {"look", "due", "addref", "release", "top", "wait", "ended", "undefined"}
  /\ queued \in {0, 1} /\ topRefs \in 0..2

\* a port has nobody waiting again and again, or a worker accepts again and again
Served(p) == []<>(backlog[p] = 0) \/ []<><<AcceptOne(p)>>_jobVars

\* the event of p stays set, while ListenThread serves ports before it without end:
\* of the events that are set the wait returns the first (Job.cpp:71)
Outrun(p) == <>[](p \in event) /\ []<>(lpc = "reset" /\ port < p)

\* Nobody waits for ever to be accepted: the event a worker's accept sets is never
\* lost, though ListenThread resets the event at any time.  The exceptions are a
\* completion that could not be posted, after which the port is never signalled
\* again, and a port with connections that arrive on the ports before it so fast that
\* one of those is always signalled when ListenThread comes back to the wait.
EveryoneAccepted ==
  \A p \in Ports : Served(p) \/ <>(lost \/ terminating) \/ Outrun(p)

\* What EveryoneAccepted rests on: somebody will see a connection that waits.  Its port
\* is signalled, or being served by ListenThread, or a completion for it is with the
\* workers; Winsock will not signal the port again by itself.
WaitingIsSeen ==
  \A p \in Ports : backlog[p] > 0 /\ ~lost =>
    p \in event \/ tickets[p] > 0 \/ (port = p /\ lpc \in {"reset", "post"})

\* RunTimer reads the top of an empty queue only if the 24 hour timer is due when
\* the server stops; otherwise the timer is deleted exactly once, at the end, and not
\* in its callback.  (The comment at Job.cpp:158 finds that it sometimes leaks.)
TopTimerStays ==
  /\ noTop => terminating
  /\ topRefs = 0 <=> tpc = "ended"
  /\ tpc \in {"look", "wait"} => queued = 1 /\ topRefs = 1

\* Once the window is destroyed ListenThread comes to its end, so that WinMain does
\* not wait for ever, and the timer thread ends too.  The workers are not waited for.
StopEnds ==
  terminating ~> (globalTerminate /\ tpc \in {"ended", "undefined"})
=============================================================================
