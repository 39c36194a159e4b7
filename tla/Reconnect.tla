------------------------------ MODULE Reconnect ------------------------------
(***************************************************************************)
(* The connections this server opens itself: to the log server (CLogSocket)*)
(* the billing server (CIPSocket) and the wanted server (CWantedSocket).   *)
(* Each is one global pointer.  When its connection is closed OnClose arms *)
(* a timer; the timer routine connects again with a new object, and either *)
(* closes that object, which arms the next timer, or swaps the pointer     *)
(* under a lock.  The three differ in the order of the swap, in what their *)
(* constructors and OnCreate do, and in whether users take the lock;       *)
(* `kind` says which of the three a behaviour is about.                    *)
(*                                                                         *)
(* A handle of the timer, the mode of a connection and what is sent are    *)
(* left out; completed reads that only post another read are too.  The     *)
(* lock is the AbstractRWLock that RWLock implements.  The use of NULL or  *)
(* a deleted object is recorded in `stray` and ends the behaviour: what    *)
(* follows is undefined.                                                   *)
(***************************************************************************)
EXTENDS Integers, FiniteSets, Sequences

CONSTANTS
  Timers,   \* timer queue threads
  Worker,   \* a thread of the completion port
  User,     \* a thread that sends: a packet handler, or the window (wanted)
  Main,     \* WinMain, which makes the first object
  Listener, \* ListenThread, which ends two of the connections at shutdown
  MaxSocks, \* how many objects are made: bounds the history
  None      \* NULL

ASSUME ReconnectAssumption ==
  /\ {Worker, User, Main, Listener} \cap Timers = {}
  /\ Worker \notin {User, Main, Listener} /\ User \notin {Main, Listener} /\ Main # Listener
  /\ MaxSocks \in Nat /\ None \notin Nat

VARIABLES
  kind,              \* "log", "ip" or "wanted"
  ptr,               \* pLogSocket, pIPSocket, pWantedSocket
  reconnect,         \* LogDReconnect, IPServerReconnect, WantedServerReconnect
  use,               \* config.UseLogD, UseIPServer, UseWantedSystem
  readers, writers,  \* gLogLock, gIPLock, gWantedLock
  made,              \* the objects constructed
  open,              \* the objects whose m_hSocket is valid
  refs,              \* CIOObject::refcount
  deleted,           \* the objects whose destructor has run
  io,                \* the objects with an overlapped read outstanding
  timers,            \* the objects whose OnClose armed a timer that is pending
  pc, x, old, ret,   \* per thread: control point, object in hand, the object the
                     \* pointer had, where CloseSocket returns to
  noSocket,          \* history: socket() has failed
  leaked,            \* history: the objects with a reference that nobody gives back
  shutdown,          \* history: ListenThread has begun to end the connection
  stray              \* history: <<thread, object>>, a use of a deleted object or NULL

lock    == <<readers, writers>>
flags   == <<reconnect, use>>
objects == <<made, open, refs, deleted, io>>
local   == <<x, old, ret>>
history == <<noSocket, leaked, shutdown>>
vars == <<kind, ptr, flags, lock, objects, timers, pc, local, history, stray>>

Socks   == 0..MaxSocks - 1
Threads == Timers \cup {Worker, User, Main, Listener}
PCs == {"start", "idle", "check", "connect", "fail", "wlock", "swap", "flags", "drop",
        "unlock", "init", "create", "noread", "created", "exchange", "onclose", "arm",
        "closed", "callback", "rlock", "send", "sent", "runlock", "end", "release"}

Lock == INSTANCE AbstractRWLock

\* a thread of a process that still runs
At(t, label) == stray = {} /\ pc[t] = label

Goto(t, label) == pc' = [pc EXCEPT ![t] = label]
Hold(t, o) == x' = [x EXCEPT ![t] = o]

\* go on at label; a thread that becomes idle forgets its local variables
Return(t, label) ==
  /\ Goto(t, label)
  /\ IF label # "idle" THEN UNCHANGED local
     ELSE /\ Hold(t, None) /\ old' = [old EXCEPT ![t] = None]
          /\ ret' = [ret EXCEPT ![t] = "idle"]

Init ==
  /\ kind \in {"log", "ip", "wanted"}
  /\ ptr = None /\ reconnect = FALSE /\ use \in BOOLEAN
  /\ Lock!Init
  /\ made = {} /\ open = {} /\ refs = [o \in Socks |-> 0] /\ deleted = {} /\ io = {}
  /\ timers = {}
  /\ pc = [t \in Threads |-> IF t = Main /\ use THEN "start" ELSE "idle"]
  /\ x = [t \in Threads |-> None] /\ old = [t \in Threads |-> None]
  /\ ret = [t \in Threads |-> "idle"]
  /\ noSocket = FALSE /\ leaked = {} /\ shutdown = FALSE /\ stray = {}

\* n references taken on o by t
AddRef(t, o, n) ==
  IF o \in deleted \cup {None}
    THEN stray' = stray \cup {<<t, o>>} /\ UNCHANGED <<refs, deleted>>
    ELSE refs' = [refs EXCEPT ![o] = @ + n] /\ UNCHANGED <<deleted, stray>>

\* a reference given back; the last one deletes
ReleaseRef(t, o) ==
  IF o \in deleted \cup {None}
    THEN stray' = stray \cup {<<t, o>>} /\ UNCHANGED <<refs, deleted>>
    ELSE /\ refs' = [refs EXCEPT ![o] = @ - 1]
         /\ deleted' = IF refs[o] = 1 THEN deleted \cup {o} ELSE deleted
         /\ UNCHANGED stray

-----------------------------------------------------------------------------
(* CIOSocket::CloseSocket on x[t], and the OnClose of the three classes *)

CallClose(t, back) ==
  /\ ret' = [ret EXCEPT ![t] = back]
  /\ Goto(t, "exchange")

ExchangeHandle(t) ==
  /\ At(t, "exchange")
  /\ open' = open \ {x[t]}
  /\ Return(t, IF x[t] \in open THEN "onclose" ELSE ret[t])
  /\ UNCHANGED <<kind, ptr, flags, lock, made, refs, deleted, io, timers, history, stray>>

OnClose(t) ==
  /\ At(t, "onclose")
  /\ reconnect' = TRUE /\ use' = FALSE
  /\ Goto(t, "arm")
  /\ UNCHANGED <<kind, ptr, lock, objects, timers, local, history, stray>>

\* the bug of a pointer that has no reference of its own
ArmTimer_NoRef(t) ==
  /\ At(t, "arm")
  /\ timers' = timers \cup {x[t]}
  /\ Goto(t, "closed")
  /\ UNCHANGED <<kind, ptr, flags, lock, objects, local, history, stray>>

\* OnClose's AddRef is the reference of the pointer to a closed object
ArmTimer(t) ==
  /\ At(t, "arm")
  /\ AddRef(t, x[t], 1)
  /\ timers' = timers \cup {x[t]}
  /\ Goto(t, "closed")
  /\ UNCHANGED <<kind, ptr, flags, lock, made, open, io, local, history>>

ReleaseSocket(t) ==
  /\ At(t, "closed")
  /\ ReleaseRef(t, x[t])
  /\ Return(t, ret[t])
  /\ UNCHANGED <<kind, ptr, flags, lock, made, open, io, timers, history>>

-----------------------------------------------------------------------------
(* socket(), connect() and the constructor.  socket() may fail: the object *)
(* then has no handle and connect() fails too.  The constructors of        *)
(* CIPSocket and CWantedSocket reset the flag.                             *)

Construct(t, o, hasSocket) ==
  /\ o = Cardinality(made)  \* the objects are numbered as they are made
  /\ made' = made \cup {o}
  /\ refs' = [refs EXCEPT ![o] = 1]
  /\ open' = IF hasSocket THEN open \cup {o} ELSE open
  /\ noSocket' = (noSocket \/ ~hasSocket)
  /\ reconnect' = (IF kind = "log" THEN reconnect ELSE FALSE)
  /\ Hold(t, o)

\* WinMain, when the connection is configured
FirstConnect ==
  /\ At(Main, "start")
  /\ \E o \in Socks :
       /\ ptr' = o
       /\ \/ Construct(Main, o, TRUE) /\ Goto(Main, "init") /\ UNCHANGED ret
          \/ \E hasSocket \in BOOLEAN : Construct(Main, o, hasSocket) /\ CallClose(Main, "idle")
  /\ UNCHANGED <<kind, use, lock, deleted, io, timers, old, leaked, shutdown, stray>>

-----------------------------------------------------------------------------
(* The timer routines *)

\* the bug of flags that are set when the connection may be closed already
SwapOrder_FlagsLate == [log    |-> <<"swap", "init", "flags", "drop", "unlock">>,
                        ip     |-> <<"swap", "init", "flags", "unlock", "drop">>,
                        wanted |-> <<"swap", "drop", "init", "flags", "unlock">>]
\* the order of the steps that follow a successful connect, with the lock taken
SwapOrder == [log    |-> <<"swap", "flags", "init", "drop", "unlock">>,
              ip     |-> <<"swap", "flags", "init", "unlock", "drop">>,
              wanted |-> <<"swap", "drop", "flags", "init", "unlock">>]

\* the step of thread t that follows the step named label; WinMain only initializes
After(t, label) ==
  LET order == SwapOrder[kind]
      i == CHOOSE j \in 1..5 : order[j] = label
  IN  IF t = Main \/ i = 5 THEN "idle" ELSE order[i + 1]

\* any idle thread of the queue: the choice makes no difference
Fire(t) ==
  /\ t = CHOOSE u \in Timers : pc[u] = "idle" \/ \A v \in Timers : pc[v] # "idle"
  /\ At(t, "idle")
  /\ \E o \in timers : timers' = timers \ {o} /\ Hold(t, o)
  /\ Goto(t, "check")
  /\ UNCHANGED <<kind, ptr, flags, lock, objects, old, ret, history, stray>>

Check(t) ==
  /\ At(t, "check")
  /\ Return(t, IF reconnect THEN "connect" ELSE "idle")
  /\ UNCHANGED <<kind, ptr, flags, lock, objects, timers, history, stray>>

Connect(t) ==
  /\ At(t, "connect")
  /\ \E o \in Socks :
       \/ Construct(t, o, TRUE) /\ Goto(t, "wlock") /\ UNCHANGED ret
       \/ \E hasSocket \in BOOLEAN : Construct(t, o, hasSocket) /\ CallClose(t, "fail")
  /\ UNCHANGED <<kind, ptr, use, lock, deleted, io, timers, old, leaked, shutdown, stray>>

\* the bug of an attempt whose object is not deleted
ReleaseFailed_Kept(t) ==
  /\ At(t, "fail")
  /\ Return(t, "idle")
  /\ UNCHANGED <<kind, ptr, flags, lock, objects, timers, history, stray>>

ReleaseFailed(t) ==
  /\ At(t, "fail")
  /\ ReleaseRef(t, x[t])
  /\ Return(t, "idle")
  /\ UNCHANGED <<kind, ptr, flags, lock, made, open, io, timers, history>>

WriteLock(t) ==
  /\ At(t, "wlock")
  /\ Lock!AcquireWrite(t)
  /\ Goto(t, "swap")
  /\ UNCHANGED <<kind, ptr, flags, objects, timers, local, history, stray>>

Swap(t) ==
  /\ At(t, "swap")
  /\ old' = [old EXCEPT ![t] = ptr]
  /\ ptr' = x[t]
  /\ Goto(t, After(t, "swap"))
  /\ UNCHANGED <<kind, flags, lock, objects, timers, x, ret, history, stray>>

SetFlags(t) ==
  /\ At(t, "flags")
  /\ reconnect' = FALSE /\ use' = TRUE
  /\ Goto(t, After(t, "flags"))
  /\ UNCHANGED <<kind, ptr, lock, objects, timers, local, history, stray>>

ReleaseOld(t) ==
  /\ At(t, "drop")
  /\ ReleaseRef(t, old[t])
  /\ Return(t, After(t, "drop"))
  /\ UNCHANGED <<kind, ptr, flags, lock, made, open, io, timers, history>>

\* the bug of a lock that is not released
WriteUnlock_Kept(t) ==
  /\ At(t, "unlock")
  /\ Return(t, After(t, "unlock"))
  /\ UNCHANGED <<kind, ptr, flags, lock, objects, timers, history, stray>>

WriteUnlock(t) ==
  /\ At(t, "unlock")
  /\ Lock!ReleaseWrite(t)
  /\ Return(t, After(t, "unlock"))
  /\ UNCHANGED <<kind, ptr, flags, objects, timers, history, stray>>

-----------------------------------------------------------------------------
(* CIOSocket::Initialize and OnCreate *)

\* the completion port takes the handle, or Initialize closes it and returns
\* with the reference it has taken
Initialize(t) ==
  /\ At(t, "init")
  /\ AddRef(t, x[t], 1)
  /\ \/ Goto(t, "create") /\ UNCHANGED <<ret, leaked>>
     \/ CallClose(t, After(t, "init")) /\ leaked' = leaked \cup {x[t]}
  /\ UNCHANGED <<kind, ptr, flags, lock, made, open, io, timers, x, old, noSocket, shutdown>>

\* CIPSocket and CWantedSocket take a reference in OnCreate that nothing gives back
OnCreateRefs_None == 0
OnCreateRefs == IF kind = "log" THEN 0 ELSE 1

\* OnCreate posts the first read, which may fail
OnCreate(t) ==
  /\ At(t, "create")
  /\ AddRef(t, x[t], OnCreateRefs + 1)
  /\ leaked' = IF kind = "log" THEN leaked ELSE leaked \cup {x[t]}
  /\ \/ io' = io \cup {x[t]} /\ Goto(t, "created") /\ UNCHANGED ret
     \/ CallClose(t, "noread") /\ UNCHANGED io
  /\ UNCHANGED <<kind, ptr, flags, lock, made, open, timers, x, old, noSocket, shutdown>>

ReleaseRead(t) ==
  /\ At(t, "noread")
  /\ ReleaseRef(t, x[t])
  /\ Goto(t, "created")
  /\ UNCHANGED <<kind, ptr, flags, lock, made, open, io, timers, local, history>>

EndInitialize(t) ==
  /\ At(t, "created")
  /\ ReleaseRef(t, x[t])
  /\ Return(t, After(t, "init"))
  /\ UNCHANGED <<kind, ptr, flags, lock, made, open, io, timers, history>>

-----------------------------------------------------------------------------
(* A worker whose completed read says the connection is gone: OnIOCallback *)

ReadFails ==
  /\ At(Worker, "idle")
  /\ \E o \in io : io' = io \ {o} /\ Hold(Worker, o)
  /\ CallClose(Worker, "callback")
  /\ UNCHANGED <<kind, ptr, flags, lock, made, open, refs, deleted, timers, old, history, stray>>

EndCallback ==
  /\ At(Worker, "callback")
  /\ ReleaseRef(Worker, x[Worker])
  /\ Return(Worker, "idle")
  /\ UNCHANGED <<kind, ptr, flags, lock, made, open, io, timers, history>>

-----------------------------------------------------------------------------
(* Senders.  Those of the log and billing connections look at the flags,   *)
(* lock and then read the pointer; the window's help command reads the     *)
(* pointer to the wanted connection with neither.                          *)

StartSend ==
  /\ At(User, "idle")
  /\ IF kind = "wanted"
       THEN Hold(User, ptr) /\ Goto(User, "send")
       ELSE /\ use /\ ~reconnect /\ ptr # None
            /\ Goto(User, "rlock") /\ UNCHANGED x
  /\ UNCHANGED <<kind, ptr, flags, lock, objects, timers, old, ret, history, stray>>

ReadLock ==
  /\ At(User, "rlock")
  /\ Lock!AcquireRead(User)
  /\ Hold(User, ptr)
  /\ Goto(User, "send")
  /\ UNCHANGED <<kind, ptr, flags, objects, timers, old, ret, history, stray>>

Send ==
  /\ At(User, "send")
  /\ AddRef(User, x[User], 1)
  /\ Goto(User, "sent")
  /\ UNCHANGED <<kind, ptr, flags, lock, made, open, io, timers, local, history>>

EndSend ==
  /\ At(User, "sent")
  /\ ReleaseRef(User, x[User])
  /\ Return(User, IF kind = "wanted" THEN "idle" ELSE "runlock")
  /\ UNCHANGED <<kind, ptr, flags, lock, made, open, io, timers, history>>

ReadUnlock ==
  /\ At(User, "runlock")
  /\ Lock!ReleaseRead(User)
  /\ Return(User, "idle")
  /\ UNCHANGED <<kind, ptr, flags, objects, timers, history, stray>>

-----------------------------------------------------------------------------
(* The end of ListenThread.  It neither clears the pointer nor stops the   *)
(* timer; the wanted connection is left alone.                             *)

Shutdown ==
  /\ At(Listener, "idle")
  /\ ~shutdown /\ kind # "wanted" /\ ptr # None /\ pc[Main] = "idle"
  /\ Lock!AcquireWrite(Listener)
  /\ shutdown' = TRUE
  /\ Hold(Listener, ptr)
  /\ Goto(Listener, "end")
  /\ UNCHANGED <<kind, ptr, flags, objects, timers, old, ret, noSocket, leaked, stray>>

EndConnection ==
  /\ At(Listener, "end")
  /\ IF reconnect THEN Goto(Listener, "release") /\ UNCHANGED ret
                  ELSE CallClose(Listener, "release")
  /\ UNCHANGED <<kind, ptr, flags, lock, objects, timers, x, old, history, stray>>

ReleasePointer ==
  /\ At(Listener, "release")
  /\ ReleaseRef(Listener, x[Listener])
  /\ Lock!ReleaseWrite(Listener)
  /\ Return(Listener, "idle")
  /\ UNCHANGED <<kind, ptr, flags, made, open, io, timers, history>>

-----------------------------------------------------------------------------
Closing(t) == ExchangeHandle(t) \/ OnClose(t) \/ ArmTimer(t) \/ ReleaseSocket(t)
Initializing(t) == Initialize(t) \/ OnCreate(t) \/ ReleaseRead(t) \/ EndInitialize(t)
Reconnecting(t) ==
  \/ Check(t) \/ Connect(t) \/ ReleaseFailed(t)
  \/ Swap(t) \/ SetFlags(t) \/ ReleaseOld(t) \/ WriteUnlock(t)

Next ==
  \/ FirstConnect
  \/ \E t \in Threads : Closing(t) \/ Initializing(t)
  \/ \E t \in Timers : Fire(t) \/ Reconnecting(t) \/ WriteLock(t)
  \/ ReadFails \/ EndCallback
  \/ StartSend \/ ReadLock \/ Send \/ EndSend \/ ReadUnlock
  \/ Shutdown \/ EndConnection \/ ReleasePointer

Spec == Init /\ [][Next]_vars

(***************************************************************************)
(* A pending timer fires and threads that need not wait go on.  A thread   *)
(* that waits for the lock gets it if it is free again and again.  Nothing *)
(* makes a connection fail, a user send or the server shut down.           *)
(***************************************************************************)
Fairness ==
  /\ WF_vars(\E t \in Timers : Fire(t))
  /\ \A t \in Timers : SF_vars(WriteLock(t)) /\ WF_vars(Reconnecting(t))
  /\ \A t \in Threads : WF_vars(Closing(t)) /\ WF_vars(Initializing(t))
  /\ WF_vars(EndCallback) /\ SF_vars(ReadLock) /\ WF_vars(Send \/ EndSend \/ ReadUnlock)
  /\ WF_vars(EndConnection \/ ReleasePointer)

FairSpec == Spec /\ Fairness

-----------------------------------------------------------------------------
(* Properties *)

TypeOK ==
  /\ ptr \in Socks \cup {None} /\ reconnect \in BOOLEAN /\ use \in BOOLEAN
  /\ readers \subseteq {User} /\ writers \subseteq Timers \cup {Listener}
  /\ UNION {open, deleted, io, timers, leaked} \subseteq made
  /\ made \subseteq Socks /\ refs \in [Socks -> Nat]
  /\ pc \in [Threads -> PCs] /\ ret \in [Threads -> PCs]
  /\ x \in [Threads -> Socks \cup {None}] /\ old \in [Threads -> Socks \cup {None}]
  /\ stray \subseteq Threads \X (Socks \cup {None})

\* Who will start the next attempt: an open connection when it is closed, a
\* CloseSocket that has not armed the timer yet, a pending timer, or a routine
\* that has not made its object yet.
Carriers ==
  open \cup timers
    \cup {x[t] : t \in {u \in Threads : pc[u] \in {"onclose", "arm"}}}
    \cup {x[t] : t \in {u \in Timers : pc[u] \in {"check", "connect"}}}

\* The chain of attempts neither ends nor forks, whichever thread closes a
\* connection and wherever the routine is: the comment in the routines says that
\* after an error the timer runs and connects again (LogSocket.cpp:38-40).  It
\* does end where socket() itself fails, as OnClose is then not called.
RetryChain ==
  made # {} => Cardinality(Carriers) = IF noSocket THEN 0 ELSE 1

\* Until the server shuts down the pointer never leads to a deleted object, so a
\* sender that locks is safe although it looked at the flags before.
PointerIsLive == ~shutdown /\ ptr # None => ptr \notin deleted

\* The window, which does not lock, meets a deleted object only if that object never
\* was connected: else the reference OnCreate leaks keeps the object.  It meets NULL
\* when the connection is not configured.
UnlockedUse ==
  ~shutdown => \A s \in stray :
    s[1] = User /\ kind = "wanted" /\ s[2] \notin leaked

\* the objects a thread, the port, the timer chain or the pointer still knows
Known ==
  {ptr} \cup open \cup io
    \cup {x[t] : t \in {u \in Threads : pc[u] # "idle"}}
    \cup {old[t] : t \in {u \in Timers : pc[u] # "idle"}}

\* No object is lost but by the two references that nobody gives back: OnCreate's
\* and that of an Initialize the completion port refused.
OnlyTheseLeak ==
  \A o \in made \ Known : o \in deleted \cup leaked

\* An attempt ends: no routine waits for ever for the lock, whoever holds it and
\* calls CloseSocket or Initialize under it.  (The last of Socks has no successor.)
AttemptEnds ==
  \A t \in Timers :
    pc[t] = "check" ~>
      pc[t] = "idle" \/ (pc[t] = "connect" /\ made = Socks) \/ stray # {}
=============================================================================
