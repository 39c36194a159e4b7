-------------------------------- MODULE Gate --------------------------------
(***************************************************************************)
(* The client side of the server (CIOServerEx, CSocketServerEx) as four    *)
(* registries that have to agree: the socket map from handles to objects,  *)
(* the number of sockets compared with SocketLimit, the connections per    *)
(* address of CIPAccessLimit, and the timers.  Each has a lock or an       *)
(* interlocked operation of its own; accepting and closing a connection    *)
(* updates them one after the other, on any thread of the completion port. *)
(* Handles belong to the kernel, which reuses them once they are closed.   *)
(*                                                                         *)
(* What a connection reads and writes is in IOSocket, when it is idle in   *)
(* IdleTimer: here any live connection may be closed at any time.          *)
(***************************************************************************)
EXTENDS Integers, FiniteSets

CONSTANTS
  Workers,        \* threads that run completions and timer callbacks
  Conns,          \* CSocketServerEx objects, each constructed once: bounds the history
  Handles,        \* the kernel's socket handles
  IPs,            \* client addresses
  None,           \* no handle, object or address
  Limits,         \* the values SocketLimit can be set to
  IPAccessLimit   \* config.IPAccessLimit, 0 for no limit

ASSUME GateAssumption ==
  /\ IsFiniteSet(Workers) /\ Workers # {} /\ IsFiniteSet(Conns)
  /\ None \notin Conns \cup Handles \cup IPs
  /\ Limits \subseteq Nat /\ Limits # {} /\ IPAccessLimit \in Nat

VARIABLES
  kernelOpen,   \* the handles that are open in the kernel
  socketmap,    \* CIOServerEx::socketmap, None where there is no entry
  socketCount,  \* reporter.m_SocketCount
  socketLimit,  \* config.SocketLimit
  accessmap,    \* CIPAccessLimit::accessmap, 0 where there is no entry
  hSocket,      \* m_hSocket of every object, None before and after
  addr,         \* CSocketServerEx::addr
  timers,       \* the objects whose timer exists, with the handle it was given
  untimed,      \* history: the objects whose timer could not be created
  started,      \* the objects whose Initialize has run
  pc, h, c, ip  \* per thread: control point, handle, object and address in hand

registries == <<kernelOpen, socketmap, socketCount, socketLimit, accessmap>>
objects    == <<hSocket, addr, timers, untimed, started>>
locals     == <<h, c, ip>>
vars == <<registries, objects, pc, locals>>

PCs == { "idle",
         "limit", "access", "allocate", "insert", "init", "reject",  \* accept
         "find",                                                     \* the timer
         "close", "uncount", "remove", "release", "closesocket" }    \* CloseSocket

Goto(t, label) == pc' = [pc EXCEPT ![t] = label]

Init ==
  /\ kernelOpen = {} /\ socketmap = [x \in Handles |-> None] /\ socketCount = 0
  /\ socketLimit \in Limits /\ accessmap = [a \in IPs |-> 0]
  /\ hSocket = [x \in Conns |-> None] /\ addr = [x \in Conns |-> None]
  /\ timers = {} /\ untimed = {} /\ started = {}
  /\ pc = [t \in Workers |-> "idle"] /\ h = [t \in Workers |-> None]
  /\ c = [t \in Workers |-> None] /\ ip = [t \in Workers |-> None]

\* a thread is done and forgets what it had in hand
Done(t) ==
  /\ Goto(t, "idle")
  /\ h' = [h EXCEPT ![t] = None] /\ c' = [c EXCEPT ![t] = None]
  /\ ip' = [ip EXCEPT ![t] = None]

-----------------------------------------------------------------------------
(* CIOServerEx::OnIOCallback and CreateSocket *)

Accept(t) ==
  /\ pc[t] = "idle"
  /\ \E x \in Handles \ kernelOpen, a \in IPs :
       /\ kernelOpen' = kernelOpen \cup {x}
       /\ h' = [h EXCEPT ![t] = x] /\ ip' = [ip EXCEPT ![t] = a]
  /\ Goto(t, "limit")
  /\ UNCHANGED <<socketmap, socketCount, socketLimit, accessmap, objects, c>>

\* the bug of a limit that is not compared at all
CheckLimitNever(t) ==
  /\ pc[t] = "limit"
  /\ Goto(t, "access")
  /\ UNCHANGED <<registries, objects, locals>>

\* m_SocketCount is compared here and incremented by the constructor later
CheckLimit(t) ==
  /\ pc[t] = "limit"
  /\ Goto(t, IF socketCount >= socketLimit THEN "reject" ELSE "access")
  /\ UNCHANGED <<registries, objects, locals>>

\* the bug of a limit that admits one connection more
SetAccessIPOneMore(t) ==
  /\ pc[t] = "access"
  /\ LET a == ip[t] IN
     IF IPAccessLimit = 0
     THEN Goto(t, "allocate") /\ UNCHANGED accessmap
     ELSE IF accessmap[a] <= IPAccessLimit
     THEN Goto(t, "allocate") /\ accessmap' = [accessmap EXCEPT ![a] = @ + 1]
     ELSE Goto(t, "reject") /\ UNCHANGED accessmap
  /\ UNCHANGED <<kernelOpen, socketmap, socketCount, socketLimit, objects, locals>>

\* the critical section of CIPAccessLimit::SetAccessIP; an address without an entry
\* gets one with count 1 whatever the limit, which is then at least 1
SetAccessIP(t) ==
  /\ pc[t] = "access"
  /\ LET a == ip[t] IN
     IF IPAccessLimit = 0
     THEN Goto(t, "allocate") /\ UNCHANGED accessmap
     ELSE IF accessmap[a] = 0 \/ accessmap[a] < IPAccessLimit
     THEN Goto(t, "allocate") /\ accessmap' = [accessmap EXCEPT ![a] = @ + 1]
     ELSE Goto(t, "reject") /\ UNCHANGED accessmap
  /\ UNCHANGED <<kernelOpen, socketmap, socketCount, socketLimit, objects, locals>>

\* the constructor and SetAddress; when CreateTimerQueueTimer fails the constructor
\* only logs it, and the connection goes on without a timer
Allocate(t) ==
  /\ pc[t] = "allocate"
  /\ \E x \in Conns :
       /\ hSocket[x] = None /\ addr[x] = None
       /\ hSocket' = [hSocket EXCEPT ![x] = h[t]]
       /\ addr' = [addr EXCEPT ![x] = ip[t]]
       /\ \/ timers' = timers \cup {<<x, h[t]>>} /\ UNCHANGED untimed
          \/ untimed' = untimed \cup {x} /\ UNCHANGED timers
       /\ c' = [c EXCEPT ![t] = x]
  /\ socketCount' = socketCount + 1
  /\ Goto(t, "insert")
  /\ UNCHANGED <<kernelOpen, socketmap, socketLimit, accessmap, started, h, ip>>

\* map::insert leaves an entry that is already there
Insert(t) ==
  /\ pc[t] = "insert"
  /\ socketmap' = [socketmap EXCEPT ![h[t]] = IF @ = None THEN c[t] ELSE @]
  /\ Goto(t, "init")
  /\ UNCHANGED <<kernelOpen, socketCount, socketLimit, accessmap, objects, locals>>

\* Initialize: the read is issued, or CloseSocket is called
Initialize(t) ==
  /\ pc[t] = "init"
  /\ started' = started \cup {c[t]}
  /\ \/ Done(t)
     \/ Goto(t, "close") /\ UNCHANGED locals
  /\ UNCHANGED <<registries, hSocket, addr, timers, untimed>>

\* OnIOCallback closes the handle of a connection CreateSocket refused
Reject(t) ==
  /\ pc[t] = "reject"
  /\ kernelOpen' = kernelOpen \ {h[t]}
  /\ Done(t)
  /\ UNCHANGED <<socketmap, socketCount, socketLimit, accessmap, objects>>

-----------------------------------------------------------------------------
(* Timers *)

\* SocketExTimerCallback is queued with the handle the constructor gave the timer;
\* deleting the timer does not call it back
TimerFires(t) ==
  /\ pc[t] = "idle"
  /\ \E e \in timers : h' = [h EXCEPT ![t] = e[2]]
  /\ Goto(t, "find")
  /\ UNCHANGED <<registries, objects, c, ip>>

\* FindSocket, then OnTimerCallback closes the connection if it is idle
FindSocket(t) ==
  /\ pc[t] = "find"
  /\ \/ Done(t)
     \/ /\ socketmap[h[t]] # None
        /\ c' = [c EXCEPT ![t] = socketmap[h[t]]]
        /\ Goto(t, "close")
        /\ UNCHANGED <<h, ip>>
  /\ UNCHANGED <<registries, objects>>

-----------------------------------------------------------------------------
(* CloseSocket and CSocketServerEx::OnClose *)

\* a read, a write or a handler of a live connection ends in CloseSocket
Drop(t) ==
  /\ pc[t] = "idle"
  /\ \E x \in started : hSocket[x] # None /\ c' = [c EXCEPT ![t] = x]
  /\ Goto(t, "close")
  /\ UNCHANGED <<registries, objects, h, ip>>

\* the bug of a CloseSocket that calls closesocket before OnClose
CloseEarly(t) ==
  /\ pc[t] = "close"
  /\ IF hSocket[c[t]] = None
     THEN Done(t) /\ UNCHANGED <<hSocket, timers, kernelOpen>>
     ELSE /\ h' = [h EXCEPT ![t] = hSocket[c[t]]]
          /\ hSocket' = [hSocket EXCEPT ![c[t]] = None]
          /\ kernelOpen' = kernelOpen \ {hSocket[c[t]]}
          /\ timers' = {e \in timers : e[1] # c[t]}
          /\ Goto(t, "uncount")
          /\ UNCHANGED <<c, ip>>
  /\ UNCHANGED <<socketmap, socketCount, socketLimit, accessmap, addr, untimed, started>>

\* one caller gets the handle; OnClose deletes the timer of the object
Close(t) ==
  /\ pc[t] = "close"
  /\ IF hSocket[c[t]] = None
     THEN Done(t) /\ UNCHANGED <<hSocket, timers>>
     ELSE /\ h' = [h EXCEPT ![t] = hSocket[c[t]]]
          /\ hSocket' = [hSocket EXCEPT ![c[t]] = None]
          /\ timers' = {e \in timers : e[1] # c[t]}
          /\ Goto(t, "uncount")
          /\ UNCHANGED <<c, ip>>
  /\ UNCHANGED <<registries, addr, untimed, started>>

Uncount(t) ==
  /\ pc[t] = "uncount"
  /\ socketCount' = socketCount - 1
  /\ Goto(t, "remove")
  /\ UNCHANGED <<kernelOpen, socketmap, socketLimit, accessmap, objects, locals>>

\* the bug of an OnClose that leaves the entry in the map
RemoveSocketNone(t) ==
  /\ pc[t] = "remove"
  /\ Goto(t, "release")
  /\ UNCHANGED <<registries, objects, locals>>

\* CIOServerEx::RemoveSocket erases by handle, whatever object is there
RemoveSocket(t) ==
  /\ pc[t] = "remove"
  /\ socketmap' = [socketmap EXCEPT ![h[t]] = None]
  /\ Goto(t, "release")
  /\ UNCHANGED <<kernelOpen, socketCount, socketLimit, accessmap, objects, locals>>

\* the critical section of CIPAccessLimit::DelAccessIP
DelAccessIP(t) ==
  /\ pc[t] = "release"
  /\ accessmap' = IF IPAccessLimit = 0 THEN accessmap
                  ELSE [accessmap EXCEPT ![addr[c[t]]] = IF @ > 1 THEN @ - 1 ELSE 0]
  /\ Goto(t, "closesocket")
  /\ UNCHANGED <<kernelOpen, socketmap, socketCount, socketLimit, objects, locals>>

CloseHandle(t) ==
  /\ pc[t] = "closesocket"
  /\ kernelOpen' = kernelOpen \ {h[t]}
  /\ Done(t)
  /\ UNCHANGED <<socketmap, socketCount, socketLimit, accessmap, objects>>

\* CSocketInt's ChangeLimitUser
ChangeLimitUser ==
  /\ socketLimit' \in Limits
  /\ UNCHANGED <<kernelOpen, socketmap, socketCount, accessmap, objects, pc, locals>>

-----------------------------------------------------------------------------
Next ==
  \/ \E t \in Workers :
       \/ Accept(t) \/ CheckLimit(t) \/ SetAccessIP(t) \/ Allocate(t) \/ Insert(t)
       \/ Initialize(t) \/ Reject(t)
       \/ TimerFires(t) \/ FindSocket(t)
       \/ Drop(t) \/ Close(t) \/ Uncount(t) \/ RemoveSocket(t) \/ DelAccessIP(t)
       \/ CloseHandle(t)
  \/ ChangeLimitUser

Spec == Init /\ [][Next]_vars

-----------------------------------------------------------------------------
(* Properties *)

TypeOK ==
  /\ kernelOpen \subseteq Handles /\ socketmap \in [Handles -> Conns \cup {None}]
  /\ socketCount \in 0..Cardinality(Conns) /\ socketLimit \in Limits
  /\ accessmap \in [IPs -> Nat]
  /\ hSocket \in [Conns -> Handles \cup {None}] /\ addr \in [Conns -> IPs \cup {None}]
  /\ timers \subseteq Conns \X Handles /\ untimed \subseteq Conns /\ started \subseteq Conns
  /\ pc \in [Workers -> PCs] /\ h \in [Workers -> Handles \cup {None}]
  /\ c \in [Workers -> Conns \cup {None}] /\ ip \in [Workers -> IPs \cup {None}]

Live == {x \in Conns : hSocket[x] # None}

\* Whenever no thread is in the middle of accepting or closing, the four registries
\* and the kernel agree on the connections there are: no handle, count, address,
\* map entry or timer is left behind by any order of accepts, refusals and closes; a
\* connection is without a timer only if the timer could not be created
\* (SocketServerEx.cpp:116-120), and then nobody closes it when it is idle.
RegistriesAgree ==
  (\A t \in Workers : pc[t] = "idle") =>
    /\ socketCount = Cardinality(Live)
    /\ kernelOpen = {hSocket[x] : x \in Live}
    /\ \A k \in Handles, x \in Conns : socketmap[k] = x <=> hSocket[x] = k
    /\ timers = {<<x, hSocket[x]>> : x \in Live \ untimed}
    /\ IPAccessLimit > 0 =>
         \A a \in IPs : accessmap[a] = Cardinality({x \in Live : addr[x] = a})

\* A live connection is found under its handle, although the kernel reuses handles,
\* map::insert does not overwrite and RemoveSocket erases whatever is there; and
\* nothing is found under a handle that is closed (IOServer.cpp:641-678).
MapFindsLive ==
  /\ \A x \in started : hSocket[x] # None => socketmap[hSocket[x]] = x
  /\ \A k \in Handles : socketmap[k] # None => k \in kernelOpen

\* No address has more than IPAccessLimit connections, the one whose closing is not
\* finished included (IPList.cpp:40-87).
AddressLimit ==
  IPAccessLimit > 0 =>
    \A a \in IPs :
      Cardinality({x \in Conns : addr[x] = a /\ (x \in Live
                     \/ \E t \in Workers : c[t] = x /\ pc[t] \in {"uncount", "remove"})})
        <= IPAccessLimit

\* SocketLimit is compared and m_SocketCount incremented in different steps: the
\* limit is passed by at most one connection for every other thread.
LimitOvershoot ==
  \E n \in Limits : socketCount <= n + Cardinality(Workers) - 1
=============================================================================
