--------------------------- MODULE ReconnectProofs ---------------------------
(***************************************************************************)
(* The chain of attempts, the pointer and the references of the outgoing   *)
(* connections, for any number of timer threads and of connections.        *)
(***************************************************************************)
EXTENDS Reconnect, FiniteSetTheorems, TLAPS

-----------------------------------------------------------------------------
(* Where a thread is *)

ClosingPCs == {"exchange", "onclose", "arm", "closed"}

\* a thread that has taken the handle of its object
Shut(t) == pc[t] \in {"onclose", "arm", "closed"}

Makers == Timers \cup {Main}

\* a thread that has made the object it has in hand
Making(t) == t \in Makers /\ pc[t] \notin {"start", "idle", "check", "connect"}

\* from the constructor to the AddRef of Initialize: nobody else can close the object
Fresh(t) ==
  /\ t \in Makers
  /\ \/ pc[t] \in {"wlock", "swap", "flags", "init"}
     \/ pc[t] = "drop" /\ kind = "wanted"

\* on the way out of the first read, or before it
Unread(t) ==
  Fresh(t) \/ (t \in Makers /\ (pc[t] \in {"create", "noread"} \/ (pc[t] \in ClosingPCs /\ ret[t] = "noread")))

\* the object is not, or will never be, the one of the pointer
Apart(t) ==
  t \in Timers /\ (pc[t] \in {"wlock", "swap", "fail"} \/ (pc[t] \in ClosingPCs /\ ret[t] = "fail"))

\* the routine has swapped the pointer and will release the object it had
Dropping(t) ==
  /\ t \in Timers
  /\ \/ pc[t] = "drop"
     \/ kind # "wanted" /\ pc[t] \in {"flags", "init", "create", "noread", "created"}
     \/ kind # "wanted" /\ pc[t] \in ClosingPCs /\ ret[t] # "fail"
     \/ kind = "ip" /\ pc[t] = "unlock"

\* the routine has the lock
Locked(t) ==
  /\ t \in Timers
  /\ \/ pc[t] \in {"swap", "flags", "init", "create", "noread", "created", "unlock"}
     \/ pc[t] \in ClosingPCs /\ ret[t] # "fail"
     \/ pc[t] = "drop" /\ kind # "ip"

Latest == Cardinality(made) - 1

\* a thread that will arm the timer or make the next object
Carries(t) ==
  pc[t] \in {"onclose", "arm"} \/ (t \in Timers /\ pc[t] \in {"check", "connect"})

-----------------------------------------------------------------------------
StrayOK == stray \subseteq Threads \X (made \cup {None})

Values ==
  /\ kind \in {"log", "ip", "wanted"} /\ reconnect \in BOOLEAN /\ use \in BOOLEAN
  /\ noSocket \in BOOLEAN /\ shutdown \in BOOLEAN
  /\ made \subseteq Socks /\ made = 0..Latest
  /\ open \subseteq made /\ deleted \subseteq made /\ io \subseteq made /\ timers \subseteq made
  /\ leaked \subseteq made
  /\ refs \in [Socks -> Nat]
  /\ ptr \in made \cup {None} /\ (ptr = None => made = {})
  /\ StrayOK

Locals ==
  /\ pc \in [Threads -> PCs] /\ ret \in [Threads -> PCs]
  /\ x \in [Threads -> made \cup {None}] /\ old \in [Threads -> made \cup {None}]

Typing == Values /\ Locals

CloserRets(t) ==
  IF t = Worker THEN {"callback"}
  ELSE IF t = Listener THEN {"release"}
  ELSE IF t = Main THEN {"idle", "noread"}
  ELSE IF kind = "log" THEN {"fail", "noread", "drop"}
  ELSE {"fail", "noread", "unlock"}

Places(t) ==
  CASE t = Worker   -> ClosingPCs \cup {"idle", "callback"}
    [] t = User     -> {"idle", "rlock", "send", "sent", "runlock"}
    [] t = Listener -> ClosingPCs \cup {"idle", "end", "release"}
    [] t = Main     -> ClosingPCs \cup {"start", "idle", "init", "create", "noread", "created"}
    [] OTHER        -> ClosingPCs \cup
         {"idle", "check", "connect", "fail", "wlock", "swap", "flags", "drop", "unlock", "init",
          "create", "noread", "created"}

Placed(t) ==
  /\ pc[t] \in Places(t)
  /\ pc[t] \in ClosingPCs => ret[t] \in CloserRets(t)
  /\ x[t] = None => pc[t] \in {"start", "idle", "rlock"} \/ t = User

\* WinMain makes the first object, before anyone can use or end the connection
MainInv ==
  /\ pc[Main] = "start" => made = {}
  /\ noSocket => made # {}
  /\ pc[Main] \notin {"start", "idle"} => x[Main] = 0
  /\ pc[Listener] # "idle" => pc[Main] = "idle"
  /\ pc[User] = "rlock" => ptr # None /\ kind # "wanted"

PlaceInv == (\A t \in Threads : Placed(t)) /\ MainInv

(***************************************************************************)
(* The chain of attempts, at the object made last: an open connection, a   *)
(* pending timer or a thread carries it, and it ends when socket() fails.  *)
(***************************************************************************)
AtLatest == open \subseteq {Latest} /\ timers \subseteq {Latest}
OneCarrier ==
  /\ \A t \in Threads : Carries(t) => x[t] = Latest /\ open = {} /\ timers = {}
  /\ \A t, u \in Threads : Carries(t) /\ Carries(u) => t = u
  /\ open = {} \/ timers = {}
ChainGoesOn ==
  IF noSocket THEN open = {} /\ timers = {} /\ \A t \in Threads : ~Carries(t)
  ELSE made # {} => open # {} \/ timers # {} \/ \E t \in Threads : Carries(t)
ReconnectSet ==
  timers # {} \/ (\E t \in Threads : Carries(t) /\ pc[t] # "onclose") => reconnect
ChainInv == AtLatest /\ OneCarrier /\ ChainGoesOn /\ ReconnectSet

LockInv ==
  /\ readers = IF kind # "wanted" /\ pc[User] \in {"send", "sent", "runlock"} THEN {User} ELSE {}
  /\ \A t \in Threads : t \in writers <=> Locked(t) \/ (t = Listener /\ pc[t] # "idle")
  /\ writers \subseteq Threads
  /\ \A t, u \in writers : t = u
  /\ readers = {} \/ writers = {}

PtrInv ==
  /\ \A t \in Timers : Locked(t) /\ pc[t] # "swap" => x[t] = ptr
  /\ pc[Listener] # "idle" => x[Listener] = ptr
  /\ kind # "wanted" /\ pc[User] \in {"send", "sent"} => x[User] = ptr /\ ptr # None

\* who has an object: one thread makes it, nobody closes it before Initialize, and
\* one CloseSocket has its handle
OneMaker == \A t, u \in Makers : Making(t) /\ Making(u) /\ x[t] = x[u] => t = u
FreshOpen == \A t \in Makers : Fresh(t) => x[t] \in open
FreshAlone ==
  \A t \in Makers, u \in Threads : Fresh(t) /\ pc[u] = "exchange" => x[u] # x[t]
OneCloser == \A t, u \in Threads : Shut(t) /\ Shut(u) /\ x[t] = x[u] => t = u
ShutClosed == \A t \in Threads : Shut(t) => x[t] \notin open
OwnInv == OneMaker /\ FreshOpen /\ FreshAlone /\ OneCloser /\ ShutClosed

\* an object has one read, or one completion of it
UnreadInv ==
  \A t \in Makers : Unread(t) => x[t] \notin io /\ (pc[Worker] # "idle" => x[Worker] # x[t])
WorkerInv == pc[Worker] # "idle" => x[Worker] \notin io
NotLeaked == \A t \in Makers : Fresh(t) \/ pc[t] = "create" => x[t] \notin leaked
ReadInv == UnreadInv /\ WorkerInv /\ NotLeaked

\* the pointer, the objects before it and those after it are different
ApartInv == \A t \in Timers : Apart(t) => x[t] # ptr
DropInv == \A t \in Timers : Dropping(t) => old[t] # ptr /\ old[t] \in made
OneDropper == \A t, u \in Timers : Dropping(t) /\ Dropping(u) /\ old[t] = old[u] => t = u
ApartDropped == \A t, u \in Timers : Apart(t) /\ Dropping(u) => x[t] # old[u]
RoleInv == ApartInv /\ DropInv /\ OneDropper /\ ApartDropped

-----------------------------------------------------------------------------
B2N(b) == IF b THEN 1 ELSE 0

\* the reference of the pointer, which the object has from its constructor
Wanted(o) ==
  o = ptr \/ (\E t \in Timers : Apart(t) /\ x[t] = o) \/ (\E t \in Timers : Dropping(t) /\ old[t] = o)

\* the reference of the constructor once OnClose has taken that of the pointer
Closed(o) == \E t \in Threads : pc[t] = "closed" /\ x[t] = o

\* the reference of Initialize
Initializes(t) ==
  /\ t \in Makers
  /\ \/ pc[t] \in {"create", "noread", "created"}
     \/ pc[t] \in ClosingPCs /\ ret[t] = "noread"
Initial(o) == \E t \in Makers : Initializes(t) /\ x[t] = o

\* the reference of the outstanding read, or of its completion, or of its failure
FailsToRead(t) ==
  t \in Makers /\ (pc[t] = "noread" \/ (pc[t] \in ClosingPCs /\ ret[t] = "noread"))
ReadBy(o) ==
  \/ o \in io
  \/ pc[Worker] # "idle" /\ x[Worker] = o
  \/ \E t \in Makers : FailsToRead(t) /\ x[t] = o

Sending(o) == pc[User] = "sent" /\ x[User] = o

Holders(o) ==
  B2N(Wanted(o)) + B2N(Closed(o)) + B2N(Initial(o)) + B2N(ReadBy(o)) + B2N(Sending(o))
    + B2N(o \in leaked)

RefInv ==
  /\ \A o \in made : o \in deleted <=> refs[o] = 0
  /\ \A o \in made : refs[o] <= Holders(o)
  /\ ~shutdown /\ stray = {} => \A o \in made : refs[o] = Holders(o)
  /\ pc[Listener] # "idle" => shutdown

IInv ==
  /\ Typing /\ PlaceInv /\ ChainInv /\ LockInv /\ PtrInv /\ OwnInv /\ ReadInv /\ RoleInv
  /\ RefInv /\ PointerIsLive /\ UnlockedUse

-----------------------------------------------------------------------------
(* What the actions do *)

\* who is who
LEMMA Kinds ==
  /\ Worker \in Threads /\ User \in Threads /\ Main \in Threads /\ Listener \in Threads
  /\ Worker # User /\ Worker # Main /\ Worker # Listener /\ User # Main /\ User # Listener
  /\ Main # Listener
  /\ Worker \notin Makers /\ User \notin Makers /\ Listener \notin Makers /\ Main \in Makers
  /\ \A t \in Timers : /\ t \in Threads /\ t \in Makers
                       /\ t # Worker /\ t # User /\ t # Main /\ t # Listener
  /\ \A t \in Makers : t \in Threads /\ (t \in Timers \/ t = Main)
  /\ \A t \in Threads : t \in Timers \/ t \in {Worker, User, Main, Listener}
BY ReconnectAssumption DEF Threads, Makers

\* the threads but t stay where they are
Others(t) ==
  \A u \in Threads : u # t =>
    pc'[u] = pc[u] /\ x'[u] = x[u] /\ old'[u] = old[u] /\ ret'[u] = ret[u]

\* t goes to label; if it becomes idle it forgets what it had in hand
Moves(t, label) ==
  /\ Others(t) /\ pc'[t] = label
  /\ label # "idle" => x'[t] = x[t] /\ old'[t] = old[t] /\ ret'[t] = ret[t]
  /\ label = "idle" => x'[t] = None /\ old'[t] = None /\ ret'[t] = "idle"

\* t calls CloseSocket
Calls(t, back) ==
  Others(t) /\ pc'[t] = "exchange" /\ ret'[t] = back /\ x'[t] = x[t] /\ old'[t] = old[t]

LEMMA ReturnMoves ==
  ASSUME Typing, NEW t \in Threads, NEW l, Return(t, l) PROVE Moves(t, l)
BY DEF Typing, Values, Locals, Return, Goto, Hold, Moves, Others, local

LEMMA GotoMoves ==
  ASSUME Typing, NEW t \in Threads, NEW l, l # "idle", Goto(t, l), UNCHANGED local
  PROVE  Moves(t, l)
BY DEF Typing, Values, Locals, Goto, Moves, Others, local

LEMMA CallCalls ==
  ASSUME Typing, NEW t \in Threads, NEW l, CallClose(t, l), UNCHANGED <<x, old>>
  PROVE  Calls(t, l)
BY DEF Typing, Values, Locals, CallClose, Goto, Calls, Others

\* SwapOrder, step by step
LEMMA AfterTable ==
  ASSUME Typing, NEW t
  PROVE  /\ t = Main => After(t, "init") = "idle"
         /\ t # Main =>
              /\ After(t, "swap") = IF kind = "wanted" THEN "drop" ELSE "flags"
              /\ After(t, "flags") = "init"
              /\ After(t, "init") = IF kind = "log" THEN "drop" ELSE "unlock"
              /\ After(t, "drop") = IF kind = "log" THEN "unlock"
                                    ELSE IF kind = "ip" THEN "idle" ELSE "flags"
              /\ After(t, "unlock") = IF kind = "ip" THEN "drop" ELSE "idle"
BY DEF Typing, Values, Locals, After, SwapOrder

LEMMA ExchangeHandleEffect ==
  ASSUME Typing, NEW t \in Threads, ExchangeHandle(t)
  PROVE  /\ stray = {} /\ pc[t] = "exchange"
         /\ Moves(t, IF x[t] \in open THEN "onclose" ELSE ret[t])
         /\ open' = open \ {x[t]}
         /\ UNCHANGED <<kind, ptr, reconnect, use, readers, writers, made, refs,
              deleted, io, timers, noSocket, leaked, shutdown, stray>>
BY Kinds, ReturnMoves, GotoMoves, CallCalls, AfterTable
   DEF ExchangeHandle, At, flags, lock, objects, local, history

LEMMA OnCloseEffect ==
  ASSUME Typing, NEW t \in Threads, OnClose(t)
  PROVE  /\ stray = {} /\ pc[t] = "onclose"
         /\ Moves(t, "arm")
         /\ reconnect' = TRUE /\ use' = FALSE
         /\ UNCHANGED <<kind, ptr, readers, writers, made, open, refs, deleted, io,
              timers, noSocket, leaked, shutdown, stray>>
BY Kinds, ReturnMoves, GotoMoves, CallCalls, AfterTable
   DEF OnClose, At, flags, lock, objects, local, history

LEMMA ArmTimerEffect ==
  ASSUME Typing, NEW t \in Threads, ArmTimer(t)
  PROVE  /\ stray = {} /\ pc[t] = "arm"
         /\ Moves(t, "closed")
         /\ timers' = timers \cup {x[t]} /\ AddRef(t, x[t], 1)
         /\ UNCHANGED <<kind, ptr, reconnect, use, readers, writers, made, open, io,
              noSocket, leaked, shutdown>>
BY Kinds, ReturnMoves, GotoMoves, CallCalls, AfterTable
   DEF ArmTimer, At, flags, lock, objects, local, history

LEMMA ReleaseSocketEffect ==
  ASSUME Typing, NEW t \in Threads, ReleaseSocket(t)
  PROVE  /\ stray = {} /\ pc[t] = "closed"
         /\ Moves(t, ret[t]) /\ ReleaseRef(t, x[t])
         /\ UNCHANGED <<kind, ptr, reconnect, use, readers, writers, made, open, io,
              timers, noSocket, leaked, shutdown>>
BY Kinds, ReturnMoves, GotoMoves, CallCalls, AfterTable
   DEF ReleaseSocket, At, flags, lock, objects, local, history

LEMMA FireEffect ==
  ASSUME Typing, NEW t \in Timers, Fire(t)
  PROVE  /\ stray = {} /\ pc[t] = "idle"
         /\ Others(t) /\ pc'[t] = "check" /\ old'[t] = old[t] /\ ret'[t] = ret[t]
         /\ x'[t] \in timers /\ timers' = timers \ {x'[t]}
         /\ UNCHANGED <<kind, ptr, reconnect, use, readers, writers, made, open, refs,
              deleted, io, noSocket, leaked, shutdown, stray>>
BY Kinds, ReturnMoves, GotoMoves, CallCalls, AfterTable
   DEF Fire, At, flags, lock, objects, local, history, Typing, Values, Locals, Goto, Hold,
       Others, CallClose

LEMMA CheckEffect ==
  ASSUME Typing, NEW t \in Timers, Check(t)
  PROVE  /\ stray = {} /\ pc[t] = "check"
         /\ Moves(t, IF reconnect THEN "connect" ELSE "idle")
         /\ UNCHANGED <<kind, ptr, reconnect, use, readers, writers, made, open, refs,
              deleted, io, timers, noSocket, leaked, shutdown, stray>>
BY Kinds, ReturnMoves, GotoMoves, CallCalls, AfterTable
   DEF Check, At, flags, lock, objects, local, history

LEMMA ReleaseFailedEffect ==
  ASSUME Typing, NEW t \in Timers, ReleaseFailed(t)
  PROVE  /\ stray = {} /\ pc[t] = "fail"
         /\ Moves(t, "idle") /\ ReleaseRef(t, x[t])
         /\ UNCHANGED <<kind, ptr, reconnect, use, readers, writers, made, open, io,
              timers, noSocket, leaked, shutdown>>
BY Kinds, ReturnMoves, GotoMoves, CallCalls, AfterTable
   DEF ReleaseFailed, At, flags, lock, objects, local, history

LEMMA WriteLockEffect ==
  ASSUME Typing, NEW t \in Timers, WriteLock(t)
  PROVE  /\ stray = {} /\ pc[t] = "wlock"
         /\ Moves(t, "swap")
         /\ readers = {} /\ readers' = {} /\ writers = {} /\ writers' = {t}
         /\ UNCHANGED <<kind, ptr, reconnect, use, made, open, refs, deleted, io,
              timers, noSocket, leaked, shutdown, stray>>
BY Kinds, ReturnMoves, GotoMoves, CallCalls, AfterTable
   DEF WriteLock, At, flags, lock, objects, local, history, Lock!AcquireWrite

LEMMA SwapEffect ==
  ASSUME Typing, NEW t \in Timers, Swap(t)
  PROVE  /\ stray = {} /\ pc[t] = "swap"
         /\ Others(t) /\ pc'[t] = (IF kind = "wanted" THEN "drop" ELSE "flags")
         /\ x'[t] = x[t] /\ ret'[t] = ret[t] /\ old'[t] = ptr /\ ptr' = x[t]
         /\ UNCHANGED <<kind, reconnect, use, readers, writers, made, open, refs,
              deleted, io, timers, noSocket, leaked, shutdown, stray>>
BY Kinds, ReturnMoves, GotoMoves, CallCalls, AfterTable
   DEF Swap, At, flags, lock, objects, local, history, Typing, Values, Locals, Goto, Hold,
       Others, CallClose

LEMMA SetFlagsEffect ==
  ASSUME Typing, NEW t \in Timers, SetFlags(t)
  PROVE  /\ stray = {} /\ pc[t] = "flags"
         /\ Moves(t, "init")
         /\ reconnect' = FALSE /\ use' = TRUE
         /\ UNCHANGED <<kind, ptr, readers, writers, made, open, refs, deleted, io,
              timers, noSocket, leaked, shutdown, stray>>
BY Kinds, ReturnMoves, GotoMoves, CallCalls, AfterTable
   DEF SetFlags, At, flags, lock, objects, local, history

LEMMA ReleaseOldEffect ==
  ASSUME Typing, NEW t \in Timers, ReleaseOld(t)
  PROVE  /\ stray = {} /\ pc[t] = "drop"
         /\ Moves(t, IF kind = "log" THEN "unlock" ELSE IF kind = "ip" THEN "idle" ELSE "flags")
         /\ ReleaseRef(t, old[t])
         /\ UNCHANGED <<kind, ptr, reconnect, use, readers, writers, made, open, io,
              timers, noSocket, leaked, shutdown>>
BY Kinds, ReturnMoves, GotoMoves, CallCalls, AfterTable
   DEF ReleaseOld, At, flags, lock, objects, local, history

LEMMA WriteUnlockEffect ==
  ASSUME Typing, NEW t \in Timers, WriteUnlock(t)
  PROVE  /\ stray = {} /\ pc[t] = "unlock"
         /\ Moves(t, IF kind = "ip" THEN "drop" ELSE "idle")
         /\ t \in writers /\ writers' = writers \ {t}
         /\ UNCHANGED <<kind, ptr, reconnect, use, readers, made, open, refs, deleted,
              io, timers, noSocket, leaked, shutdown, stray>>
BY Kinds, ReturnMoves, GotoMoves, CallCalls, AfterTable
   DEF WriteUnlock, At, flags, lock, objects, local, history, Lock!ReleaseWrite

LEMMA InitializeEffect ==
  ASSUME Typing, NEW t \in Threads, Initialize(t)
  PROVE  /\ stray = {} /\ pc[t] = "init"
         /\ AddRef(t, x[t], 1)
         /\ \/ Moves(t, "create") /\ leaked' = leaked
            \/ /\ Calls(t, IF t = Main THEN "idle" ELSE IF kind = "log" THEN "drop" ELSE "unlock")
               /\ leaked' = leaked \cup {x[t]}
         /\ UNCHANGED <<kind, ptr, reconnect, use, readers, writers, made, open, io,
              timers, noSocket, shutdown>>
BY Kinds, ReturnMoves, GotoMoves, CallCalls, AfterTable
   DEF Initialize, At, flags, lock, objects, local, history

LEMMA OnCreateEffect ==
  ASSUME Typing, NEW t \in Threads, OnCreate(t)
  PROVE  /\ stray = {} /\ pc[t] = "create"
         /\ AddRef(t, x[t], IF kind = "log" THEN 1 ELSE 2)
         /\ leaked' = IF kind = "log" THEN leaked ELSE leaked \cup {x[t]}
         /\ \/ Moves(t, "created") /\ io' = io \cup {x[t]}
            \/ Calls(t, "noread") /\ io' = io
         /\ UNCHANGED <<kind, ptr, reconnect, use, readers, writers, made, open,
              timers, noSocket, shutdown>>
BY Kinds, ReturnMoves, GotoMoves, CallCalls, AfterTable
   DEF OnCreate, At, flags, lock, objects, local, history, OnCreateRefs

LEMMA ReleaseReadEffect ==
  ASSUME Typing, NEW t \in Threads, ReleaseRead(t)
  PROVE  /\ stray = {} /\ pc[t] = "noread"
         /\ Moves(t, "created") /\ ReleaseRef(t, x[t])
         /\ UNCHANGED <<kind, ptr, reconnect, use, readers, writers, made, open, io,
              timers, noSocket, leaked, shutdown>>
BY Kinds, ReturnMoves, GotoMoves, CallCalls, AfterTable
   DEF ReleaseRead, At, flags, lock, objects, local, history

LEMMA EndInitializeEffect ==
  ASSUME Typing, NEW t \in Threads, EndInitialize(t)
  PROVE  /\ stray = {} /\ pc[t] = "created"
         /\ Moves(t, IF t = Main THEN "idle" ELSE IF kind = "log" THEN "drop" ELSE "unlock")
         /\ ReleaseRef(t, x[t])
         /\ UNCHANGED <<kind, ptr, reconnect, use, readers, writers, made, open, io,
              timers, noSocket, leaked, shutdown>>
BY Kinds, ReturnMoves, GotoMoves, CallCalls, AfterTable
   DEF EndInitialize, At, flags, lock, objects, local, history

LEMMA ReadFailsEffect ==
  ASSUME Typing, ReadFails
  PROVE  /\ stray = {} /\ pc[Worker] = "idle"
         /\ Others(Worker) /\ pc'[Worker] = "exchange" /\ ret'[Worker] = "callback"
         /\ old'[Worker] = old[Worker] /\ x'[Worker] \in io /\ io' = io \ {x'[Worker]}
         /\ UNCHANGED <<kind, ptr, reconnect, use, readers, writers, made, open, refs,
              deleted, timers, noSocket, leaked, shutdown, stray>>
BY Kinds, ReturnMoves, GotoMoves, CallCalls, AfterTable
   DEF ReadFails, At, flags, lock, objects, local, history, Typing, Values, Locals, Goto, Hold,
       Others, CallClose

LEMMA EndCallbackEffect ==
  ASSUME Typing, EndCallback
  PROVE  /\ stray = {} /\ pc[Worker] = "callback"
         /\ Moves(Worker, "idle") /\ ReleaseRef(Worker, x[Worker])
         /\ UNCHANGED <<kind, ptr, reconnect, use, readers, writers, made, open, io,
              timers, noSocket, leaked, shutdown>>
BY Kinds, ReturnMoves, GotoMoves, CallCalls, AfterTable
   DEF EndCallback, At, flags, lock, objects, local, history

LEMMA StartSendEffect ==
  ASSUME Typing, StartSend
  PROVE  /\ stray = {} /\ pc[User] = "idle"
         /\ Others(User) /\ old'[User] = old[User] /\ ret'[User] = ret[User]
         /\ \/ kind = "wanted" /\ x'[User] = ptr /\ pc'[User] = "send"
            \/ kind # "wanted" /\ ptr # None /\ x'[User] = x[User] /\ pc'[User] = "rlock"
         /\ UNCHANGED <<kind, ptr, reconnect, use, readers, writers, made, open, refs,
              deleted, io, timers, noSocket, leaked, shutdown, stray>>
BY Kinds, ReturnMoves, GotoMoves, CallCalls, AfterTable
   DEF StartSend, At, flags, lock, objects, local, history, Typing, Values, Locals, Goto, Hold,
       Others, CallClose

LEMMA ReadLockEffect ==
  ASSUME Typing, ReadLock
  PROVE  /\ stray = {} /\ pc[User] = "rlock"
         /\ Others(User) /\ old'[User] = old[User] /\ ret'[User] = ret[User]
         /\ x'[User] = ptr /\ pc'[User] = "send"
         /\ User \notin readers /\ readers' = readers \cup {User} /\ writers = {} /\ writers' = {}
         /\ UNCHANGED <<kind, ptr, reconnect, use, made, open, refs, deleted, io,
              timers, noSocket, leaked, shutdown, stray>>
BY Kinds, ReturnMoves, GotoMoves, CallCalls, AfterTable
   DEF ReadLock, At, flags, lock, objects, local, history, Typing, Values, Locals, Goto, Hold,
       Others, CallClose, Lock!AcquireRead

LEMMA SendEffect ==
  ASSUME Typing, Send
  PROVE  /\ stray = {} /\ pc[User] = "send"
         /\ Moves(User, "sent") /\ AddRef(User, x[User], 1)
         /\ UNCHANGED <<kind, ptr, reconnect, use, readers, writers, made, open, io,
              timers, noSocket, leaked, shutdown>>
BY Kinds, ReturnMoves, GotoMoves, CallCalls, AfterTable
   DEF Send, At, flags, lock, objects, local, history

LEMMA EndSendEffect ==
  ASSUME Typing, EndSend
  PROVE  /\ stray = {} /\ pc[User] = "sent"
         /\ Moves(User, IF kind = "wanted" THEN "idle" ELSE "runlock") /\ ReleaseRef(User, x[User])
         /\ UNCHANGED <<kind, ptr, reconnect, use, readers, writers, made, open, io,
              timers, noSocket, leaked, shutdown>>
BY Kinds, ReturnMoves, GotoMoves, CallCalls, AfterTable
   DEF EndSend, At, flags, lock, objects, local, history

LEMMA ReadUnlockEffect ==
  ASSUME Typing, ReadUnlock
  PROVE  /\ stray = {} /\ pc[User] = "runlock"
         /\ Moves(User, "idle")
         /\ readers' = readers \ {User}
         /\ UNCHANGED <<kind, ptr, reconnect, use, writers, made, open, refs, deleted,
              io, timers, noSocket, leaked, shutdown, stray>>
BY Kinds, ReturnMoves, GotoMoves, CallCalls, AfterTable
   DEF ReadUnlock, At, flags, lock, objects, local, history, Lock!ReleaseRead

LEMMA ShutdownEffect ==
  ASSUME Typing, Shutdown
  PROVE  /\ stray = {} /\ pc[Listener] = "idle"
         /\ Others(Listener) /\ old'[Listener] = old[Listener] /\ ret'[Listener] = ret[Listener]
         /\ x'[Listener] = ptr /\ pc'[Listener] = "end"
         /\ ptr # None /\ pc[Main] = "idle" /\ shutdown' = TRUE
         /\ readers = {} /\ readers' = {} /\ writers = {} /\ writers' = {Listener}
         /\ UNCHANGED <<kind, ptr, reconnect, use, made, open, refs, deleted, io,
              timers, noSocket, leaked, stray>>
BY Kinds, ReturnMoves, GotoMoves, CallCalls, AfterTable
   DEF Shutdown, At, flags, lock, objects, local, history, Typing, Values, Locals, Goto, Hold,
       Others, CallClose, Lock!AcquireWrite

LEMMA EndConnectionEffect ==
  ASSUME Typing, EndConnection
  PROVE  /\ stray = {} /\ pc[Listener] = "end"
         /\ \/ Moves(Listener, "release")
            \/ Calls(Listener, "release")
         /\ UNCHANGED <<kind, ptr, reconnect, use, readers, writers, made, open, refs,
              deleted, io, timers, noSocket, leaked, shutdown, stray>>
BY Kinds, ReturnMoves, GotoMoves, CallCalls, AfterTable
   DEF EndConnection, At, flags, lock, objects, local, history

LEMMA ReleasePointerEffect ==
  ASSUME Typing, ReleasePointer
  PROVE  /\ stray = {} /\ pc[Listener] = "release"
         /\ Moves(Listener, "idle") /\ ReleaseRef(Listener, x[Listener])
         /\ writers' = writers \ {Listener}
         /\ UNCHANGED <<kind, ptr, reconnect, use, readers, made, open, io, timers,
              noSocket, leaked, shutdown>>
BY Kinds, ReturnMoves, GotoMoves, CallCalls, AfterTable
   DEF ReleasePointer, At, flags, lock, objects, local, history, Lock!ReleaseWrite

LEMMA LatestFacts ==
  ASSUME Typing
  PROVE  /\ IsFiniteSet(made) /\ Cardinality(made) = Latest + 1
         /\ Latest \in Int /\ Latest >= -1 /\ (made = {} <=> Latest = -1)
<1>1. IsFiniteSet(made)
  <2>1. MaxSocks - 1 \in Int
    BY ReconnectAssumption
  <2>2. IsFiniteSet(Socks)
    BY <2>1, FS_Interval DEF Socks
  <2> QED
    BY <2>2, FS_Subset DEF Typing, Values, Locals
<1>2. Cardinality(made) \in Nat
  BY <1>1, FS_CardinalityType
<1>3. made = {} <=> Cardinality(made) = 0
  BY <1>1, FS_EmptySet
<1> QED
  BY <1>1, <1>2, <1>3 DEF Latest

\* a new object, o, in the hands of t
Makes(t, o) ==
  /\ o \in Socks /\ o \notin made /\ o = Latest + 1 /\ made' = made \cup {o} /\ Latest' = o
  /\ Others(t) /\ x'[t] = o /\ old'[t] = old[t]
  /\ refs' = [refs EXCEPT ![o] = 1]
  /\ \/ open' = open \cup {o} /\ (noSocket' <=> noSocket)
     \/ open' = open /\ noSocket' /\ pc'[t] = "exchange"
  /\ noSocket' \in BOOLEAN /\ reconnect' = IF kind = "log" THEN reconnect ELSE FALSE

LEMMA ConstructMakes ==
  ASSUME Typing, NEW t \in Threads, NEW o \in Socks, NEW b \in BOOLEAN, Construct(t, o, b),
         UNCHANGED old, b \/ pc'[t] = "exchange", Others(t)
  PROVE  Makes(t, o)
<1>1. o = Latest + 1 /\ o \notin made
  <2>1. o = Cardinality(made)
    BY DEF Construct
  <2> QED
    BY <2>1, LatestFacts DEF Typing, Values, Locals
<1>2. Latest' = o
  <2>1. made' = made \cup {o}
    BY DEF Construct
  <2>2. Cardinality(made') = Cardinality(made) + 1
    BY <1>1, <2>1, LatestFacts, FS_AddElement
  <2> QED
    BY <1>1, <2>2, LatestFacts DEF Latest
<1>3. x'[t] = o
  BY DEF Construct, Hold, Typing, Values, Locals
<1> QED
  BY <1>1, <1>2, <1>3 DEF Construct, Makes, Others

LEMMA ConnectEffect ==
  ASSUME Typing, NEW t \in Timers, Connect(t)
  PROVE  /\ stray = {} /\ pc[t] = "connect"
         /\ \E o \in Socks : Makes(t, o)
         /\ \/ pc'[t] = "wlock" /\ ret'[t] = ret[t]
            \/ pc'[t] = "exchange" /\ ret'[t] = "fail"
         /\ UNCHANGED <<kind, ptr, use, readers, writers, deleted, io, timers, leaked,
                        shutdown, stray>>
<1>1. stray = {} /\ pc[t] = "connect" /\ t \in Threads
  BY Kinds DEF Connect, At
<1>2. UNCHANGED <<kind, ptr, use, readers, writers, deleted, io, timers, leaked, shutdown, stray, old>>
  BY DEF Connect, lock
<1>3. PICK o \in Socks :
        \/ Construct(t, o, TRUE) /\ Goto(t, "wlock") /\ UNCHANGED ret
        \/ \E hasSocket \in BOOLEAN : Construct(t, o, hasSocket) /\ CallClose(t, "fail")
  BY DEF Connect
<1>4. CASE Construct(t, o, TRUE) /\ Goto(t, "wlock") /\ UNCHANGED ret
  <2>1. Others(t) /\ pc'[t] = "wlock"
    BY <1>1, <1>2, <1>4 DEF Construct, Goto, Hold, Others, Typing, Values, Locals
  <2> QED
    BY <1>1, <1>2, <1>4, <2>1, ConstructMakes
<1>5. ASSUME NEW b \in BOOLEAN, Construct(t, o, b), CallClose(t, "fail")
      PROVE  Makes(t, o) /\ pc'[t] = "exchange" /\ ret'[t] = "fail"
  <2>1. Others(t) /\ pc'[t] = "exchange" /\ ret'[t] = "fail"
    BY <1>1, <1>2, <1>5 DEF Construct, CallClose, Goto, Hold, Others, Typing, Values, Locals
  <2> QED
    BY <1>1, <1>2, <1>5, <2>1, ConstructMakes
<1> QED
  BY <1>1, <1>2, <1>3, <1>4, <1>5

LEMMA FirstConnectEffect ==
  ASSUME Typing, FirstConnect
  PROVE  /\ stray = {} /\ pc[Main] = "start"
         /\ \E o \in Socks : Makes(Main, o) /\ ptr' = o
         /\ \/ pc'[Main] = "init" /\ ret'[Main] = ret[Main]
            \/ pc'[Main] = "exchange" /\ ret'[Main] = "idle"
         /\ UNCHANGED <<kind, use, readers, writers, deleted, io, timers, leaked,
                        shutdown, stray>>
<1>1. stray = {} /\ pc[Main] = "start" /\ Main \in Threads
  BY Kinds DEF FirstConnect, At
<1>2. UNCHANGED <<kind, use, readers, writers, deleted, io, timers, leaked, shutdown, stray, old>>
  BY DEF FirstConnect, lock
<1>3. PICK o \in Socks :
        /\ ptr' = o
        /\ \/ Construct(Main, o, TRUE) /\ Goto(Main, "init") /\ UNCHANGED ret
           \/ \E hasSocket \in BOOLEAN : Construct(Main, o, hasSocket) /\ CallClose(Main, "idle")
  BY DEF FirstConnect
<1>4. CASE Construct(Main, o, TRUE) /\ Goto(Main, "init") /\ UNCHANGED ret
  <2>1. Others(Main) /\ pc'[Main] = "init"
    BY <1>1, <1>2, <1>4 DEF Construct, Goto, Hold, Others, Typing, Values, Locals
  <2> QED
    BY <1>1, <1>2, <1>3, <1>4, <2>1, ConstructMakes
<1>5. ASSUME NEW b \in BOOLEAN, Construct(Main, o, b), CallClose(Main, "idle")
      PROVE  Makes(Main, o) /\ pc'[Main] = "exchange" /\ ret'[Main] = "idle"
  <2>1. Others(Main) /\ pc'[Main] = "exchange" /\ ret'[Main] = "idle"
    BY <1>1, <1>2, <1>5 DEF Construct, CallClose, Goto, Hold, Others, Typing, Values, Locals
  <2> QED
    BY <1>1, <1>2, <1>5, <2>1, ConstructMakes
<1> QED
  BY <1>1, <1>2, <1>3, <1>4, <1>5

-----------------------------------------------------------------------------
(* Types *)

\* the counts stay numbers: a reference given back was one of a live object
LEMMA NoneApart == Typing => None \notin Socks /\ None \notin made
BY ReconnectAssumption DEF Typing, Values, Locals, Socks

LEMMA RefTypes ==
  ASSUME Typing, \A o \in made : o \in deleted <=> refs[o] = 0, NEW t, NEW o \in made \cup {None},
         \/ ReleaseRef(t, o)
         \/ \E n \in {1, 2} : AddRef(t, o, n)
  PROVE  /\ refs' \in [Socks -> Nat] /\ deleted' \subseteq made
         /\ \A p \in made : p \in deleted' <=> refs'[p] = 0
         /\ \A p \in Socks : p # o => refs'[p] = refs[p]
<1>t. refs \in [Socks -> Nat] /\ deleted \subseteq made /\ made \subseteq Socks
  BY DEF Typing, Values, Locals
<1>1. CASE UNCHANGED <<refs, deleted>>
  BY <1>t, <1>1
<1>2. CASE o \in made \ deleted
  <2>1. PICK r \in Nat : r = refs[o] /\ r # 0
    BY <1>t, <1>2
  <2>2. ASSUME ReleaseRef(t, o)
        PROVE  /\ refs' = [refs EXCEPT ![o] = r - 1] /\ r - 1 \in Nat
               /\ deleted' = IF r = 1 THEN deleted \cup {o} ELSE deleted
    BY <1>t, <1>2, <2>1, <2>2, NoneApart DEF ReleaseRef
  <2>3. ASSUME NEW n \in {1, 2}, AddRef(t, o, n)
        PROVE  refs' = [refs EXCEPT ![o] = r + n] /\ r + n \in Nat /\ r + n # 0 /\ deleted' = deleted
    BY <1>t, <1>2, <2>1, <2>3, NoneApart DEF AddRef
  <2>4. CASE ReleaseRef(t, o)
    BY <1>t, <1>2, <2>1, <2>2, <2>4
  <2>5. CASE \E n \in {1, 2} : AddRef(t, o, n)
    BY <1>t, <1>2, <2>1, <2>3, <2>5
  <2> QED
    BY <2>4, <2>5
<1>3. CASE o \in deleted \cup {None}
  BY <1>1, <1>3 DEF AddRef, ReleaseRef
<1> QED
  BY <1>2, <1>3

-----------------------------------------------------------------------------
(* What a step of one thread keeps *)

\* the other threads keep the parts they have
LEMMA OthersKeep ==
  ASSUME NEW t, Others(t), UNCHANGED kind
  PROVE  \A u \in Threads : u # t =>
    /\ pc'[u] = pc[u] /\ x'[u] = x[u] /\ old'[u] = old[u] /\ ret'[u] = ret[u]
    /\ Carries(u)' <=> Carries(u)
    /\ Shut(u)' <=> Shut(u)
    /\ Making(u)' <=> Making(u)
    /\ Fresh(u)' <=> Fresh(u)
    /\ Unread(u)' <=> Unread(u)
    /\ Apart(u)' <=> Apart(u)
    /\ Dropping(u)' <=> Dropping(u)
    /\ Locked(u)' <=> Locked(u)
    /\ Initializes(u)' <=> Initializes(u)
    /\ FailsToRead(u)' <=> FailsToRead(u)
    /\ Placed(u)' <=> Placed(u)
BY DEF Others, Makers, ClosingPCs, Carries, Shut, Making, Fresh, Unread, Apart, Dropping, Locked,
       Initializes, FailsToRead, Placed, Places, CloserRets

LEMMA PlaceStep ==
  ASSUME IInv, NEW t \in Threads, Others(t), UNCHANGED kind, Placed(t)', MainInv'
  PROVE  PlaceInv'
BY OthersKeep DEF IInv, PlaceInv

LEMMA ChainStep ==
  ASSUME IInv, NEW t \in Threads, Others(t), UNCHANGED <<kind, made, open, timers, noSocket>>,
         reconnect' = reconnect \/ reconnect' = TRUE,
         Carries(t)' <=> Carries(t), Carries(t) => x'[t] = x[t],
         Carries(t) => pc'[t] = "onclose" \/ reconnect'
  PROVE  ChainInv'
<1>1. Latest' = Latest
  BY DEF Latest
<1>2. \A u \in Threads : (Carries(u)' <=> Carries(u)) /\ (Carries(u) => x'[u] = x[u])
  BY OthersKeep
<1>3. \A u \in Threads : u # t => pc'[u] = pc[u]
  BY OthersKeep
<1>4. AtLatest'
  BY <1>1 DEF IInv, ChainInv, AtLatest
<1>5. OneCarrier'
  BY <1>1, <1>2 DEF IInv, ChainInv, OneCarrier
<1>6. ChainGoesOn'
  BY <1>2 DEF IInv, ChainInv, ChainGoesOn
<1>7. ReconnectSet'
  BY <1>2, <1>3 DEF IInv, ChainInv, ReconnectSet
<1> QED
  BY <1>4, <1>5, <1>6, <1>7 DEF ChainInv

\* the part of the lock that the user's thread plays
Reads == kind # "wanted" /\ pc[User] \in {"send", "sent", "runlock"}

LEMMA LockStep ==
  ASSUME IInv, NEW t \in Threads, Others(t), UNCHANGED <<kind, readers, writers>>,
         Locked(t)' <=> Locked(t),
         t = Listener => (pc'[t] # "idle" <=> pc[t] # "idle"),
         t = User => (Reads' <=> Reads)
  PROVE  LockInv'
<1>1. \A u \in Threads : (Locked(u)' <=> Locked(u)) /\ (u # t => pc'[u] = pc[u])
  BY OthersKeep
<1>2. Reads' <=> Reads
  BY <1>1, Kinds DEF Reads
<1>3. readers' = IF Reads' THEN {User} ELSE {}
  BY <1>2 DEF IInv, LockInv, Reads
<1>4. \A u \in Threads : (u \in writers' <=> Locked(u)' \/ (u = Listener /\ pc'[u] # "idle"))
  BY <1>1, Kinds DEF IInv, LockInv
<1> QED
  BY <1>3, <1>4 DEF IInv, LockInv, Reads

LEMMA PtrStep ==
  ASSUME IInv, NEW t \in Threads, Others(t), UNCHANGED <<kind, ptr>>,
         Locked(t)' /\ pc'[t] # "swap" => Locked(t) /\ pc[t] # "swap" /\ x'[t] = x[t],
         t = Listener /\ pc'[t] # "idle" => pc[t] # "idle" /\ x'[t] = x[t],
         t = User /\ kind # "wanted" /\ pc'[t] \in {"send", "sent"} =>
           pc[t] \in {"send", "sent"} /\ x'[t] = x[t]
  PROVE  PtrInv'
<1>1. \A u \in Threads : u # t => pc'[u] = pc[u] /\ x'[u] = x[u] /\ (Locked(u)' <=> Locked(u))
  BY OthersKeep
<1>2. (\A u \in Timers : Locked(u) /\ pc[u] # "swap" => x[u] = ptr)'
  BY <1>1, Kinds DEF IInv, PtrInv
<1>3. (pc[Listener] # "idle" => x[Listener] = ptr)'
  BY <1>1, Kinds DEF IInv, PtrInv
<1>4. (kind # "wanted" /\ pc[User] \in {"send", "sent"} => x[User] = ptr /\ ptr # None)'
  BY <1>1, Kinds DEF IInv, PtrInv
<1> QED
  BY <1>2, <1>3, <1>4 DEF PtrInv

LEMMA OwnStep ==
  ASSUME IInv, NEW t \in Threads, Others(t), UNCHANGED <<kind, open>>,
         Making(t)' => Making(t) /\ x'[t] = x[t],
         Fresh(t)' => Fresh(t) /\ x'[t] = x[t],
         Shut(t)' => Shut(t) /\ x'[t] = x[t],
         pc'[t] = "exchange" => \A u \in Makers : u # t /\ Fresh(u) => x[u] # x'[t]
  PROVE  OwnInv'
<1>1. \A u \in Threads : u # t =>
        /\ pc'[u] = pc[u] /\ x'[u] = x[u] /\ (Shut(u)' <=> Shut(u))
        /\ (Making(u)' <=> Making(u)) /\ (Fresh(u)' <=> Fresh(u))
  BY OthersKeep
<1>2. \A u \in Makers : u \in Threads
  BY Kinds
<1>3. OneMaker'
  BY <1>1, <1>2 DEF IInv, OwnInv, OneMaker
<1>4. FreshOpen'
  BY <1>1, <1>2 DEF IInv, OwnInv, FreshOpen
<1>5. ASSUME Fresh(t)' PROVE pc'[t] # "exchange"
  BY <1>5 DEF Fresh
<1>6. FreshAlone'
  BY <1>1, <1>2, <1>5 DEF IInv, OwnInv, FreshAlone
<1>7. OneCloser'
  BY <1>1 DEF IInv, OwnInv, OneCloser
<1>8. ShutClosed'
  BY <1>1 DEF IInv, OwnInv, ShutClosed
<1> QED
  BY <1>3, <1>4, <1>6, <1>7, <1>8 DEF OwnInv

LEMMA ReadStep ==
  ASSUME IInv, NEW t \in Threads, Others(t), UNCHANGED <<kind, io, leaked>>,
         Unread(t)' => Unread(t) /\ x'[t] = x[t],
         Fresh(t)' \/ pc'[t] = "create" => (Fresh(t) \/ pc[t] = "create") /\ x'[t] = x[t],
         t = Worker /\ pc'[t] # "idle" => pc[t] # "idle" /\ x'[t] = x[t]
  PROVE  ReadInv'
<1>1. \A u \in Threads : u # t =>
        pc'[u] = pc[u] /\ x'[u] = x[u] /\ (Unread(u)' <=> Unread(u)) /\ (Fresh(u)' <=> Fresh(u))
  BY OthersKeep
<1>2. Worker \in Threads /\ \A u \in Makers : u \in Threads
  BY Kinds
<1>3. UnreadInv'
  BY <1>1, <1>2 DEF IInv, ReadInv, UnreadInv
<1>4. WorkerInv'
  BY <1>1, <1>2 DEF IInv, ReadInv, WorkerInv
<1>5. NotLeaked'
  BY <1>1, <1>2 DEF IInv, ReadInv, NotLeaked
<1> QED
  BY <1>3, <1>4, <1>5 DEF ReadInv

LEMMA RoleStep ==
  ASSUME IInv, NEW t \in Threads, Others(t), UNCHANGED <<kind, ptr, made>>,
         Apart(t)' => Apart(t) /\ x'[t] = x[t],
         Dropping(t)' => Dropping(t) /\ old'[t] = old[t]
  PROVE  RoleInv'
<1>1. \A u \in Timers : u # t =>
        /\ x'[u] = x[u] /\ old'[u] = old[u]
        /\ (Apart(u)' <=> Apart(u)) /\ (Dropping(u)' <=> Dropping(u))
  BY OthersKeep, Kinds
<1>2. ApartInv'
  BY <1>1 DEF IInv, RoleInv, ApartInv
<1>3. DropInv'
  BY <1>1 DEF IInv, RoleInv, DropInv
<1>4. OneDropper'
  BY <1>1 DEF IInv, RoleInv, OneDropper
<1>5. ApartDropped'
  BY <1>1 DEF IInv, RoleInv, ApartDropped
<1> QED
  BY <1>2, <1>3, <1>4, <1>5 DEF RoleInv

-----------------------------------------------------------------------------
(* Who holds a reference *)

LEMMA WantedStep ==
  ASSUME NEW t \in Threads, Others(t), UNCHANGED <<kind, ptr>>,
         Apart(t)' <=> Apart(t), Apart(t) => x'[t] = x[t],
         Dropping(t)' <=> Dropping(t), Dropping(t) => old'[t] = old[t]
  PROVE  \A o : Wanted(o)' <=> Wanted(o)
<1>1. \A u \in Timers :
        /\ (Apart(u)' <=> Apart(u)) /\ (Apart(u) => x'[u] = x[u])
        /\ (Dropping(u)' <=> Dropping(u)) /\ (Dropping(u) => old'[u] = old[u])
  BY OthersKeep, Kinds
<1> QED
  BY <1>1 DEF Wanted

LEMMA ClosedStep ==
  ASSUME NEW t \in Threads, Others(t), UNCHANGED kind,
         pc'[t] = "closed" <=> pc[t] = "closed", pc[t] = "closed" => x'[t] = x[t]
  PROVE  \A o : Closed(o)' <=> Closed(o)
<1>1. \A u \in Threads : (pc'[u] = "closed" <=> pc[u] = "closed") /\ (pc[u] = "closed" => x'[u] = x[u])
  BY OthersKeep
<1> QED
  BY <1>1 DEF Closed

LEMMA InitialStep ==
  ASSUME NEW t \in Threads, Others(t), UNCHANGED kind,
         Initializes(t)' <=> Initializes(t), Initializes(t) => x'[t] = x[t]
  PROVE  \A o : Initial(o)' <=> Initial(o)
<1>1. \A u \in Makers : (Initializes(u)' <=> Initializes(u)) /\ (Initializes(u) => x'[u] = x[u])
  BY OthersKeep, Kinds
<1> QED
  BY <1>1 DEF Initial

LEMMA ReadByStep ==
  ASSUME NEW t \in Threads, Others(t), UNCHANGED <<kind, io>>,
         FailsToRead(t)' <=> FailsToRead(t), FailsToRead(t) => x'[t] = x[t],
         t = Worker => (pc'[t] # "idle" <=> pc[t] # "idle") /\ (pc[t] # "idle" => x'[t] = x[t])
  PROVE  \A o : ReadBy(o)' <=> ReadBy(o)
<1>1. \A u \in Makers : (FailsToRead(u)' <=> FailsToRead(u)) /\ (FailsToRead(u) => x'[u] = x[u])
  BY OthersKeep, Kinds
<1>2. (pc'[Worker] # "idle" <=> pc[Worker] # "idle") /\ (pc[Worker] # "idle" => x'[Worker] = x[Worker])
  BY OthersKeep, Kinds
<1> QED
  BY <1>1, <1>2 DEF ReadBy

LEMMA SendingStep ==
  ASSUME NEW t \in Threads, Others(t), UNCHANGED kind,
         t = User => (pc'[t] = "sent" <=> pc[t] = "sent") /\ (pc[t] = "sent" => x'[t] = x[t])
  PROVE  \A o : Sending(o)' <=> Sending(o)
BY OthersKeep, Kinds DEF Sending

LEMMA HoldersNat == (\A o : Holders(o) \in Nat) /\ (\A o : Holders(o)' \in Nat)
BY DEF Holders, B2N

\* a held object is alive until the shutdown
LEMMA HeldLives ==
  ASSUME RefInv, Typing, NEW o \in made, ~shutdown, stray = {}, Holders(o) > 0
  PROVE  o \notin deleted
BY DEF RefInv, Typing, Values, Locals

\* no reference is taken or given back
LEMMA RefKept ==
  ASSUME IInv, UNCHANGED <<made, refs, deleted, stray>>, shutdown => shutdown',
         \A o \in made : Holders(o)' = Holders(o), pc'[Listener] # "idle" => shutdown'
  PROVE  RefInv'
<1>1. refs \in [Socks -> Nat] /\ made \subseteq Socks /\ \A o : Holders(o) \in Nat
  BY HoldersNat DEF IInv, Typing, Values, Locals
<1> QED
  BY <1>1 DEF IInv, RefInv

LEMMA RefTaken ==
  ASSUME IInv, stray = {}, UNCHANGED <<made, shutdown>>, pc'[Listener] # "idle" => pc[Listener] # "idle",
         NEW t \in Threads, NEW o \in made \cup {None}, NEW n \in {1, 2}, AddRef(t, o, n),
         \A p \in made : Holders(p)' = Holders(p) + (IF p = o THEN n ELSE 0)
  PROVE  RefInv'
<1>1. /\ refs \in [Socks -> Nat] /\ made \subseteq Socks /\ deleted \subseteq made
      /\ \A p : Holders(p) \in Nat
  BY HoldersNat DEF IInv, Typing, Values, Locals
<1>2. None \notin made
  BY NoneApart DEF IInv
<1>3. CASE o \in deleted \cup {None}
  <2>1. UNCHANGED <<refs, deleted>> /\ stray' # {}
    BY <1>3 DEF AddRef
  <2>2. \A p \in made : refs[p] <= Holders(p)'
    BY <1>1 DEF IInv, RefInv
  <2> QED
    BY <1>1, <2>1, <2>2 DEF IInv, RefInv
<1>4. CASE o \notin deleted \cup {None}
  <2>1. refs' = [refs EXCEPT ![o] = @ + n] /\ UNCHANGED <<deleted, stray>>
    BY <1>4 DEF AddRef
  <2>2. ASSUME NEW p \in made
        PROVE  /\ refs'[p] = refs[p] + (IF p = o THEN n ELSE 0)
               /\ Holders(p)' = Holders(p) + (IF p = o THEN n ELSE 0)
    BY <1>1, <2>1
  <2>3. o \in made /\ refs[o] # 0
    BY <1>4 DEF IInv, RefInv
  <2>4. ASSUME NEW p \in made PROVE p \in deleted' <=> refs'[p] = 0
    BY <1>1, <2>1, <2>2, <2>3 DEF IInv, RefInv
  <2>5. ASSUME NEW p \in made PROVE refs'[p] <= Holders(p)'
    BY <1>1, <2>2 DEF IInv, RefInv
  <2>6. ASSUME ~shutdown', stray' = {}, NEW p \in made PROVE refs'[p] = Holders(p)'
    BY <1>1, <2>1, <2>2, <2>6 DEF IInv, RefInv
  <2> QED
    BY <2>4, <2>5, <2>6 DEF IInv, RefInv
<1> QED
  BY <1>3, <1>4

LEMMA RefGiven ==
  ASSUME IInv, stray = {}, UNCHANGED <<made, shutdown>>, pc'[Listener] # "idle" => pc[Listener] # "idle",
         NEW t \in Threads, NEW o \in made \cup {None}, ReleaseRef(t, o),
         shutdown \/ \A p \in made : Holders(p)' = Holders(p) - (IF p = o THEN 1 ELSE 0),
         \A p \in made : Holders(p)' >= Holders(p) - (IF p = o THEN 1 ELSE 0)
  PROVE  RefInv'
<1>1. /\ refs \in [Socks -> Nat] /\ made \subseteq Socks /\ deleted \subseteq made
      /\ (\A p : Holders(p) \in Nat) /\ (\A p : Holders(p)' \in Nat)
  BY HoldersNat DEF IInv, Typing, Values, Locals
<1>2. None \notin made
  BY NoneApart DEF IInv
<1>3. CASE o \in deleted \cup {None}
  <2>1. UNCHANGED <<refs, deleted>> /\ stray' # {}
    BY <1>3 DEF ReleaseRef
  <2>2. \A p \in made : refs[p] <= Holders(p)'
    BY <1>1, <1>2, <1>3 DEF IInv, RefInv
  <2> QED
    BY <1>1, <2>1, <2>2 DEF IInv, RefInv
<1>4. CASE o \notin deleted \cup {None}
  <2>1. PICK r \in Nat : r = refs[o] /\ r # 0
    BY <1>1, <1>4 DEF IInv, RefInv
  <2>2. /\ refs' = [refs EXCEPT ![o] = r - 1] /\ UNCHANGED stray /\ o \in made /\ r - 1 \in Nat
        /\ deleted' = IF r = 1 THEN deleted \cup {o} ELSE deleted
    BY <1>4, <2>1 DEF ReleaseRef
  <2>3. ASSUME NEW p \in made
        PROVE  refs'[p] = refs[p] - (IF p = o THEN 1 ELSE 0)
    BY <1>1, <2>1, <2>2
  <2>4. ASSUME NEW p \in made PROVE p \in deleted' <=> refs'[p] = 0
    BY <1>1, <1>4, <2>1, <2>2 DEF IInv, RefInv
  <2>5. ASSUME NEW p \in made PROVE refs'[p] <= Holders(p)'
    BY <1>1, <2>3 DEF IInv, RefInv
  <2>6. ASSUME ~shutdown', stray' = {}, NEW p \in made PROVE refs'[p] = Holders(p)'
    BY <1>1, <2>2, <2>3, <2>6 DEF IInv, RefInv
  <2> QED
    BY <2>4, <2>5, <2>6 DEF IInv, RefInv
<1> QED
  BY <1>3, <1>4

\* a count is used only by who has one of the references, or by the window
LEMMA NoStray ==
  ASSUME IInv, stray = {}, NEW t \in Threads, NEW o \in made \cup {None},
         ReleaseRef(t, o) \/ (\E n \in {1, 2} : AddRef(t, o, n)),
         shutdown \/ (o \in made /\ Holders(o) > 0)
           \/ (t = User /\ kind = "wanted" /\ o \notin leaked),
         UNCHANGED <<kind, shutdown, made>>, leaked \subseteq leaked', leaked' = leaked \/ t # User
  PROVE  /\ UnlockedUse' /\ StrayOK'
         /\ stray' = {} \/ UNCHANGED deleted
<1>1. stray' = {} \/ stray' = {<<t, o>>}
  BY DEF AddRef, ReleaseRef
<1>2. ASSUME ~shutdown, o \in made, Holders(o) > 0 PROVE stray' = {}
  <2>1. o \notin deleted
    BY <1>2, HeldLives DEF IInv
  <2>2. o # None
    BY <1>2, NoneApart DEF IInv
  <2> QED
    BY <2>1, <2>2 DEF AddRef, ReleaseRef
<1>3. ASSUME t = User, kind = "wanted", o \notin leaked PROVE UnlockedUse'
  BY <1>1, <1>3 DEF UnlockedUse
<1>4. ASSUME shutdown PROVE UnlockedUse'
  <2>1. shutdown'
    BY <1>4 DEF IInv, Typing, Values, Locals
  <2> QED
    BY <2>1 DEF UnlockedUse
<1>5. stray' = {} \/ UNCHANGED deleted
  BY DEF AddRef, ReleaseRef
<1>6. StrayOK'
  BY <1>1 DEF StrayOK
<1> QED
  BY <1>1, <1>2, <1>3, <1>4, <1>5, <1>6 DEF UnlockedUse

LEMMA PointerStep ==
  ASSUME Values', RefInv', PointerIsLive, shutdown => shutdown',
         stray' = {} \/ UNCHANGED <<ptr, deleted>>
  PROVE  PointerIsLive'
<1>1. CASE stray' = {}
  <2> SUFFICES ASSUME ~shutdown', ptr' # None PROVE ptr' \notin deleted'
    BY DEF PointerIsLive
  <2>1. ptr' \in made' /\ Wanted(ptr)'
    BY DEF Values, Wanted
  <2>2. Holders(ptr)' > 0
    BY <2>1 DEF Holders, B2N
  <2>3. refs'[ptr'] = Holders(ptr)'
    BY <1>1, <2>1 DEF RefInv
  <2> QED
    BY <2>1, <2>2, <2>3 DEF RefInv
<1>2. CASE stray' # {}
  BY <1>2 DEF PointerIsLive
<1> QED
  BY <1>1, <1>2

LEMMA ValueStep ==
  ASSUME IInv, UNCHANGED <<kind, made>>, ptr' = ptr \/ ptr' \in made,
         reconnect' \in BOOLEAN, use' \in BOOLEAN, shutdown' \in BOOLEAN, UNCHANGED noSocket,
         open' \subseteq made, io' \subseteq made, timers' \subseteq made, leaked' \subseteq made,
         refs' \in [Socks -> Nat], deleted' \subseteq made,
         StrayOK'
  PROVE  Values'
<1>1. Latest' = Latest
  BY DEF Latest
<1> QED
  BY <1>1, NoneApart DEF IInv, Typing, Values, Locals

\* who takes part in what
LEMMA RolesMake ==
  \A t : /\ Fresh(t) => Making(t) /\ Unread(t)
         /\ Unread(t) => Making(t)
         /\ Apart(t) => Making(t)
         /\ Dropping(t) => Making(t)
         /\ Locked(t) => Making(t)
         /\ Initializes(t) => Making(t)
         /\ FailsToRead(t) => Unread(t) /\ Initializes(t)
         /\ Making(t) => t \in Makers
BY Kinds
   DEF Makers, ClosingPCs, Fresh, Unread, Making, Apart, Dropping, Locked, Initializes,
       FailsToRead

\* a thread that has made an object has it in hand alone
LEMMA InHand ==
  ASSUME IInv, NEW t \in Makers, Making(t)
  PROVE  /\ x[t] \in made
         /\ \A u \in Makers : u # t /\ Making(u) => x[u] # x[t]
<1>1. x[t] # None
  BY Kinds DEF IInv, PlaceInv, Placed, Places, ClosingPCs, Makers, Making
<1>2. t \in Threads
  BY Kinds
<1> QED
  BY <1>1, <1>2 DEF IInv, Typing, Values, Locals, OwnInv, OneMaker

\* no thread has an object that is not made yet
LEMMA NewObject ==
  ASSUME IInv, NEW o \in Socks, o \notin made
  PROVE  /\ \A u \in Threads : x[u] # o /\ old[u] # o
         /\ o \notin open /\ o \notin timers /\ o \notin io /\ o \notin leaked /\ o \notin deleted
         /\ o # ptr /\ o # None
BY NoneApart DEF IInv, Typing, Values, Locals

\* the object of WinMain is the only one as long as it is open, or its closing arms no timer
LEMMA FirstObject ==
  ASSUME IInv, Fresh(Main) \/ (Making(Main) /\ Carries(Main))
  PROVE  x[Main] = ptr
<1>1. x[Main] = 0 /\ x[Main] \in made
  BY Kinds, InHand, RolesMake DEF IInv, PlaceInv, MainInv, Making
<1>2. x[Main] = Latest
  BY Kinds DEF IInv, OwnInv, FreshOpen, ChainInv, AtLatest, OneCarrier
<1> QED
  BY <1>1, <1>2 DEF IInv, Typing, Values, Locals

\* a routine, or WinMain, has a reference of its object
LEMMA MakerHolds ==
  ASSUME IInv, NEW t \in Makers, Making(t), t = Main => Fresh(t) \/ Carries(t),
         Fresh(t) \/ pc[t] \in ClosingPCs
  PROVE  Wanted(x[t]) \/ Initial(x[t])
<1>1. CASE t = Main
  BY <1>1, FirstObject DEF Wanted
<1>2. CASE t \in Timers
  <2>1. Apart(t) \/ (Locked(t) /\ pc[t] # "swap") \/ Initializes(t)
    BY <1>2, Kinds DEF Fresh, Apart, Locked, Initializes, ClosingPCs, Makers
  <2>2. ASSUME Locked(t), pc[t] # "swap" PROVE x[t] = ptr
    BY <1>2, <2>2 DEF IInv, PtrInv
  <2> QED
    BY <1>2, <2>1, <2>2 DEF Wanted, Initial
<1> QED
  BY <1>1, <1>2, Kinds

LEMMA HoldersPositive ==
  \A o : Wanted(o) \/ Closed(o) \/ Initial(o) \/ ReadBy(o) \/ Sending(o) \/ o \in leaked
    => Holders(o) > 0
BY DEF Holders, B2N

\* What the threads have in hand.
LEMMA LocalTypes ==
  ASSUME Typing, [Next]_vars
  PROVE  /\ pc' \in [Threads -> PCs] /\ ret' \in [Threads -> PCs]
         /\ made \subseteq made'
         /\ x' \in [Threads -> made' \cup {None}] /\ old' \in [Threads -> made' \cup {None}]
<1> DEFINE P == /\ pc' \in [Threads -> PCs] /\ ret' \in [Threads -> PCs]
                /\ made \subseteq made'
                /\ x' \in [Threads -> made' \cup {None}] /\ old' \in [Threads -> made' \cup {None}]
<1>1. ASSUME FirstConnect PROVE P
  <2>1. Main \in Threads /\ UNCHANGED old
    BY <1>1, Kinds DEF FirstConnect
  <2>2. PICK o \in Socks :
          \/ Construct(Main, o, TRUE) /\ Goto(Main, "init") /\ UNCHANGED ret
          \/ \E hasSocket \in BOOLEAN : Construct(Main, o, hasSocket) /\ CallClose(Main, "idle")
    BY <1>1 DEF FirstConnect
  <2>3. made' = made \cup {o} /\ x' = [x EXCEPT ![Main] = o]
    BY <2>2 DEF Construct, Hold
  <2>4. pc' \in [Threads -> PCs] /\ ret' \in [Threads -> PCs]
    BY <2>1, <2>2 DEF Typing, Locals, Goto, CallClose, PCs
  <2> QED
    BY <2>1, <2>3, <2>4 DEF Typing, Locals
<1>2. ASSUME NEW t \in Threads, ExchangeHandle(t) PROVE P
  BY <1>2, Kinds, AfterTable
     DEF Typing, Values, Locals, ExchangeHandle, Return, Goto, Hold, CallClose, local, objects,
         PCs
<1>3. ASSUME NEW t \in Threads, OnClose(t) PROVE P
  BY <1>3, Kinds, AfterTable
     DEF Typing, Values, Locals, OnClose, Return, Goto, Hold, CallClose, local, objects, PCs
<1>4. ASSUME NEW t \in Threads, ArmTimer(t) PROVE P
  BY <1>4, Kinds, AfterTable
     DEF Typing, Values, Locals, ArmTimer, Return, Goto, Hold, CallClose, local, objects, PCs
<1>5. ASSUME NEW t \in Threads, ReleaseSocket(t) PROVE P
  BY <1>5, Kinds, AfterTable
     DEF Typing, Values, Locals, ReleaseSocket, Return, Goto, Hold, CallClose, local, objects, PCs
<1>6. ASSUME NEW t \in Timers, Fire(t) PROVE P
  BY <1>6, Kinds, AfterTable
     DEF Typing, Values, Locals, Fire, Return, Goto, Hold, CallClose, local, objects, PCs
<1>7. ASSUME NEW t \in Timers, Check(t) PROVE P
  BY <1>7, Kinds, AfterTable
     DEF Typing, Values, Locals, Check, Return, Goto, Hold, CallClose, local, objects, PCs
<1>8. ASSUME NEW t \in Timers, Connect(t) PROVE P
  <2>1. t \in Threads /\ UNCHANGED old
    BY <1>8, Kinds DEF Connect
  <2>2. PICK o \in Socks :
          \/ Construct(t, o, TRUE) /\ Goto(t, "wlock") /\ UNCHANGED ret
          \/ \E hasSocket \in BOOLEAN : Construct(t, o, hasSocket) /\ CallClose(t, "fail")
    BY <1>8 DEF Connect
  <2>3. made' = made \cup {o} /\ x' = [x EXCEPT ![t] = o]
    BY <2>2 DEF Construct, Hold
  <2>4. pc' \in [Threads -> PCs] /\ ret' \in [Threads -> PCs]
    BY <2>1, <2>2 DEF Typing, Locals, Goto, CallClose, PCs
  <2> QED
    BY <2>1, <2>3, <2>4 DEF Typing, Locals
<1>9. ASSUME NEW t \in Timers, ReleaseFailed(t) PROVE P
  BY <1>9, Kinds, AfterTable
     DEF Typing, Values, Locals, ReleaseFailed, Return, Goto, Hold, CallClose, local, objects, PCs
<1>10. ASSUME NEW t \in Timers, WriteLock(t) PROVE P
  BY <1>10, Kinds, AfterTable
     DEF Typing, Values, Locals, WriteLock, Return, Goto, Hold, CallClose, local, objects, PCs
<1>11. ASSUME NEW t \in Timers, Swap(t) PROVE P
  BY <1>11, Kinds, AfterTable
     DEF Typing, Values, Locals, Swap, Return, Goto, Hold, CallClose, local, objects, PCs
<1>12. ASSUME NEW t \in Timers, SetFlags(t) PROVE P
  BY <1>12, Kinds, AfterTable
     DEF Typing, Values, Locals, SetFlags, Return, Goto, Hold, CallClose, local, objects, PCs
<1>13. ASSUME NEW t \in Timers, ReleaseOld(t) PROVE P
  BY <1>13, Kinds, AfterTable
     DEF Typing, Values, Locals, ReleaseOld, Return, Goto, Hold, CallClose, local, objects, PCs
<1>14. ASSUME NEW t \in Timers, WriteUnlock(t) PROVE P
  BY <1>14, Kinds, AfterTable
     DEF Typing, Values, Locals, WriteUnlock, Return, Goto, Hold, CallClose, local, objects, PCs
<1>15. ASSUME NEW t \in Threads, Initialize(t) PROVE P
  <2>1. After(t, "init") \in PCs
    BY Kinds, AfterTable DEF PCs, Typing, Values
  <2>2. UNCHANGED <<made, x, old>>
    BY <1>15 DEF Initialize
  <2>3. CASE Goto(t, "create") /\ UNCHANGED ret
    BY <2>2, <2>3 DEF Typing, Locals, Goto, PCs
  <2>4. CASE CallClose(t, After(t, "init"))
    BY <2>1, <2>2, <2>4 DEF Typing, Locals, Goto, CallClose, PCs
  <2> QED
    BY <1>15, <2>3, <2>4 DEF Initialize
<1>16. ASSUME NEW t \in Threads, OnCreate(t) PROVE P
  <2>1. UNCHANGED <<made, x, old>>
    BY <1>16 DEF OnCreate
  <2>2. CASE Goto(t, "created") /\ UNCHANGED ret
    BY <2>1, <2>2 DEF Typing, Locals, Goto, PCs
  <2>3. CASE CallClose(t, "noread")
    BY <2>1, <2>3 DEF Typing, Locals, Goto, CallClose, PCs
  <2> QED
    BY <1>16, <2>2, <2>3 DEF OnCreate
<1>17. ASSUME NEW t \in Threads, ReleaseRead(t) PROVE P
  BY <1>17, Kinds, AfterTable
     DEF Typing, Values, Locals, ReleaseRead, Return, Goto, Hold, CallClose, local, objects, PCs
<1>18. ASSUME NEW t \in Threads, EndInitialize(t) PROVE P
  BY <1>18, Kinds, AfterTable
     DEF Typing, Values, Locals, EndInitialize, Return, Goto, Hold, CallClose, local, objects, PCs
<1>19. ASSUME ReadFails PROVE P
  BY <1>19, Kinds, AfterTable
     DEF Typing, Values, Locals, ReadFails, Return, Goto, Hold, CallClose, local, objects, PCs
<1>20. ASSUME EndCallback PROVE P
  BY <1>20, Kinds, AfterTable
     DEF Typing, Values, Locals, EndCallback, Return, Goto, Hold, CallClose, local, objects, PCs
<1>21. ASSUME StartSend PROVE P
  BY <1>21, Kinds, AfterTable
     DEF Typing, Values, Locals, StartSend, Return, Goto, Hold, CallClose, local, objects, PCs
<1>22. ASSUME ReadLock PROVE P
  BY <1>22, Kinds, AfterTable
     DEF Typing, Values, Locals, ReadLock, Return, Goto, Hold, CallClose, local, objects, PCs
<1>23. ASSUME Send PROVE P
  BY <1>23, Kinds, AfterTable
     DEF Typing, Values, Locals, Send, Return, Goto, Hold, CallClose, local, objects, PCs
<1>24. ASSUME EndSend PROVE P
  BY <1>24, Kinds, AfterTable
     DEF Typing, Values, Locals, EndSend, Return, Goto, Hold, CallClose, local, objects, PCs
<1>25. ASSUME ReadUnlock PROVE P
  BY <1>25, Kinds, AfterTable
     DEF Typing, Values, Locals, ReadUnlock, Return, Goto, Hold, CallClose, local, objects, PCs
<1>26. ASSUME Shutdown PROVE P
  BY <1>26, Kinds, AfterTable
     DEF Typing, Values, Locals, Shutdown, Return, Goto, Hold, CallClose, local, objects, PCs
<1>27. ASSUME EndConnection PROVE P
  BY <1>27, Kinds, AfterTable
     DEF Typing, Values, Locals, EndConnection, Return, Goto, Hold, CallClose, local, objects,
         PCs, Construct
<1>28. ASSUME ReleasePointer PROVE P
  BY <1>28, Kinds, AfterTable
     DEF Typing, Values, Locals, ReleasePointer, Return, Goto, Hold, CallClose, local, objects,
         PCs
<1>29. CASE UNCHANGED vars
  BY <1>29 DEF vars, objects, local, Typing, Locals
<1> QED
  BY <1>1, <1>2, <1>3, <1>4, <1>5, <1>6, <1>7, <1>8, <1>9, <1>10, <1>11, <1>12, <1>13, <1>14,
     <1>15, <1>16, <1>17, <1>18, <1>19, <1>20, <1>21, <1>22, <1>23, <1>24, <1>25, <1>26, <1>27,
     <1>28, <1>29
     DEF Next, Closing, Initializing, Reconnecting

-----------------------------------------------------------------------------
(* The actions *)

\* t takes no part in connecting, closing or reconnecting
NoRole(t) ==
  ~(Carries(t) \/ Shut(t) \/ Making(t) \/ Fresh(t) \/ Unread(t) \/ Apart(t) \/ Dropping(t)
      \/ Locked(t) \/ Initializes(t) \/ FailsToRead(t))

LEMMA IdleNoRole ==
  \A t : (pc[t] = "idle" => NoRole(t)) /\ (pc'[t] = "idle" => NoRole(t)')
BY
   DEF ClosingPCs, NoRole, Carries, Shut, Making, Fresh, Unread, Apart, Dropping, Locked,
       Initializes, FailsToRead

\* the invariant after a step, but for the types of the local variables
IKept ==
  /\ Values' /\ PlaceInv' /\ ChainInv' /\ LockInv' /\ PtrInv' /\ OwnInv' /\ ReadInv' /\ RoleInv'
  /\ RefInv' /\ PointerIsLive' /\ UnlockedUse'

LEMMA FirstConnectKeeps ==
  ASSUME IInv, FirstConnect
  PROVE  IKept
<1>1. /\ stray = {} /\ pc[Main] = "start" /\ Main \in Threads /\ Others(Main)
      /\ \E o \in Socks : Makes(Main, o) /\ ptr' = o
      /\ \/ pc'[Main] = "init" /\ ret'[Main] = ret[Main]
         \/ pc'[Main] = "exchange" /\ ret'[Main] = "idle"
      /\ UNCHANGED <<kind, use, readers, writers, deleted, io, timers, leaked, shutdown, stray>>
  BY Kinds, FirstConnectEffect DEF IInv, Moves, Calls, Makes
<1>2. Placed(Main) /\ x[Main] \in made \cup {None} /\ old[Main] \in made \cup {None}
  BY <1>1 DEF IInv, PlaceInv, Typing, Locals
<1>3. /\ ~Making(Main) /\ Making(Main)' /\ ~Fresh(Main)
      /\ (Fresh(Main)' <=> pc'[Main] = "init") /\ ~Unread(Main)
      /\ (Unread(Main)' <=> pc'[Main] = "init") /\ ~Carries(Main) /\ ~Carries(Main)'
      /\ ~Shut(Main) /\ ~Shut(Main)' /\ ~Apart(Main) /\ ~Apart(Main)' /\ ~Dropping(Main)
      /\ ~Dropping(Main)' /\ ~Locked(Main) /\ ~Locked(Main)' /\ ~Initializes(Main)
      /\ ~Initializes(Main)' /\ ~FailsToRead(Main) /\ ~FailsToRead(Main)'
  BY <1>1, <1>2, Kinds
     DEF Placed, Places, ClosingPCs, CloserRets, Makers, NoRole, Carries, Shut, Making, Fresh,
         Unread, Apart, Dropping, Locked, Initializes, FailsToRead, Moves, Calls, Makes
<1>4. \A u \in Threads : u # Main =>
        /\ pc'[u] = pc[u] /\ x'[u] = x[u] /\ old'[u] = old[u] /\ ret'[u] = ret[u]
        /\ (Carries(u)' <=> Carries(u)) /\ (Shut(u)' <=> Shut(u)) /\ (Making(u)' <=> Making(u))
        /\ (Fresh(u)' <=> Fresh(u)) /\ (Unread(u)' <=> Unread(u)) /\ (Apart(u)' <=> Apart(u))
        /\ (Dropping(u)' <=> Dropping(u)) /\ (Locked(u)' <=> Locked(u))
        /\ (Initializes(u)' <=> Initializes(u)) /\ (FailsToRead(u)' <=> FailsToRead(u))
  BY <1>1, OthersKeep
<1>5. PICK o \in Socks : Makes(Main, o) /\ ptr' = o
  BY <1>1
<1>6. /\ \A u \in Threads : x[u] # o /\ old[u] # o
      /\ o \notin open /\ o \notin timers /\ o \notin io /\ o \notin leaked /\ o \notin deleted
      /\ o # ptr /\ o # None /\ o \notin made
  BY <1>5, NewObject DEF Makes
<1>7. made = {} /\ ptr = None /\ open = {} /\ timers = {} /\ ~noSocket /\ io = {}
  BY <1>1 DEF IInv, PlaceInv, MainInv, Typing, Values
<1>8. \A u \in Threads : NoRole(u) /\ pc[u] # "exchange" /\ x[u] = None /\ (u # User => pc[u] \in {"start", "idle"})
  <2> SUFFICES ASSUME NEW u \in Threads
               PROVE  NoRole(u) /\ pc[u] # "exchange" /\ x[u] = None /\ (u # User => pc[u] \in {"start", "idle"})
    OBVIOUS
  <2>1. x[u] = None /\ Placed(u)
    BY <1>7 DEF IInv, Typing, Locals, PlaceInv
  <2>2. (u = User /\ pc[u] \in Places(u)) \/ pc[u] \in {"start", "idle"}
    BY <2>1, Kinds DEF Placed, Places, ClosingPCs
  <2> QED
    BY <2>1, <2>2, Kinds
       DEF Places, Makers, ClosingPCs, NoRole, Carries, Shut, Making, Fresh, Unread, Apart,
           Dropping, Locked, Initializes, FailsToRead
<1>9. PlaceInv'
  <2>1. Placed(Main)'
    BY <1>1, <1>2, Kinds, NoneApart
       DEF IInv, Typing, Values, Placed, Places, ClosingPCs, CloserRets, Moves, Calls, Makes
  <2>2. MainInv'
    BY <1>1, <1>2, <1>4, Kinds, LatestFacts
       DEF IInv, Typing, Values, PlaceInv, MainInv, Placed, Places, CloserRets, ClosingPCs,
           Moves, Calls, Makes
  <2> QED
    BY <1>1, <2>1, <2>2, PlaceStep
<1>10. ChainInv'
  <2>1. AtLatest'
    BY <1>1, <1>2, <1>3, <1>4, Kinds, <1>5, <1>6, <1>7, <1>8
       DEF IInv, ChainInv, AtLatest, NoRole, Makes
  <2>2. OneCarrier'
    BY <1>1, <1>2, <1>3, <1>4, Kinds, <1>5, <1>6, <1>7, <1>8
       DEF IInv, ChainInv, OneCarrier, NoRole, Makes
  <2>3. ChainGoesOn'
    BY <1>1, <1>2, <1>3, <1>4, Kinds, <1>5, <1>6, <1>7, <1>8
       DEF IInv, ChainInv, ChainGoesOn, NoRole, Makes
  <2>4. ReconnectSet'
    BY <1>1, <1>2, <1>3, <1>4, Kinds, <1>5, <1>6, <1>7, <1>8
       DEF IInv, ChainInv, ReconnectSet, NoRole, Makes
  <2> QED
    BY <2>1, <2>2, <2>3, <2>4 DEF ChainInv
<1>11. LockInv'
  BY <1>1, <1>2, <1>3, Kinds, LockStep DEF NoRole, Moves, Calls, Makes, IInv, Reads
<1>12. PtrInv'
  BY <1>1, <1>3, <1>4, <1>5, <1>7, <1>8, Kinds DEF IInv, PtrInv, NoRole, PlaceInv, MainInv
<1>13. OwnInv'
  <2>1. OneMaker'
    BY <1>1, <1>2, <1>3, <1>4, Kinds, <1>5, <1>6, <1>7, <1>8
       DEF IInv, OwnInv, OneMaker, NoRole, Makes
  <2>2. FreshOpen'
    BY <1>1, <1>2, <1>3, <1>4, Kinds, <1>5, <1>6, <1>7, <1>8
       DEF IInv, OwnInv, FreshOpen, NoRole, Makes
  <2>3. FreshAlone'
    BY <1>1, <1>2, <1>3, <1>4, Kinds, <1>5, <1>6, <1>7, <1>8
       DEF IInv, OwnInv, FreshAlone, NoRole, Makes
  <2>4. OneCloser'
    BY <1>1, <1>2, <1>3, <1>4, Kinds, <1>5, <1>6, <1>7, <1>8
       DEF IInv, OwnInv, OneCloser, NoRole, Makes
  <2>5. ShutClosed'
    BY <1>1, <1>2, <1>3, <1>4, Kinds, <1>5, <1>6, <1>7, <1>8
       DEF IInv, OwnInv, ShutClosed, NoRole, Makes
  <2> QED
    BY <2>1, <2>2, <2>3, <2>4, <2>5 DEF OwnInv
<1>14. ReadInv'
  <2>1. UnreadInv'
    BY <1>1, <1>2, <1>3, <1>4, Kinds, <1>5, <1>6, <1>7, <1>8
       DEF IInv, ReadInv, UnreadInv, NoRole, Makes
  <2>2. WorkerInv'
    BY <1>1, <1>2, <1>3, <1>4, Kinds, <1>5, <1>6, <1>7, <1>8
       DEF IInv, ReadInv, WorkerInv, NoRole, Makes
  <2>3. NotLeaked'
    BY <1>1, <1>2, <1>3, <1>4, Kinds, <1>5, <1>6, <1>7, <1>8
       DEF IInv, ReadInv, NotLeaked, NoRole, Makes
  <2> QED
    BY <2>1, <2>2, <2>3 DEF ReadInv
<1>15. RoleInv'
  <2>1. ApartInv'
    BY <1>1, <1>2, <1>3, <1>4, Kinds, <1>5, <1>6, <1>7, <1>8
       DEF IInv, RoleInv, ApartInv, NoRole, Makes
  <2>2. DropInv'
    BY <1>1, <1>2, <1>3, <1>4, Kinds, <1>5, <1>6, <1>7, <1>8
       DEF IInv, RoleInv, DropInv, NoRole, Makes
  <2>3. OneDropper'
    BY <1>1, <1>2, <1>3, <1>4, Kinds, <1>5, <1>6, <1>7, <1>8
       DEF IInv, RoleInv, OneDropper, NoRole, Makes
  <2>4. ApartDropped'
    BY <1>1, <1>2, <1>3, <1>4, Kinds, <1>5, <1>6, <1>7, <1>8
       DEF IInv, RoleInv, ApartDropped, NoRole, Makes
  <2> QED
    BY <2>1, <2>2, <2>3, <2>4 DEF RoleInv
<1>16. Values' /\ RefInv' /\ PointerIsLive' /\ UnlockedUse'
  <2>1. Holders(o)' = 1
    <3>1. Wanted(o)'
      BY <1>1, <1>3, <1>4, <1>5, <1>6, Kinds, <1>7, <1>8 DEF Wanted, Makes, NoRole
    <3>2. ~Closed(o)' /\ ~Initial(o)' /\ ~Sending(o)'
      BY <1>1, <1>3, <1>4, <1>5, <1>6, Kinds, <1>7, <1>8
         DEF Closed, Initial, Sending, Makes, NoRole
    <3>3. ~ReadBy(o)' /\ o \notin leaked'
      BY <1>1, <1>3, <1>4, <1>5, <1>6, Kinds, <1>7, <1>8 DEF ReadBy, Makes, NoRole
    <3> QED
      BY <3>1, <3>2, <3>3 DEF Holders, B2N
  <2>2. \A p \in made : Holders(p)' = Holders(p)
    BY <1>7
  <2>3. Values'
    <3>1. Latest' = o /\ o = Latest + 1 /\ o \in Socks /\ made' = made \cup {o}
      BY <1>5 DEF Makes
    <3>2. made' = 0..Latest'
      BY <3>1, LatestFacts DEF IInv, Typing, Values
    <3>3. refs' \in [Socks -> Nat] /\ open' \subseteq made'
      BY <1>5, <3>1 DEF IInv, Typing, Values, Makes
    <3>4. reconnect' \in BOOLEAN /\ noSocket' \in BOOLEAN
      BY <1>5 DEF IInv, Typing, Values, Makes
    <3>5. StrayOK'
      BY <1>1 DEF StrayOK
    <3> QED
      BY <1>1, <1>5, <1>6, <3>1, <3>2, <3>3, <3>4, <3>5 DEF IInv, Typing, Values
  <2>4. RefInv'
    <3>1. refs \in [Socks -> Nat] /\ made \subseteq Socks
      BY DEF IInv, Typing, Values
    <3>2. made' = made \cup {o} /\ refs'[o] = 1 /\ \A p \in made : refs'[p] = refs[p]
      BY <1>5, <1>6, <3>1 DEF Makes
    <3>3. pc'[Listener] # "idle" => shutdown'
      BY <1>1, <1>4, Kinds DEF IInv, RefInv
    <3> QED
      BY <1>1, <1>6, <2>1, <2>2, <3>1, <3>2, <3>3 DEF IInv, RefInv
  <2>5. UnlockedUse'
    BY <1>1 DEF UnlockedUse
  <2> QED
    BY <1>1, <2>3, <2>4, <2>5, PointerStep DEF IInv
<1> QED
  BY <1>9, <1>10, <1>11, <1>12, <1>13, <1>14, <1>15, <1>16 DEF IKept

LEMMA ExchangeHandleKeeps ==
  ASSUME IInv, NEW t \in Threads, ExchangeHandle(t)
  PROVE  IKept
<1>1. /\ stray = {} /\ pc[t] = "exchange" /\ t \in Threads /\ Others(t)
      /\ Moves(t, IF x[t] \in open THEN "onclose" ELSE ret[t])
      /\ open' = open \ {x[t]}
      /\ UNCHANGED <<kind, ptr, reconnect, use, readers, writers, made, refs,
           deleted, io, timers, noSocket, leaked, shutdown, stray>>
  BY Kinds, ExchangeHandleEffect DEF IInv, Moves, Calls
<1>2. Placed(t) /\ x[t] \in made \cup {None} /\ old[t] \in made \cup {None}
  BY <1>1 DEF IInv, PlaceInv, Typing, Locals
<1>3. /\ ~Carries(t) /\ (Carries(t)' <=> x[t] \in open) /\ ~Shut(t)
      /\ (Shut(t)' <=> x[t] \in open) /\ (Making(t)' => Making(t))
      /\ (Unread(t)' <=> Unread(t)) /\ (Apart(t)' <=> Apart(t))
      /\ (Dropping(t)' <=> Dropping(t)) /\ (Locked(t)' <=> Locked(t))
      /\ (Initializes(t)' <=> Initializes(t)) /\ (FailsToRead(t)' <=> FailsToRead(t))
      /\ ~Fresh(t) /\ ~Fresh(t)'
  <2>1. ret[t] \in CloserRets(t) /\ t # User /\ (t \in Makers \/ t = Worker \/ t = Listener)
        /\ kind \in {"log", "ip", "wanted"}
    BY <1>1, <1>2, Kinds DEF IInv, Typing, Values, Placed, Places, ClosingPCs, Makers
  <2>2. ~Carries(t) /\ (Carries(t)' <=> x[t] \in open)
    BY <1>1, <2>1, Kinds DEF CloserRets, ClosingPCs, Makers, Carries, Moves
  <2>3. ~Shut(t) /\ (Shut(t)' <=> x[t] \in open)
    BY <1>1, <2>1, Kinds DEF CloserRets, ClosingPCs, Makers, Shut, Moves
  <2>4. (Making(t)' => Making(t))
    BY <1>1, <2>1, Kinds DEF CloserRets, ClosingPCs, Makers, Making, Moves
  <2>5. ~Fresh(t) /\ ~Fresh(t)'
    BY <1>1, <2>1, Kinds DEF CloserRets, ClosingPCs, Makers, Fresh, Moves
  <2>6. (Unread(t)' <=> Unread(t))
    BY <1>1, <2>1, Kinds DEF CloserRets, ClosingPCs, Makers, Unread, Fresh, Moves
  <2>7. (Apart(t)' <=> Apart(t))
    BY <1>1, <2>1, Kinds DEF CloserRets, ClosingPCs, Makers, Apart, Moves
  <2>8. (Dropping(t)' <=> Dropping(t))
    BY <1>1, <2>1, Kinds DEF CloserRets, ClosingPCs, Makers, Dropping, Moves
  <2>9. (Locked(t)' <=> Locked(t))
    BY <1>1, <2>1, Kinds DEF CloserRets, ClosingPCs, Makers, Locked, Moves
  <2>10. (Initializes(t)' <=> Initializes(t))
    BY <1>1, <2>1, Kinds DEF CloserRets, ClosingPCs, Makers, Initializes, Moves
  <2>11. (FailsToRead(t)' <=> FailsToRead(t))
    BY <1>1, <2>1, Kinds DEF CloserRets, ClosingPCs, Makers, FailsToRead, Moves
  <2> QED
    BY <2>2, <2>3, <2>4, <2>5, <2>6, <2>7, <2>8, <2>9, <2>10, <2>11
<1>4. \A u \in Threads : u # t =>
        /\ pc'[u] = pc[u] /\ x'[u] = x[u] /\ old'[u] = old[u] /\ ret'[u] = ret[u]
        /\ (Carries(u)' <=> Carries(u)) /\ (Shut(u)' <=> Shut(u)) /\ (Making(u)' <=> Making(u))
        /\ (Fresh(u)' <=> Fresh(u)) /\ (Unread(u)' <=> Unread(u)) /\ (Apart(u)' <=> Apart(u))
        /\ (Dropping(u)' <=> Dropping(u)) /\ (Locked(u)' <=> Locked(u))
        /\ (Initializes(u)' <=> Initializes(u)) /\ (FailsToRead(u)' <=> FailsToRead(u))
  BY <1>1, OthersKeep
<1>5. NoRole(t)' \/ (pc'[t] # "idle" /\ x'[t] = x[t] /\ old'[t] = old[t])
  BY <1>1, IdleNoRole DEF Moves
<1>6. /\ t # User /\ (t \in {Worker, Listener} => pc'[t] # "idle" /\ x'[t] = x[t])
      /\ pc'[t] \notin {"exchange", "closed", "swap", "create", "send", "sent"}
  BY <1>1, <1>2, Kinds DEF Placed, Places, ClosingPCs, CloserRets, Moves
<1>7. PlaceInv'
  <2>1. Placed(t)'
    BY <1>1, <1>2, Kinds, NoneApart
       DEF IInv, Typing, Values, Placed, Places, ClosingPCs, CloserRets, Moves, Calls
  <2>2. MainInv'
    BY <1>1, <1>2, <1>4, Kinds
       DEF IInv, Typing, Values, PlaceInv, MainInv, Placed, Places, CloserRets, ClosingPCs,
           Moves, Calls
  <2> QED
    BY <1>1, <2>1, <2>2, PlaceStep
<1>8. ChainInv'
  <2>1. Latest' = Latest
    BY <1>1 DEF Latest
  <2>2. CASE x[t] \notin open
    <3>1. open' = open /\ \A u \in Threads : (Carries(u)' <=> Carries(u)) /\ (Carries(u) => x'[u] = x[u] /\ pc'[u] = pc[u])
      BY <1>1, <1>3, <1>4, <2>2
    <3> QED
      BY <1>1, <2>1, <3>1 DEF IInv, ChainInv, AtLatest, OneCarrier, ChainGoesOn, ReconnectSet
  <2>3. CASE x[t] \in open
    <3>1. /\ x[t] = Latest /\ open' = {} /\ timers = {} /\ ~noSocket
          /\ \A u \in Threads : ~Carries(u)
      BY <1>1, <2>3 DEF IInv, ChainInv, AtLatest, OneCarrier, ChainGoesOn
    <3>2. Carries(t)' /\ x'[t] = x[t] /\ pc'[t] = "onclose" /\ \A u \in Threads : u # t => ~Carries(u)'
      BY <1>1, <1>3, <1>4, <2>3, <3>1 DEF Moves
    <3>3. AtLatest' /\ OneCarrier'
      BY <1>1, <2>1, <3>1, <3>2 DEF AtLatest, OneCarrier
    <3>4. ChainGoesOn' /\ ReconnectSet'
      BY <1>1, <2>1, <3>1, <3>2 DEF ChainGoesOn, ReconnectSet
    <3> QED
      BY <3>3, <3>4 DEF ChainInv
  <2> QED
    BY <2>2, <2>3
<1>9. LockInv'
  BY <1>1, <1>2, <1>3, <1>5, <1>6, Kinds, LockStep DEF NoRole, Moves, Calls, IInv, Reads
<1>10. PtrInv'
  BY <1>1, <1>2, <1>3, <1>5, <1>6, Kinds, PtrStep DEF NoRole, Moves, Calls
<1>11. OwnInv'
  <2>1. OneMaker'
    BY <1>1, <1>2, <1>3, <1>4, Kinds, <1>5, <1>6
       DEF IInv, OwnInv, OneMaker, NoRole, FreshAlone, Moves, Calls
  <2>2. FreshOpen'
    BY <1>1, <1>2, <1>3, <1>4, Kinds, <1>5, <1>6
       DEF IInv, OwnInv, FreshOpen, NoRole, FreshAlone, Moves, Calls
  <2>3. FreshAlone'
    BY <1>1, <1>2, <1>3, <1>4, Kinds, <1>5, <1>6
       DEF IInv, OwnInv, FreshAlone, NoRole, Moves, Calls
  <2>4. OneCloser'
    BY <1>1, <1>2, <1>3, <1>4, Kinds, <1>5, <1>6
       DEF IInv, OwnInv, OneCloser, NoRole, ShutClosed, Moves, Calls
  <2>5. ShutClosed'
    BY <1>1, <1>2, <1>3, <1>4, Kinds, <1>5, <1>6
       DEF IInv, OwnInv, ShutClosed, NoRole, FreshAlone, Moves, Calls
  <2> QED
    BY <2>1, <2>2, <2>3, <2>4, <2>5 DEF OwnInv
<1>12. ReadInv'
  BY <1>1, <1>2, <1>3, <1>5, <1>6, Kinds, ReadStep DEF NoRole, Moves, Calls
<1>13. RoleInv'
  BY <1>1, <1>2, <1>3, <1>5, <1>6, Kinds, RoleStep DEF NoRole, Moves, Calls
<1>14. \A o : Wanted(o)' <=> Wanted(o)
  BY <1>1, <1>2, <1>3, <1>5, <1>6, Kinds, WantedStep DEF NoRole, Moves, Calls
<1>15. \A o : Closed(o)' <=> Closed(o)
  BY <1>1, <1>2, <1>3, <1>5, <1>6, Kinds, ClosedStep DEF NoRole, Moves, Calls
<1>16. \A o : Initial(o)' <=> Initial(o)
  BY <1>1, <1>2, <1>3, <1>5, <1>6, Kinds, InitialStep DEF NoRole, Moves, Calls
<1>17. \A o : ReadBy(o)' <=> ReadBy(o)
  BY <1>1, <1>2, <1>3, <1>5, <1>6, Kinds, ReadByStep DEF NoRole, Moves, Calls
<1>18. \A o : Sending(o)' <=> Sending(o)
  BY <1>1, <1>2, <1>3, <1>5, <1>6, Kinds, SendingStep DEF NoRole, Moves, Calls
<1>19. \A p \in made : Holders(p)' = Holders(p)
  BY <1>1, <1>14, <1>15, <1>16, <1>17, <1>18 DEF Holders, B2N
<1>20. RefInv'
  BY <1>1, <1>4, <1>19, Kinds, RefKept DEF IInv, RefInv, Moves, Calls
<1>21. UnlockedUse' /\ StrayOK'
  BY <1>1 DEF UnlockedUse, StrayOK
<1>22. Values'
  BY <1>1, <1>2, <1>3, <1>21, ValueStep, InHand, Kinds DEF IInv, Typing, Values, Moves, Calls
<1>23. PointerIsLive'
  BY <1>1, <1>21, <1>22, <1>20, PointerStep DEF IInv
<1> QED
  BY <1>7, <1>8, <1>9, <1>10, <1>11, <1>12, <1>13, <1>20, <1>21, <1>22, <1>23 DEF IKept

LEMMA OnCloseKeeps ==
  ASSUME IInv, NEW t \in Threads, OnClose(t)
  PROVE  IKept
<1>1. /\ stray = {} /\ pc[t] = "onclose" /\ t \in Threads /\ Others(t)
      /\ Moves(t, "arm")
      /\ reconnect' = TRUE /\ use' = FALSE
      /\ UNCHANGED <<kind, ptr, readers, writers, made, open, refs, deleted, io,
           timers, noSocket, leaked, shutdown, stray>>
  BY Kinds, OnCloseEffect DEF IInv, Moves, Calls
<1>2. Placed(t) /\ x[t] \in made \cup {None} /\ old[t] \in made \cup {None}
  BY <1>1 DEF IInv, PlaceInv, Typing, Locals
<1>3. /\ Carries(t) /\ Carries(t)' /\ Shut(t) /\ Shut(t)' /\ (Making(t)' <=> Making(t))
      /\ (Unread(t)' <=> Unread(t)) /\ (Apart(t)' <=> Apart(t))
      /\ (Dropping(t)' <=> Dropping(t)) /\ (Locked(t)' <=> Locked(t))
      /\ (Initializes(t)' <=> Initializes(t)) /\ (FailsToRead(t)' <=> FailsToRead(t))
      /\ ~Fresh(t) /\ ~Fresh(t)'
  BY <1>1, <1>2, Kinds
     DEF Placed, Places, ClosingPCs, CloserRets, Makers, NoRole, Carries, Shut, Making, Fresh,
         Unread, Apart, Dropping, Locked, Initializes, FailsToRead, Moves, Calls
<1>4. \A u \in Threads : u # t =>
        /\ pc'[u] = pc[u] /\ x'[u] = x[u] /\ old'[u] = old[u] /\ ret'[u] = ret[u]
        /\ (Carries(u)' <=> Carries(u)) /\ (Shut(u)' <=> Shut(u)) /\ (Making(u)' <=> Making(u))
        /\ (Fresh(u)' <=> Fresh(u)) /\ (Unread(u)' <=> Unread(u)) /\ (Apart(u)' <=> Apart(u))
        /\ (Dropping(u)' <=> Dropping(u)) /\ (Locked(u)' <=> Locked(u))
        /\ (Initializes(u)' <=> Initializes(u)) /\ (FailsToRead(u)' <=> FailsToRead(u))
  BY <1>1, OthersKeep
<1>5. PlaceInv'
  <2>1. Placed(t)'
    BY <1>1, <1>2, Kinds, NoneApart
       DEF IInv, Typing, Values, Placed, Places, ClosingPCs, CloserRets, Moves, Calls
  <2>2. MainInv'
    BY <1>1, <1>2, <1>4, Kinds
       DEF IInv, Typing, Values, PlaceInv, MainInv, Placed, Places, CloserRets, ClosingPCs,
           Moves, Calls
  <2> QED
    BY <1>1, <2>1, <2>2, PlaceStep
<1>6. ChainInv'
  BY <1>1, <1>2, <1>3, Kinds, ChainStep DEF NoRole, Moves, Calls, IInv, Typing, Values, Carries
<1>7. LockInv'
  BY <1>1, <1>2, <1>3, Kinds, LockStep DEF NoRole, Moves, Calls, IInv, Reads
<1>8. PtrInv'
  BY <1>1, <1>2, <1>3, Kinds, PtrStep DEF NoRole, Moves, Calls
<1>9. OwnInv'
  BY <1>1, <1>2, <1>3, Kinds, OwnStep DEF NoRole, Moves, Calls
<1>10. ReadInv'
  BY <1>1, <1>2, <1>3, Kinds, ReadStep DEF NoRole, Moves, Calls
<1>11. RoleInv'
  BY <1>1, <1>2, <1>3, Kinds, RoleStep DEF NoRole, Moves, Calls
<1>12. \A o : Wanted(o)' <=> Wanted(o)
  BY <1>1, <1>2, <1>3, Kinds, WantedStep DEF NoRole, Moves, Calls
<1>13. \A o : Closed(o)' <=> Closed(o)
  BY <1>1, <1>2, <1>3, Kinds, ClosedStep DEF NoRole, Moves, Calls
<1>14. \A o : Initial(o)' <=> Initial(o)
  BY <1>1, <1>2, <1>3, Kinds, InitialStep DEF NoRole, Moves, Calls
<1>15. \A o : ReadBy(o)' <=> ReadBy(o)
  BY <1>1, <1>2, <1>3, Kinds, ReadByStep DEF NoRole, Moves, Calls
<1>16. \A o : Sending(o)' <=> Sending(o)
  BY <1>1, <1>2, <1>3, Kinds, SendingStep DEF NoRole, Moves, Calls
<1>17. \A p \in made : Holders(p)' = Holders(p)
  BY <1>1, <1>12, <1>13, <1>14, <1>15, <1>16 DEF Holders, B2N
<1>18. RefInv'
  BY <1>1, <1>4, <1>17, Kinds, RefKept DEF IInv, RefInv, Moves, Calls
<1>19. UnlockedUse' /\ StrayOK'
  BY <1>1 DEF UnlockedUse, StrayOK
<1>20. Values'
  BY <1>1, <1>2, <1>3, <1>19, ValueStep, InHand, Kinds DEF IInv, Typing, Values, Moves, Calls
<1>21. PointerIsLive'
  BY <1>1, <1>19, <1>20, <1>18, PointerStep DEF IInv
<1> QED
  BY <1>5, <1>6, <1>7, <1>8, <1>9, <1>10, <1>11, <1>18, <1>19, <1>20, <1>21 DEF IKept

LEMMA ArmTimerKeeps ==
  ASSUME IInv, NEW t \in Threads, ArmTimer(t)
  PROVE  IKept
<1>1. /\ stray = {} /\ pc[t] = "arm" /\ t \in Threads /\ Others(t)
      /\ Moves(t, "closed")
      /\ timers' = timers \cup {x[t]} /\ AddRef(t, x[t], 1)
      /\ UNCHANGED <<kind, ptr, reconnect, use, readers, writers, made, open, io,
           noSocket, leaked, shutdown>>
  BY Kinds, ArmTimerEffect DEF IInv, Moves, Calls
<1>2. Placed(t) /\ x[t] \in made \cup {None} /\ old[t] \in made \cup {None}
  BY <1>1 DEF IInv, PlaceInv, Typing, Locals
<1>3. /\ Carries(t) /\ ~Carries(t)' /\ Shut(t) /\ Shut(t)' /\ (Making(t)' <=> Making(t))
      /\ (Unread(t)' <=> Unread(t)) /\ (Apart(t)' <=> Apart(t))
      /\ (Dropping(t)' <=> Dropping(t)) /\ (Locked(t)' <=> Locked(t))
      /\ (Initializes(t)' <=> Initializes(t)) /\ (FailsToRead(t)' <=> FailsToRead(t))
      /\ ~Fresh(t) /\ ~Fresh(t)'
  BY <1>1, <1>2, Kinds
     DEF Placed, Places, ClosingPCs, CloserRets, Makers, NoRole, Carries, Shut, Making, Fresh,
         Unread, Apart, Dropping, Locked, Initializes, FailsToRead, Moves, Calls
<1>4. \A u \in Threads : u # t =>
        /\ pc'[u] = pc[u] /\ x'[u] = x[u] /\ old'[u] = old[u] /\ ret'[u] = ret[u]
        /\ (Carries(u)' <=> Carries(u)) /\ (Shut(u)' <=> Shut(u)) /\ (Making(u)' <=> Making(u))
        /\ (Fresh(u)' <=> Fresh(u)) /\ (Unread(u)' <=> Unread(u)) /\ (Apart(u)' <=> Apart(u))
        /\ (Dropping(u)' <=> Dropping(u)) /\ (Locked(u)' <=> Locked(u))
        /\ (Initializes(u)' <=> Initializes(u)) /\ (FailsToRead(u)' <=> FailsToRead(u))
  BY <1>1, OthersKeep
<1>5. PlaceInv'
  <2>1. Placed(t)'
    BY <1>1, <1>2, Kinds, NoneApart
       DEF IInv, Typing, Values, Placed, Places, ClosingPCs, CloserRets, Moves, Calls
  <2>2. MainInv'
    BY <1>1, <1>2, <1>4, Kinds
       DEF IInv, Typing, Values, PlaceInv, MainInv, Placed, Places, CloserRets, ClosingPCs,
           Moves, Calls
  <2> QED
    BY <1>1, <2>1, <2>2, PlaceStep
<1>6. ChainInv'
  <2>0. Latest' = Latest
    BY <1>1 DEF Latest
  <2>1. AtLatest'
    BY <1>1, <1>2, <1>3, <1>4, Kinds, <2>0
       DEF IInv, ChainInv, AtLatest, OneCarrier, Typing, Values, Carries, Moves, Calls
  <2>2. OneCarrier'
    BY <1>1, <1>2, <1>3, <1>4, Kinds, <2>0
       DEF IInv, ChainInv, OneCarrier, OneCarrier, Typing, Values, Carries, Moves, Calls
  <2>3. ChainGoesOn'
    BY <1>1, <1>2, <1>3, <1>4, Kinds, <2>0
       DEF IInv, ChainInv, ChainGoesOn, OneCarrier, Typing, Values, Carries, Moves, Calls
  <2>4. ReconnectSet'
    BY <1>1, <1>2, <1>3, <1>4, Kinds, <2>0
       DEF IInv, ChainInv, ReconnectSet, OneCarrier, Typing, Values, Carries, Moves, Calls
  <2> QED
    BY <2>1, <2>2, <2>3, <2>4 DEF ChainInv
<1>7. LockInv'
  BY <1>1, <1>2, <1>3, Kinds, LockStep DEF NoRole, Moves, Calls, IInv, Reads
<1>8. PtrInv'
  BY <1>1, <1>2, <1>3, Kinds, PtrStep DEF NoRole, Moves, Calls
<1>9. OwnInv'
  BY <1>1, <1>2, <1>3, Kinds, OwnStep DEF NoRole, Moves, Calls
<1>10. ReadInv'
  BY <1>1, <1>2, <1>3, Kinds, ReadStep DEF NoRole, Moves, Calls
<1>11. RoleInv'
  BY <1>1, <1>2, <1>3, Kinds, RoleStep DEF NoRole, Moves, Calls
<1>12. \A o : Wanted(o)' <=> Wanted(o)
  BY <1>1, <1>2, <1>3, Kinds, WantedStep DEF NoRole, Moves, Calls
<1>13. /\ \A o : Closed(o)' <=> Closed(o) \/ o = x[t]
       /\ ~Closed(x[t])
  BY <1>1, <1>2, <1>3, <1>4 DEF IInv, Closed, OwnInv, OneCloser, Shut, Moves, Calls
<1>14. \A o : Initial(o)' <=> Initial(o)
  BY <1>1, <1>2, <1>3, Kinds, InitialStep DEF NoRole, Moves, Calls
<1>15. \A o : ReadBy(o)' <=> ReadBy(o)
  BY <1>1, <1>2, <1>3, Kinds, ReadByStep DEF NoRole, Moves, Calls
<1>16. \A o : Sending(o)' <=> Sending(o)
  BY <1>1, <1>2, <1>3, Kinds, SendingStep DEF NoRole, Moves, Calls
<1>17. \A p \in made : Holders(p)' = Holders(p) + (IF p = x[t] THEN 1 ELSE 0)
  BY <1>1, <1>12, <1>13, <1>14, <1>15, <1>16 DEF Holders, B2N
<1>18. pc'[Listener] # "idle" => pc[Listener] # "idle"
  BY <1>1, <1>4, Kinds
<1>19. RefInv'
  BY <1>1, <1>2, <1>17, <1>18, RefTaken
<1>20. x[t] # None /\ (shutdown \/ Holders(x[t]) > 0)
  <2>1. x[t] # None /\ (t = Worker \/ t = Listener \/ (t \in Makers /\ Making(t)))
    BY <1>1, <1>2, Kinds DEF Placed, Places, ClosingPCs, Making, Makers
  <2>2. CASE t = Worker
    BY <1>1, <2>1, <2>2, HoldersPositive DEF ReadBy
  <2>3. CASE t = Listener
    BY <1>1, <2>1, <2>3 DEF IInv, RefInv
  <2>4. CASE t \in Makers /\ Making(t)
    BY <1>1, <1>3, <2>1, <2>4, MakerHolds, HoldersPositive DEF ClosingPCs
  <2> QED
    BY <2>1, <2>2, <2>3, <2>4
<1>21. /\ UnlockedUse' /\ StrayOK'
       /\ stray' = {} \/ UNCHANGED deleted
  BY <1>1, <1>2, <1>20, NoStray
<1>22. Values'
  <2>1. refs' \in [Socks -> Nat] /\ deleted' \subseteq made
    BY <1>1, <1>2, RefTypes DEF IInv, RefInv
  <2> QED
    BY <1>1, <1>2, <1>20, <1>21, <2>1, ValueStep DEF IInv, Typing, Values, Placed
<1>23. PointerIsLive'
  BY <1>1, <1>21, <1>22, <1>19, PointerStep DEF IInv
<1> QED
  BY <1>5, <1>6, <1>7, <1>8, <1>9, <1>10, <1>11, <1>19, <1>21, <1>22, <1>23 DEF IKept

LEMMA ReleaseSocketKeeps ==
  ASSUME IInv, NEW t \in Threads, ReleaseSocket(t)
  PROVE  IKept
<1>1. /\ stray = {} /\ pc[t] = "closed" /\ t \in Threads /\ Others(t)
      /\ Moves(t, ret[t]) /\ ReleaseRef(t, x[t])
      /\ UNCHANGED <<kind, ptr, reconnect, use, readers, writers, made, open, io,
           timers, noSocket, leaked, shutdown>>
  BY Kinds, ReleaseSocketEffect DEF IInv, Moves, Calls
<1>2. Placed(t) /\ x[t] \in made \cup {None} /\ old[t] \in made \cup {None}
  BY <1>1 DEF IInv, PlaceInv, Typing, Locals
<1>3. /\ Shut(t) /\ ~Shut(t)' /\ (Making(t)' => Making(t)) /\ (Unread(t)' <=> Unread(t))
      /\ (Apart(t)' <=> Apart(t)) /\ (Dropping(t)' <=> Dropping(t))
      /\ (Locked(t)' <=> Locked(t)) /\ (Initializes(t)' <=> Initializes(t))
      /\ (FailsToRead(t)' <=> FailsToRead(t)) /\ ~Carries(t) /\ ~Carries(t)'
      /\ ~Fresh(t) /\ ~Fresh(t)'
  <2>1. ret[t] \in CloserRets(t) /\ t # User /\ (t \in Makers \/ t = Worker \/ t = Listener)
        /\ kind \in {"log", "ip", "wanted"}
    BY <1>1, <1>2, Kinds DEF IInv, Typing, Values, Placed, Places, ClosingPCs, Makers
  <2>2. ~Carries(t) /\ ~Carries(t)'
    BY <1>1, <2>1, Kinds DEF CloserRets, ClosingPCs, Makers, Carries, Moves
  <2>3. Shut(t) /\ ~Shut(t)'
    BY <1>1, <2>1, Kinds DEF CloserRets, ClosingPCs, Makers, Shut, Moves
  <2>4. (Making(t)' => Making(t))
    BY <1>1, <2>1, Kinds DEF CloserRets, ClosingPCs, Makers, Making, Moves
  <2>5. ~Fresh(t) /\ ~Fresh(t)'
    BY <1>1, <2>1, Kinds DEF CloserRets, ClosingPCs, Makers, Fresh, Moves
  <2>6. (Unread(t)' <=> Unread(t))
    BY <1>1, <2>1, Kinds DEF CloserRets, ClosingPCs, Makers, Unread, Fresh, Moves
  <2>7. (Apart(t)' <=> Apart(t))
    BY <1>1, <2>1, Kinds DEF CloserRets, ClosingPCs, Makers, Apart, Moves
  <2>8. (Dropping(t)' <=> Dropping(t))
    BY <1>1, <2>1, Kinds DEF CloserRets, ClosingPCs, Makers, Dropping, Moves
  <2>9. (Locked(t)' <=> Locked(t))
    BY <1>1, <2>1, Kinds DEF CloserRets, ClosingPCs, Makers, Locked, Moves
  <2>10. (Initializes(t)' <=> Initializes(t))
    BY <1>1, <2>1, Kinds DEF CloserRets, ClosingPCs, Makers, Initializes, Moves
  <2>11. (FailsToRead(t)' <=> FailsToRead(t))
    BY <1>1, <2>1, Kinds DEF CloserRets, ClosingPCs, Makers, FailsToRead, Moves
  <2> QED
    BY <2>2, <2>3, <2>4, <2>5, <2>6, <2>7, <2>8, <2>9, <2>10, <2>11
<1>4. \A u \in Threads : u # t =>
        /\ pc'[u] = pc[u] /\ x'[u] = x[u] /\ old'[u] = old[u] /\ ret'[u] = ret[u]
        /\ (Carries(u)' <=> Carries(u)) /\ (Shut(u)' <=> Shut(u)) /\ (Making(u)' <=> Making(u))
        /\ (Fresh(u)' <=> Fresh(u)) /\ (Unread(u)' <=> Unread(u)) /\ (Apart(u)' <=> Apart(u))
        /\ (Dropping(u)' <=> Dropping(u)) /\ (Locked(u)' <=> Locked(u))
        /\ (Initializes(u)' <=> Initializes(u)) /\ (FailsToRead(u)' <=> FailsToRead(u))
  BY <1>1, OthersKeep
<1>5. NoRole(t)' \/ (pc'[t] # "idle" /\ x'[t] = x[t] /\ old'[t] = old[t])
  BY <1>1, IdleNoRole DEF Moves
<1>6. /\ t # User /\ (t \in {Worker, Listener} => pc'[t] # "idle" /\ x'[t] = x[t])
      /\ pc'[t] \notin {"exchange", "closed", "swap", "create", "send", "sent"}
  BY <1>1, <1>2, Kinds DEF Placed, Places, ClosingPCs, CloserRets, Moves
<1>7. PlaceInv'
  <2>1. Placed(t)'
    BY <1>1, <1>2, Kinds, NoneApart
       DEF IInv, Typing, Values, Placed, Places, ClosingPCs, CloserRets, Moves, Calls
  <2>2. MainInv'
    BY <1>1, <1>2, <1>4, Kinds
       DEF IInv, Typing, Values, PlaceInv, MainInv, Placed, Places, CloserRets, ClosingPCs,
           Moves, Calls
  <2> QED
    BY <1>1, <2>1, <2>2, PlaceStep
<1>8. ChainInv'
  BY <1>1, <1>2, <1>3, <1>5, <1>6, Kinds, ChainStep
     DEF NoRole, Moves, Calls, IInv, Typing, Values, Carries
<1>9. LockInv'
  BY <1>1, <1>2, <1>3, <1>5, <1>6, Kinds, LockStep DEF NoRole, Moves, Calls, IInv, Reads
<1>10. PtrInv'
  BY <1>1, <1>2, <1>3, <1>5, <1>6, Kinds, PtrStep DEF NoRole, Moves, Calls
<1>11. OwnInv'
  BY <1>1, <1>2, <1>3, <1>5, <1>6, Kinds, OwnStep DEF NoRole, Moves, Calls
<1>12. ReadInv'
  BY <1>1, <1>2, <1>3, <1>5, <1>6, Kinds, ReadStep DEF NoRole, Moves, Calls
<1>13. RoleInv'
  BY <1>1, <1>2, <1>3, <1>5, <1>6, Kinds, RoleStep DEF NoRole, Moves, Calls
<1>14. \A o : Wanted(o)' <=> Wanted(o)
  BY <1>1, <1>2, <1>3, <1>5, <1>6, Kinds, WantedStep DEF NoRole, Moves, Calls
<1>15. /\ \A o : Closed(o)' <=> Closed(o) /\ o # x[t]
       /\ Closed(x[t])
  BY <1>1, <1>2, <1>3, <1>4, <1>5, <1>6 DEF IInv, Closed, OwnInv, OneCloser, Shut, Moves, Calls
<1>16. \A o : Initial(o)' <=> Initial(o)
  BY <1>1, <1>2, <1>3, <1>5, <1>6, Kinds, InitialStep DEF NoRole, Moves, Calls
<1>17. \A o : ReadBy(o)' <=> ReadBy(o)
  BY <1>1, <1>2, <1>3, <1>5, <1>6, Kinds, ReadByStep DEF NoRole, Moves, Calls
<1>18. \A o : Sending(o)' <=> Sending(o)
  BY <1>1, <1>2, <1>3, <1>5, <1>6, Kinds, SendingStep DEF NoRole, Moves, Calls
<1>19. \A p \in made : Holders(p)' = Holders(p) - (IF p = x[t] THEN 1 ELSE 0)
  BY <1>1, <1>14, <1>15, <1>16, <1>17, <1>18 DEF Holders, B2N
<1>20. pc'[Listener] # "idle" => pc[Listener] # "idle"
  BY <1>1, <1>4, Kinds
<1>21. RefInv'
  <2>1. \A p \in made : Holders(p)' >= Holders(p) - (IF p = x[t] THEN 1 ELSE 0)
    BY <1>19, HoldersNat
  <2> QED
    BY <1>1, <1>2, <1>19, <1>20, <2>1, RefGiven
<1>22. x[t] # None /\ Holders(x[t]) > 0
  BY <1>1, <1>2, <1>15, Kinds, HoldersPositive, NoneApart
     DEF IInv, Placed, Places, ClosingPCs, RoleInv, DropInv
<1>23. /\ UnlockedUse' /\ StrayOK'
       /\ stray' = {} \/ UNCHANGED deleted
  BY <1>1, <1>2, <1>22, NoStray
<1>24. Values'
  <2>1. refs' \in [Socks -> Nat] /\ deleted' \subseteq made
    BY <1>1, <1>2, RefTypes DEF IInv, RefInv
  <2> QED
    BY <1>1, <1>2, <1>22, <1>23, <2>1, ValueStep DEF IInv, Typing, Values, Placed
<1>25. PointerIsLive'
  BY <1>1, <1>23, <1>24, <1>21, PointerStep DEF IInv
<1> QED
  BY <1>7, <1>8, <1>9, <1>10, <1>11, <1>12, <1>13, <1>21, <1>23, <1>24, <1>25 DEF IKept

LEMMA FireKeeps ==
  ASSUME IInv, NEW t \in Timers, Fire(t)
  PROVE  IKept
<1>1. /\ stray = {} /\ pc[t] = "idle" /\ t \in Threads /\ Others(t)
      /\ Others(t) /\ pc'[t] = "check" /\ old'[t] = old[t] /\ ret'[t] = ret[t]
      /\ x'[t] \in timers /\ timers' = timers \ {x'[t]}
      /\ UNCHANGED <<kind, ptr, reconnect, use, readers, writers, made, open, refs,
           deleted, io, noSocket, leaked, shutdown, stray>>
  BY Kinds, FireEffect DEF IInv, Moves, Calls
<1>2. Placed(t) /\ x[t] \in made \cup {None} /\ old[t] \in made \cup {None}
  BY <1>1 DEF IInv, PlaceInv, Typing, Locals
<1>3. /\ ~Carries(t) /\ Carries(t)' /\ ~Shut(t) /\ ~Shut(t)' /\ ~Making(t)
      /\ ~Making(t)' /\ ~Fresh(t) /\ ~Fresh(t)' /\ ~Unread(t) /\ ~Unread(t)'
      /\ ~Apart(t) /\ ~Apart(t)' /\ ~Dropping(t) /\ ~Dropping(t)' /\ ~Locked(t)
      /\ ~Locked(t)' /\ ~Initializes(t) /\ ~Initializes(t)' /\ ~FailsToRead(t)
      /\ ~FailsToRead(t)'
  BY <1>1, <1>2, Kinds
     DEF Placed, Places, ClosingPCs, CloserRets, Makers, NoRole, Carries, Shut, Making, Fresh,
         Unread, Apart, Dropping, Locked, Initializes, FailsToRead, Moves, Calls
<1>4. \A u \in Threads : u # t =>
        /\ pc'[u] = pc[u] /\ x'[u] = x[u] /\ old'[u] = old[u] /\ ret'[u] = ret[u]
        /\ (Carries(u)' <=> Carries(u)) /\ (Shut(u)' <=> Shut(u)) /\ (Making(u)' <=> Making(u))
        /\ (Fresh(u)' <=> Fresh(u)) /\ (Unread(u)' <=> Unread(u)) /\ (Apart(u)' <=> Apart(u))
        /\ (Dropping(u)' <=> Dropping(u)) /\ (Locked(u)' <=> Locked(u))
        /\ (Initializes(u)' <=> Initializes(u)) /\ (FailsToRead(u)' <=> FailsToRead(u))
  BY <1>1, OthersKeep
<1>5. PlaceInv'
  <2>1. Placed(t)'
    BY <1>1, <1>2, Kinds, NoneApart
       DEF IInv, Typing, Values, Placed, Places, ClosingPCs, CloserRets, Moves, Calls
  <2>2. MainInv'
    BY <1>1, <1>2, <1>4, Kinds
       DEF IInv, Typing, Values, PlaceInv, MainInv, Placed, Places, CloserRets, ClosingPCs,
           Moves, Calls
  <2> QED
    BY <1>1, <2>1, <2>2, PlaceStep
<1>6. ChainInv'
  <2>0. Latest' = Latest
    BY <1>1 DEF Latest
  <2>1. AtLatest'
    BY <1>1, <1>2, <1>3, <1>4, Kinds, <2>0
       DEF IInv, ChainInv, AtLatest, AtLatest, OneCarrier, Typing, Values, Moves, Calls
  <2>2. OneCarrier'
    BY <1>1, <1>2, <1>3, <1>4, Kinds, <2>0
       DEF IInv, ChainInv, OneCarrier, AtLatest, OneCarrier, Typing, Values, Moves, Calls
  <2>3. ChainGoesOn'
    BY <1>1, <1>2, <1>3, <1>4, Kinds, <2>0
       DEF IInv, ChainInv, ChainGoesOn, AtLatest, OneCarrier, Typing, Values, Moves, Calls
  <2>4. ReconnectSet'
    BY <1>1, <1>2, <1>3, <1>4, Kinds, <2>0
       DEF IInv, ChainInv, ReconnectSet, AtLatest, OneCarrier, Typing, Values, Moves, Calls
  <2> QED
    BY <2>1, <2>2, <2>3, <2>4 DEF ChainInv
<1>7. LockInv'
  BY <1>1, <1>2, <1>3, Kinds, LockStep DEF NoRole, Moves, Calls, IInv, Reads
<1>8. PtrInv'
  BY <1>1, <1>2, <1>3, Kinds, PtrStep DEF NoRole, Moves, Calls
<1>9. OwnInv'
  BY <1>1, <1>2, <1>3, Kinds, OwnStep DEF NoRole, Moves, Calls
<1>10. ReadInv'
  BY <1>1, <1>2, <1>3, Kinds, ReadStep DEF NoRole, Moves, Calls
<1>11. RoleInv'
  BY <1>1, <1>2, <1>3, Kinds, RoleStep DEF NoRole, Moves, Calls
<1>12. \A o : Wanted(o)' <=> Wanted(o)
  BY <1>1, <1>2, <1>3, Kinds, WantedStep DEF NoRole, Moves, Calls
<1>13. \A o : Closed(o)' <=> Closed(o)
  BY <1>1, <1>2, <1>3, Kinds, ClosedStep DEF NoRole, Moves, Calls
<1>14. \A o : Initial(o)' <=> Initial(o)
  BY <1>1, <1>2, <1>3, Kinds, InitialStep DEF NoRole, Moves, Calls
<1>15. \A o : ReadBy(o)' <=> ReadBy(o)
  BY <1>1, <1>2, <1>3, Kinds, ReadByStep DEF NoRole, Moves, Calls
<1>16. \A o : Sending(o)' <=> Sending(o)
  BY <1>1, <1>2, <1>3, Kinds, SendingStep DEF NoRole, Moves, Calls
<1>17. \A p \in made : Holders(p)' = Holders(p)
  BY <1>1, <1>12, <1>13, <1>14, <1>15, <1>16 DEF Holders, B2N
<1>18. RefInv'
  BY <1>1, <1>4, <1>17, Kinds, RefKept DEF IInv, RefInv, Moves, Calls
<1>19. UnlockedUse' /\ StrayOK'
  BY <1>1 DEF UnlockedUse, StrayOK
<1>20. Values'
  BY <1>1, <1>2, <1>3, <1>19, ValueStep, InHand, Kinds DEF IInv, Typing, Values, Moves, Calls
<1>21. PointerIsLive'
  BY <1>1, <1>19, <1>20, <1>18, PointerStep DEF IInv
<1> QED
  BY <1>5, <1>6, <1>7, <1>8, <1>9, <1>10, <1>11, <1>18, <1>19, <1>20, <1>21 DEF IKept

LEMMA CheckKeeps ==
  ASSUME IInv, NEW t \in Timers, Check(t)
  PROVE  IKept
<1>1. /\ stray = {} /\ pc[t] = "check" /\ t \in Threads /\ Others(t)
      /\ Moves(t, IF reconnect THEN "connect" ELSE "idle")
      /\ UNCHANGED <<kind, ptr, reconnect, use, readers, writers, made, open, refs,
           deleted, io, timers, noSocket, leaked, shutdown, stray>>
  BY Kinds, CheckEffect DEF IInv, Moves, Calls
<1>2. Placed(t) /\ x[t] \in made \cup {None} /\ old[t] \in made \cup {None}
  BY <1>1 DEF IInv, PlaceInv, Typing, Locals
<1>3. /\ Carries(t) /\ (Carries(t)' <=> reconnect) /\ ~Shut(t) /\ ~Shut(t)'
      /\ ~Making(t) /\ ~Making(t)' /\ ~Fresh(t) /\ ~Fresh(t)' /\ ~Unread(t)
      /\ ~Unread(t)' /\ ~Apart(t) /\ ~Apart(t)' /\ ~Dropping(t) /\ ~Dropping(t)'
      /\ ~Locked(t) /\ ~Locked(t)' /\ ~Initializes(t) /\ ~Initializes(t)'
      /\ ~FailsToRead(t) /\ ~FailsToRead(t)'
  BY <1>1, <1>2, Kinds
     DEF Placed, Places, ClosingPCs, CloserRets, Makers, NoRole, Carries, Shut, Making, Fresh,
         Unread, Apart, Dropping, Locked, Initializes, FailsToRead, Moves, Calls
<1>4. \A u \in Threads : u # t =>
        /\ pc'[u] = pc[u] /\ x'[u] = x[u] /\ old'[u] = old[u] /\ ret'[u] = ret[u]
        /\ (Carries(u)' <=> Carries(u)) /\ (Shut(u)' <=> Shut(u)) /\ (Making(u)' <=> Making(u))
        /\ (Fresh(u)' <=> Fresh(u)) /\ (Unread(u)' <=> Unread(u)) /\ (Apart(u)' <=> Apart(u))
        /\ (Dropping(u)' <=> Dropping(u)) /\ (Locked(u)' <=> Locked(u))
        /\ (Initializes(u)' <=> Initializes(u)) /\ (FailsToRead(u)' <=> FailsToRead(u))
  BY <1>1, OthersKeep
<1>5. PlaceInv'
  <2>1. Placed(t)'
    BY <1>1, <1>2, Kinds, NoneApart
       DEF IInv, Typing, Values, Placed, Places, ClosingPCs, CloserRets, Moves, Calls
  <2>2. MainInv'
    BY <1>1, <1>2, <1>4, Kinds
       DEF IInv, Typing, Values, PlaceInv, MainInv, Placed, Places, CloserRets, ClosingPCs,
           Moves, Calls
  <2> QED
    BY <1>1, <2>1, <2>2, PlaceStep
<1>6. ChainInv'
  BY <1>1, <1>2, <1>3, Kinds, ChainStep
     DEF NoRole, Moves, Calls, ChainInv, ReconnectSet, IInv, Typing, Values, Carries
<1>7. LockInv'
  BY <1>1, <1>2, <1>3, Kinds, LockStep DEF NoRole, Moves, Calls, IInv, Reads
<1>8. PtrInv'
  BY <1>1, <1>2, <1>3, Kinds, PtrStep DEF NoRole, Moves, Calls
<1>9. OwnInv'
  BY <1>1, <1>2, <1>3, Kinds, OwnStep DEF NoRole, Moves, Calls
<1>10. ReadInv'
  BY <1>1, <1>2, <1>3, Kinds, ReadStep DEF NoRole, Moves, Calls
<1>11. RoleInv'
  BY <1>1, <1>2, <1>3, Kinds, RoleStep DEF NoRole, Moves, Calls
<1>12. \A o : Wanted(o)' <=> Wanted(o)
  BY <1>1, <1>2, <1>3, Kinds, WantedStep DEF NoRole, Moves, Calls
<1>13. \A o : Closed(o)' <=> Closed(o)
  BY <1>1, <1>2, <1>3, Kinds, ClosedStep DEF NoRole, Moves, Calls
<1>14. \A o : Initial(o)' <=> Initial(o)
  BY <1>1, <1>2, <1>3, Kinds, InitialStep DEF NoRole, Moves, Calls
<1>15. \A o : ReadBy(o)' <=> ReadBy(o)
  BY <1>1, <1>2, <1>3, Kinds, ReadByStep DEF NoRole, Moves, Calls
<1>16. \A o : Sending(o)' <=> Sending(o)
  BY <1>1, <1>2, <1>3, Kinds, SendingStep DEF NoRole, Moves, Calls
<1>17. \A p \in made : Holders(p)' = Holders(p)
  BY <1>1, <1>12, <1>13, <1>14, <1>15, <1>16 DEF Holders, B2N
<1>18. RefInv'
  BY <1>1, <1>4, <1>17, Kinds, RefKept DEF IInv, RefInv, Moves, Calls
<1>19. UnlockedUse' /\ StrayOK'
  BY <1>1 DEF UnlockedUse, StrayOK
<1>20. Values'
  BY <1>1, <1>2, <1>3, <1>19, ValueStep, InHand, Kinds DEF IInv, Typing, Values, Moves, Calls
<1>21. PointerIsLive'
  BY <1>1, <1>19, <1>20, <1>18, PointerStep DEF IInv
<1> QED
  BY <1>5, <1>6, <1>7, <1>8, <1>9, <1>10, <1>11, <1>18, <1>19, <1>20, <1>21 DEF IKept

LEMMA ConnectKeeps ==
  ASSUME IInv, NEW t \in Timers, Connect(t)
  PROVE  IKept
<1>1. /\ stray = {} /\ pc[t] = "connect" /\ t \in Threads /\ Others(t)
      /\ \E o \in Socks : Makes(t, o)
      /\ \/ pc'[t] = "wlock" /\ ret'[t] = ret[t]
         \/ pc'[t] = "exchange" /\ ret'[t] = "fail"
      /\ UNCHANGED <<kind, ptr, use, readers, writers, deleted, io, timers, leaked, shutdown, stray>>
  BY Kinds, ConnectEffect DEF IInv, Moves, Calls, Makes
<1>2. Placed(t) /\ x[t] \in made \cup {None} /\ old[t] \in made \cup {None}
  BY <1>1 DEF IInv, PlaceInv, Typing, Locals
<1>3. /\ Carries(t) /\ ~Carries(t)' /\ ~Making(t) /\ Making(t)' /\ ~Fresh(t)
      /\ (Fresh(t)' <=> pc'[t] = "wlock") /\ ~Unread(t)
      /\ (Unread(t)' <=> pc'[t] = "wlock") /\ ~Apart(t) /\ Apart(t)' /\ ~Shut(t)
      /\ ~Shut(t)' /\ ~Dropping(t) /\ ~Dropping(t)' /\ ~Locked(t) /\ ~Locked(t)'
      /\ ~Initializes(t) /\ ~Initializes(t)' /\ ~FailsToRead(t) /\ ~FailsToRead(t)'
  BY <1>1, <1>2, Kinds
     DEF Placed, Places, ClosingPCs, CloserRets, Makers, NoRole, Carries, Shut, Making, Fresh,
         Unread, Apart, Dropping, Locked, Initializes, FailsToRead, Moves, Calls, Makes
<1>4. \A u \in Threads : u # t =>
        /\ pc'[u] = pc[u] /\ x'[u] = x[u] /\ old'[u] = old[u] /\ ret'[u] = ret[u]
        /\ (Carries(u)' <=> Carries(u)) /\ (Shut(u)' <=> Shut(u)) /\ (Making(u)' <=> Making(u))
        /\ (Fresh(u)' <=> Fresh(u)) /\ (Unread(u)' <=> Unread(u)) /\ (Apart(u)' <=> Apart(u))
        /\ (Dropping(u)' <=> Dropping(u)) /\ (Locked(u)' <=> Locked(u))
        /\ (Initializes(u)' <=> Initializes(u)) /\ (FailsToRead(u)' <=> FailsToRead(u))
  BY <1>1, OthersKeep
<1>5. PICK o \in Socks : Makes(t, o)
  BY <1>1
<1>6. /\ \A u \in Threads : x[u] # o /\ old[u] # o
      /\ o \notin open /\ o \notin timers /\ o \notin io /\ o \notin leaked /\ o \notin deleted
      /\ o # ptr /\ o # None /\ o \notin made
  BY <1>5, NewObject DEF Makes
<1>7. /\ open = {} /\ timers = {} /\ ~noSocket
      /\ \A u \in Threads : u # t => ~Carries(u)
  BY <1>1, <1>3 DEF IInv, ChainInv, OneCarrier, ChainGoesOn
<1>8. ptr # None
  BY <1>1, <1>2, Kinds DEF Placed, IInv, Typing, Values
<1>9. PlaceInv'
  <2>1. Placed(t)'
    BY <1>1, <1>2, Kinds, NoneApart
       DEF IInv, Typing, Values, Placed, Places, ClosingPCs, CloserRets, Moves, Calls, Makes
  <2>2. MainInv'
    BY <1>1, <1>2, <1>4, Kinds, LatestFacts
       DEF IInv, Typing, Values, PlaceInv, MainInv, Placed, Places, CloserRets, ClosingPCs,
           Moves, Calls, Makes
  <2> QED
    BY <1>1, <2>1, <2>2, PlaceStep
<1>10. ChainInv'
  <2>1. AtLatest'
    BY <1>1, <1>2, <1>3, <1>4, Kinds, <1>5, <1>6, <1>7 DEF IInv, ChainInv, AtLatest, Makes
  <2>2. OneCarrier'
    BY <1>1, <1>2, <1>3, <1>4, Kinds, <1>5, <1>6, <1>7 DEF IInv, ChainInv, OneCarrier, Makes
  <2>3. ChainGoesOn'
    BY <1>1, <1>2, <1>3, <1>4, Kinds, <1>5, <1>6, <1>7 DEF IInv, ChainInv, ChainGoesOn, Makes
  <2>4. ReconnectSet'
    BY <1>1, <1>2, <1>3, <1>4, Kinds, <1>5, <1>6, <1>7 DEF IInv, ChainInv, ReconnectSet, Makes
  <2> QED
    BY <2>1, <2>2, <2>3, <2>4 DEF ChainInv
<1>11. LockInv'
  BY <1>1, <1>2, <1>3, Kinds, LockStep DEF NoRole, Moves, Calls, Makes, IInv, Reads
<1>12. PtrInv'
  BY <1>1, <1>2, <1>3, Kinds, PtrStep DEF NoRole, Moves, Calls, Makes
<1>13. OwnInv'
  <2>1. OneMaker'
    BY <1>1, <1>2, <1>3, <1>4, Kinds, <1>5, <1>6, <1>7 DEF IInv, OwnInv, OneMaker, Fresh, Makes
  <2>2. FreshOpen'
    BY <1>1, <1>2, <1>3, <1>4, Kinds, <1>5, <1>6, <1>7 DEF IInv, OwnInv, FreshOpen, Fresh, Makes
  <2>3. FreshAlone'
    BY <1>1, <1>2, <1>3, <1>4, Kinds, <1>5, <1>6, <1>7 DEF IInv, OwnInv, FreshAlone, Fresh, Makes
  <2>4. OneCloser'
    BY <1>1, <1>2, <1>3, <1>4, Kinds, <1>5, <1>6, <1>7 DEF IInv, OwnInv, OneCloser, Fresh, Makes
  <2>5. ShutClosed'
    BY <1>1, <1>2, <1>3, <1>4, Kinds, <1>5, <1>6, <1>7 DEF IInv, OwnInv, ShutClosed, Fresh, Makes
  <2> QED
    BY <2>1, <2>2, <2>3, <2>4, <2>5 DEF OwnInv
<1>14. ReadInv'
  <2>1. UnreadInv'
    BY <1>1, <1>2, <1>3, <1>4, Kinds, <1>5, <1>6, <1>7 DEF IInv, ReadInv, UnreadInv, Makes
  <2>2. WorkerInv'
    BY <1>1, <1>2, <1>3, <1>4, Kinds, <1>5, <1>6, <1>7 DEF IInv, ReadInv, WorkerInv, Makes
  <2>3. NotLeaked'
    BY <1>1, <1>2, <1>3, <1>4, Kinds, <1>5, <1>6, <1>7 DEF IInv, ReadInv, NotLeaked, Makes
  <2> QED
    BY <2>1, <2>2, <2>3 DEF ReadInv
<1>15. RoleInv'
  <2>1. ApartInv'
    BY <1>1, <1>2, <1>3, <1>4, Kinds, <1>5, <1>6, <1>7
       DEF IInv, RoleInv, ApartInv, Typing, Values, Makes
  <2>2. DropInv'
    BY <1>1, <1>2, <1>3, <1>4, Kinds, <1>5, <1>6, <1>7
       DEF IInv, RoleInv, DropInv, Typing, Values, Makes
  <2>3. OneDropper'
    BY <1>1, <1>2, <1>3, <1>4, Kinds, <1>5, <1>6, <1>7
       DEF IInv, RoleInv, OneDropper, Typing, Values, Makes
  <2>4. ApartDropped'
    BY <1>1, <1>2, <1>3, <1>4, Kinds, <1>5, <1>6, <1>7
       DEF IInv, RoleInv, ApartDropped, Typing, Values, Makes
  <2> QED
    BY <2>1, <2>2, <2>3, <2>4 DEF RoleInv
<1>16. Values' /\ RefInv' /\ PointerIsLive' /\ UnlockedUse'
  <2>1. Holders(o)' = 1
    <3>1. Wanted(o)'
      BY <1>1, <1>3, <1>4, <1>5, <1>6, Kinds DEF Wanted, Makes
    <3>2. ~Closed(o)' /\ ~Initial(o)' /\ ~Sending(o)'
      BY <1>1, <1>3, <1>4, <1>5, <1>6, Kinds DEF Closed, Initial, Sending, Makes
    <3>3. ~ReadBy(o)' /\ o \notin leaked'
      BY <1>1, <1>3, <1>4, <1>5, <1>6, Kinds DEF ReadBy, Makes
    <3> QED
      BY <3>1, <3>2, <3>3 DEF Holders, B2N
  <2>2. \A p \in made : Holders(p)' = Holders(p)
    <3> SUFFICES ASSUME NEW p \in made PROVE Holders(p)' = Holders(p)
      OBVIOUS
    <3>1. Wanted(p)' <=> Wanted(p)
      BY <1>1, <1>3, <1>4, <1>5, <1>6, Kinds DEF Wanted, Makes
    <3>2. (Closed(p)' <=> Closed(p)) /\ (Initial(p)' <=> Initial(p)) /\ (Sending(p)' <=> Sending(p))
      BY <1>1, <1>3, <1>4, <1>5, <1>6, Kinds DEF Closed, Initial, Sending, Makes
    <3>3. ReadBy(p)' <=> ReadBy(p)
      BY <1>1, <1>3, <1>4, <1>5, <1>6, Kinds DEF ReadBy, Makes
    <3> QED
      BY <1>1, <3>1, <3>2, <3>3 DEF Holders, B2N
  <2>3. Values'
    <3>1. Latest' = o /\ o = Latest + 1 /\ o \in Socks /\ made' = made \cup {o}
      BY <1>5 DEF Makes
    <3>2. made' = 0..Latest'
      BY <3>1, LatestFacts DEF IInv, Typing, Values
    <3>3. refs' \in [Socks -> Nat] /\ open' \subseteq made'
      BY <1>5, <3>1 DEF IInv, Typing, Values, Makes
    <3>4. reconnect' \in BOOLEAN /\ noSocket' \in BOOLEAN
      BY <1>5 DEF IInv, Typing, Values, Makes
    <3>5. StrayOK'
      BY <1>1 DEF StrayOK
    <3> QED
      BY <1>1, <1>5, <1>6, <1>8, <3>1, <3>2, <3>3, <3>4, <3>5 DEF IInv, Typing, Values
  <2>4. RefInv'
    <3>1. refs \in [Socks -> Nat] /\ made \subseteq Socks
      BY DEF IInv, Typing, Values
    <3>2. made' = made \cup {o} /\ refs'[o] = 1 /\ \A p \in made : refs'[p] = refs[p]
      BY <1>5, <1>6, <3>1 DEF Makes
    <3>3. pc'[Listener] # "idle" => shutdown'
      BY <1>1, <1>4, Kinds DEF IInv, RefInv
    <3> QED
      BY <1>1, <1>6, <2>1, <2>2, <3>1, <3>2, <3>3 DEF IInv, RefInv
  <2>5. UnlockedUse'
    BY <1>1 DEF UnlockedUse
  <2> QED
    BY <1>1, <2>3, <2>4, <2>5, PointerStep DEF IInv
<1> QED
  BY <1>9, <1>10, <1>11, <1>12, <1>13, <1>14, <1>15, <1>16 DEF IKept

LEMMA ReleaseFailedKeeps ==
  ASSUME IInv, NEW t \in Timers, ReleaseFailed(t)
  PROVE  IKept
<1>1. /\ stray = {} /\ pc[t] = "fail" /\ t \in Threads /\ Others(t)
      /\ Moves(t, "idle") /\ ReleaseRef(t, x[t])
      /\ UNCHANGED <<kind, ptr, reconnect, use, readers, writers, made, open, io,
           timers, noSocket, leaked, shutdown>>
  BY Kinds, ReleaseFailedEffect DEF IInv, Moves, Calls
<1>2. Placed(t) /\ x[t] \in made \cup {None} /\ old[t] \in made \cup {None}
  BY <1>1 DEF IInv, PlaceInv, Typing, Locals
<1>3. /\ Making(t) /\ ~Making(t)' /\ Apart(t) /\ ~Apart(t)' /\ ~Carries(t)
      /\ ~Carries(t)' /\ ~Shut(t) /\ ~Shut(t)' /\ ~Fresh(t) /\ ~Fresh(t)' /\ ~Unread(t)
      /\ ~Unread(t)' /\ ~Dropping(t) /\ ~Dropping(t)' /\ ~Locked(t) /\ ~Locked(t)'
      /\ ~Initializes(t) /\ ~Initializes(t)' /\ ~FailsToRead(t) /\ ~FailsToRead(t)'
  BY <1>1, <1>2, Kinds
     DEF Placed, Places, ClosingPCs, CloserRets, Makers, NoRole, Carries, Shut, Making, Fresh,
         Unread, Apart, Dropping, Locked, Initializes, FailsToRead, Moves, Calls
<1>4. \A u \in Threads : u # t =>
        /\ pc'[u] = pc[u] /\ x'[u] = x[u] /\ old'[u] = old[u] /\ ret'[u] = ret[u]
        /\ (Carries(u)' <=> Carries(u)) /\ (Shut(u)' <=> Shut(u)) /\ (Making(u)' <=> Making(u))
        /\ (Fresh(u)' <=> Fresh(u)) /\ (Unread(u)' <=> Unread(u)) /\ (Apart(u)' <=> Apart(u))
        /\ (Dropping(u)' <=> Dropping(u)) /\ (Locked(u)' <=> Locked(u))
        /\ (Initializes(u)' <=> Initializes(u)) /\ (FailsToRead(u)' <=> FailsToRead(u))
  BY <1>1, OthersKeep
<1>5. PlaceInv'
  <2>1. Placed(t)'
    BY <1>1, <1>2, Kinds, NoneApart
       DEF IInv, Typing, Values, Placed, Places, ClosingPCs, CloserRets, Moves, Calls
  <2>2. MainInv'
    BY <1>1, <1>2, <1>4, Kinds
       DEF IInv, Typing, Values, PlaceInv, MainInv, Placed, Places, CloserRets, ClosingPCs,
           Moves, Calls
  <2> QED
    BY <1>1, <2>1, <2>2, PlaceStep
<1>6. ChainInv'
  BY <1>1, <1>2, <1>3, Kinds, ChainStep DEF NoRole, Moves, Calls, IInv, Typing, Values, Carries
<1>7. LockInv'
  BY <1>1, <1>2, <1>3, Kinds, LockStep DEF NoRole, Moves, Calls, IInv, Reads
<1>8. PtrInv'
  BY <1>1, <1>2, <1>3, Kinds, PtrStep DEF NoRole, Moves, Calls
<1>9. OwnInv'
  BY <1>1, <1>2, <1>3, Kinds, OwnStep DEF NoRole, Moves, Calls
<1>10. ReadInv'
  BY <1>1, <1>2, <1>3, Kinds, ReadStep DEF NoRole, Moves, Calls
<1>11. RoleInv'
  BY <1>1, <1>2, <1>3, Kinds, RoleStep DEF NoRole, Moves, Calls
<1>12. /\ \A o : Wanted(o)' <=> Wanted(o) /\ o # x[t]
       /\ Wanted(x[t])
  BY <1>1, <1>2, <1>3, <1>4, InHand, RolesMake, Kinds
     DEF IInv, Wanted, RoleInv, ApartInv, ApartDropped, Moves, Calls
<1>13. \A o : Closed(o)' <=> Closed(o)
  BY <1>1, <1>2, <1>3, Kinds, ClosedStep DEF NoRole, Moves, Calls
<1>14. \A o : Initial(o)' <=> Initial(o)
  BY <1>1, <1>2, <1>3, Kinds, InitialStep DEF NoRole, Moves, Calls
<1>15. \A o : ReadBy(o)' <=> ReadBy(o)
  BY <1>1, <1>2, <1>3, Kinds, ReadByStep DEF NoRole, Moves, Calls
<1>16. \A o : Sending(o)' <=> Sending(o)
  BY <1>1, <1>2, <1>3, Kinds, SendingStep DEF NoRole, Moves, Calls
<1>17. \A p \in made : Holders(p)' = Holders(p) - (IF p = x[t] THEN 1 ELSE 0)
  BY <1>1, <1>12, <1>13, <1>14, <1>15, <1>16 DEF Holders, B2N
<1>18. pc'[Listener] # "idle" => pc[Listener] # "idle"
  BY <1>1, <1>4, Kinds
<1>19. RefInv'
  <2>1. \A p \in made : Holders(p)' >= Holders(p) - (IF p = x[t] THEN 1 ELSE 0)
    BY <1>17, HoldersNat
  <2> QED
    BY <1>1, <1>2, <1>17, <1>18, <2>1, RefGiven
<1>20. x[t] # None /\ Holders(x[t]) > 0
  BY <1>1, <1>2, <1>12, Kinds, HoldersPositive, NoneApart
     DEF IInv, Placed, Places, ClosingPCs, RoleInv, DropInv
<1>21. /\ UnlockedUse' /\ StrayOK'
       /\ stray' = {} \/ UNCHANGED deleted
  BY <1>1, <1>2, <1>20, NoStray
<1>22. Values'
  <2>1. refs' \in [Socks -> Nat] /\ deleted' \subseteq made
    BY <1>1, <1>2, RefTypes DEF IInv, RefInv
  <2> QED
    BY <1>1, <1>2, <1>20, <1>21, <2>1, ValueStep DEF IInv, Typing, Values, Placed
<1>23. PointerIsLive'
  BY <1>1, <1>21, <1>22, <1>19, PointerStep DEF IInv
<1> QED
  BY <1>5, <1>6, <1>7, <1>8, <1>9, <1>10, <1>11, <1>19, <1>21, <1>22, <1>23 DEF IKept

LEMMA WriteLockKeeps ==
  ASSUME IInv, NEW t \in Timers, WriteLock(t)
  PROVE  IKept
<1>1. /\ stray = {} /\ pc[t] = "wlock" /\ t \in Threads /\ Others(t)
      /\ Moves(t, "swap")
      /\ readers = {} /\ readers' = {} /\ writers = {} /\ writers' = {t}
      /\ UNCHANGED <<kind, ptr, reconnect, use, made, open, refs, deleted, io,
           timers, noSocket, leaked, shutdown, stray>>
  BY Kinds, WriteLockEffect DEF IInv, Moves, Calls
<1>2. Placed(t) /\ x[t] \in made \cup {None} /\ old[t] \in made \cup {None}
  BY <1>1 DEF IInv, PlaceInv, Typing, Locals
<1>3. /\ Making(t) /\ Making(t)' /\ Fresh(t) /\ Fresh(t)' /\ Unread(t) /\ Unread(t)'
      /\ Apart(t) /\ Apart(t)' /\ ~Locked(t) /\ Locked(t)' /\ ~Carries(t)
      /\ ~Carries(t)' /\ ~Shut(t) /\ ~Shut(t)' /\ ~Dropping(t) /\ ~Dropping(t)'
      /\ ~Initializes(t) /\ ~Initializes(t)' /\ ~FailsToRead(t) /\ ~FailsToRead(t)'
  BY <1>1, <1>2, Kinds
     DEF Placed, Places, ClosingPCs, CloserRets, Makers, NoRole, Carries, Shut, Making, Fresh,
         Unread, Apart, Dropping, Locked, Initializes, FailsToRead, Moves, Calls
<1>4. \A u \in Threads : u # t =>
        /\ pc'[u] = pc[u] /\ x'[u] = x[u] /\ old'[u] = old[u] /\ ret'[u] = ret[u]
        /\ (Carries(u)' <=> Carries(u)) /\ (Shut(u)' <=> Shut(u)) /\ (Making(u)' <=> Making(u))
        /\ (Fresh(u)' <=> Fresh(u)) /\ (Unread(u)' <=> Unread(u)) /\ (Apart(u)' <=> Apart(u))
        /\ (Dropping(u)' <=> Dropping(u)) /\ (Locked(u)' <=> Locked(u))
        /\ (Initializes(u)' <=> Initializes(u)) /\ (FailsToRead(u)' <=> FailsToRead(u))
  BY <1>1, OthersKeep
<1>5. PlaceInv'
  <2>1. Placed(t)'
    BY <1>1, <1>2, Kinds, NoneApart
       DEF IInv, Typing, Values, Placed, Places, ClosingPCs, CloserRets, Moves, Calls
  <2>2. MainInv'
    BY <1>1, <1>2, <1>4, Kinds
       DEF IInv, Typing, Values, PlaceInv, MainInv, Placed, Places, CloserRets, ClosingPCs,
           Moves, Calls
  <2> QED
    BY <1>1, <2>1, <2>2, PlaceStep
<1>6. ChainInv'
  BY <1>1, <1>2, <1>3, Kinds, ChainStep DEF NoRole, Moves, Calls, IInv, Typing, Values, Carries
<1>7. LockInv'
  BY <1>1, <1>2, <1>3, <1>4, Kinds DEF IInv, LockInv, Moves, Calls, NoRole
<1>8. PtrInv'
  BY <1>1, <1>2, <1>3, Kinds, PtrStep DEF NoRole, Moves, Calls
<1>9. OwnInv'
  BY <1>1, <1>2, <1>3, Kinds, OwnStep DEF NoRole, Moves, Calls
<1>10. ReadInv'
  BY <1>1, <1>2, <1>3, Kinds, ReadStep DEF NoRole, Moves, Calls
<1>11. RoleInv'
  BY <1>1, <1>2, <1>3, Kinds, RoleStep DEF NoRole, Moves, Calls
<1>12. \A o : Wanted(o)' <=> Wanted(o)
  BY <1>1, <1>2, <1>3, Kinds, WantedStep DEF NoRole, Moves, Calls
<1>13. \A o : Closed(o)' <=> Closed(o)
  BY <1>1, <1>2, <1>3, Kinds, ClosedStep DEF NoRole, Moves, Calls
<1>14. \A o : Initial(o)' <=> Initial(o)
  BY <1>1, <1>2, <1>3, Kinds, InitialStep DEF NoRole, Moves, Calls
<1>15. \A o : ReadBy(o)' <=> ReadBy(o)
  BY <1>1, <1>2, <1>3, Kinds, ReadByStep DEF NoRole, Moves, Calls
<1>16. \A o : Sending(o)' <=> Sending(o)
  BY <1>1, <1>2, <1>3, Kinds, SendingStep DEF NoRole, Moves, Calls
<1>17. \A p \in made : Holders(p)' = Holders(p)
  BY <1>1, <1>12, <1>13, <1>14, <1>15, <1>16 DEF Holders, B2N
<1>18. RefInv'
  BY <1>1, <1>4, <1>17, Kinds, RefKept DEF IInv, RefInv, Moves, Calls
<1>19. UnlockedUse' /\ StrayOK'
  BY <1>1 DEF UnlockedUse, StrayOK
<1>20. Values'
  BY <1>1, <1>2, <1>3, <1>19, ValueStep, InHand, Kinds DEF IInv, Typing, Values, Moves, Calls
<1>21. PointerIsLive'
  BY <1>1, <1>19, <1>20, <1>18, PointerStep DEF IInv
<1> QED
  BY <1>5, <1>6, <1>7, <1>8, <1>9, <1>10, <1>11, <1>18, <1>19, <1>20, <1>21 DEF IKept

LEMMA SwapKeeps ==
  ASSUME IInv, NEW t \in Timers, Swap(t)
  PROVE  IKept
<1>1. /\ stray = {} /\ pc[t] = "swap" /\ t \in Threads /\ Others(t)
      /\ Others(t) /\ pc'[t] = (IF kind = "wanted" THEN "drop" ELSE "flags")
      /\ x'[t] = x[t] /\ ret'[t] = ret[t] /\ old'[t] = ptr /\ ptr' = x[t]
      /\ UNCHANGED <<kind, reconnect, use, readers, writers, made, open, refs,
           deleted, io, timers, noSocket, leaked, shutdown, stray>>
  BY Kinds, SwapEffect DEF IInv, Moves, Calls
<1>2. Placed(t) /\ x[t] \in made \cup {None} /\ old[t] \in made \cup {None}
  BY <1>1 DEF IInv, PlaceInv, Typing, Locals
<1>3. /\ Making(t) /\ Making(t)' /\ Fresh(t) /\ Fresh(t)' /\ Unread(t) /\ Unread(t)'
      /\ Apart(t) /\ ~Apart(t)' /\ ~Dropping(t) /\ Dropping(t)' /\ Locked(t)
      /\ Locked(t)' /\ ~Carries(t) /\ ~Carries(t)' /\ ~Shut(t) /\ ~Shut(t)'
      /\ ~Initializes(t) /\ ~Initializes(t)' /\ ~FailsToRead(t) /\ ~FailsToRead(t)'
  BY <1>1, <1>2, Kinds
     DEF Placed, Places, ClosingPCs, CloserRets, Makers, NoRole, Carries, Shut, Making, Fresh,
         Unread, Apart, Dropping, Locked, Initializes, FailsToRead, Moves, Calls
<1>4. \A u \in Threads : u # t =>
        /\ pc'[u] = pc[u] /\ x'[u] = x[u] /\ old'[u] = old[u] /\ ret'[u] = ret[u]
        /\ (Carries(u)' <=> Carries(u)) /\ (Shut(u)' <=> Shut(u)) /\ (Making(u)' <=> Making(u))
        /\ (Fresh(u)' <=> Fresh(u)) /\ (Unread(u)' <=> Unread(u)) /\ (Apart(u)' <=> Apart(u))
        /\ (Dropping(u)' <=> Dropping(u)) /\ (Locked(u)' <=> Locked(u))
        /\ (Initializes(u)' <=> Initializes(u)) /\ (FailsToRead(u)' <=> FailsToRead(u))
  BY <1>1, OthersKeep
<1>5. t \in Makers /\ x[t] \in made /\ ptr \in made /\ x[t] # ptr
  BY <1>1, <1>3, Kinds, InHand DEF IInv, Typing, Values, RoleInv, ApartInv
<1>6. PlaceInv'
  <2>1. Placed(t)'
    BY <1>1, <1>2, Kinds, NoneApart
       DEF IInv, Typing, Values, Placed, Places, ClosingPCs, CloserRets, Moves, Calls
  <2>2. MainInv'
    BY <1>1, <1>2, <1>4, Kinds
       DEF IInv, Typing, Values, PlaceInv, MainInv, Placed, Places, CloserRets, ClosingPCs,
           Moves, Calls
  <2> QED
    BY <1>1, <2>1, <2>2, PlaceStep
<1>7. ChainInv'
  BY <1>1, <1>2, <1>3, Kinds, ChainStep DEF NoRole, Moves, Calls, IInv, Typing, Values, Carries
<1>8. LockInv'
  BY <1>1, <1>2, <1>3, Kinds, LockStep DEF NoRole, Moves, Calls, IInv, Reads
<1>9. PtrInv'
  <2>1. t \in writers /\ readers = {}
    BY <1>1, <1>3 DEF IInv, LockInv
  <2>2. \A u \in Threads : u # t => ~Locked(u) /\ ~(u = Listener /\ pc[u] # "idle")
    BY <2>1 DEF IInv, LockInv
  <2>3. ~(kind # "wanted" /\ pc[User] \in {"send", "sent"})
    BY <2>1 DEF IInv, LockInv
  <2> QED
    BY <1>1, <1>4, <2>2, <2>3, Kinds DEF PtrInv
<1>10. OwnInv'
  BY <1>1, <1>2, <1>3, Kinds, OwnStep DEF NoRole, Moves, Calls
<1>11. ReadInv'
  BY <1>1, <1>2, <1>3, Kinds, ReadStep DEF NoRole, Moves, Calls
<1>12. RoleInv'
  <2>1. ApartInv'
    BY <1>1, <1>2, <1>3, <1>4, Kinds, InHand, RolesMake
       DEF IInv, RoleInv, ApartInv, ApartInv, DropInv, ApartDropped, Moves, Calls
  <2>2. DropInv'
    BY <1>1, <1>2, <1>3, <1>4, Kinds, <1>5
       DEF IInv, RoleInv, DropInv, ApartInv, ApartDropped, Moves, Calls
  <2>3. OneDropper'
    BY <1>1, <1>2, <1>3, <1>4, Kinds, InHand, RolesMake
       DEF IInv, RoleInv, OneDropper, ApartInv, DropInv, ApartDropped, Moves, Calls
  <2>4. ApartDropped'
    BY <1>1, <1>2, <1>3, <1>4, Kinds, InHand, RolesMake
       DEF IInv, RoleInv, ApartDropped, ApartInv, DropInv, ApartDropped, Moves, Calls
  <2> QED
    BY <2>1, <2>2, <2>3, <2>4 DEF RoleInv
<1>13. \A o : Wanted(o)' <=> Wanted(o)
  <2>1. \A o : (\E u \in Timers : Apart(u)' /\ x'[u] = o) <=> (\E u \in Timers : u # t /\ Apart(u) /\ x[u] = o)
    BY <1>1, <1>3, <1>4, Kinds
  <2>2. \A o : (\E u \in Timers : Dropping(u)' /\ old'[u] = o)
               <=> (\E u \in Timers : Dropping(u) /\ old[u] = o) \/ o = ptr
    BY <1>1, <1>3, <1>4, Kinds
  <2> QED
    BY <1>1, <1>3, <2>1, <2>2 DEF Wanted
<1>14. \A o : Closed(o)' <=> Closed(o)
  BY <1>1, <1>2, <1>3, Kinds, ClosedStep DEF NoRole, Moves, Calls
<1>15. \A o : Initial(o)' <=> Initial(o)
  BY <1>1, <1>2, <1>3, Kinds, InitialStep DEF NoRole, Moves, Calls
<1>16. \A o : ReadBy(o)' <=> ReadBy(o)
  BY <1>1, <1>2, <1>3, Kinds, ReadByStep DEF NoRole, Moves, Calls
<1>17. \A o : Sending(o)' <=> Sending(o)
  BY <1>1, <1>2, <1>3, Kinds, SendingStep DEF NoRole, Moves, Calls
<1>18. \A p \in made : Holders(p)' = Holders(p)
  BY <1>1, <1>13, <1>14, <1>15, <1>16, <1>17 DEF Holders, B2N
<1>19. RefInv'
  BY <1>1, <1>4, <1>18, Kinds, RefKept DEF IInv, RefInv, Moves, Calls
<1>20. UnlockedUse' /\ StrayOK'
  BY <1>1 DEF UnlockedUse, StrayOK
<1>21. Values'
  BY <1>1, <1>2, <1>3, <1>20, ValueStep, InHand, Kinds DEF IInv, Typing, Values, Moves, Calls
<1>22. PointerIsLive'
  BY <1>1, <1>20, <1>21, <1>19, PointerStep DEF IInv
<1> QED
  BY <1>6, <1>7, <1>8, <1>9, <1>10, <1>11, <1>12, <1>19, <1>20, <1>21, <1>22 DEF IKept

LEMMA SetFlagsKeeps ==
  ASSUME IInv, NEW t \in Timers, SetFlags(t)
  PROVE  IKept
<1>1. /\ stray = {} /\ pc[t] = "flags" /\ t \in Threads /\ Others(t)
      /\ Moves(t, "init")
      /\ reconnect' = FALSE /\ use' = TRUE
      /\ UNCHANGED <<kind, ptr, readers, writers, made, open, refs, deleted, io,
           timers, noSocket, leaked, shutdown, stray>>
  BY Kinds, SetFlagsEffect DEF IInv, Moves, Calls
<1>2. Placed(t) /\ x[t] \in made \cup {None} /\ old[t] \in made \cup {None}
  BY <1>1 DEF IInv, PlaceInv, Typing, Locals
<1>3. /\ Making(t) /\ Making(t)' /\ Fresh(t) /\ Fresh(t)' /\ Unread(t) /\ Unread(t)'
      /\ (Dropping(t)' <=> Dropping(t)) /\ Locked(t) /\ Locked(t)' /\ ~Carries(t)
      /\ ~Carries(t)' /\ ~Shut(t) /\ ~Shut(t)' /\ ~Apart(t) /\ ~Apart(t)'
      /\ ~Initializes(t) /\ ~Initializes(t)' /\ ~FailsToRead(t) /\ ~FailsToRead(t)'
  BY <1>1, <1>2, Kinds
     DEF Placed, Places, ClosingPCs, CloserRets, Makers, NoRole, Carries, Shut, Making, Fresh,
         Unread, Apart, Dropping, Locked, Initializes, FailsToRead, Moves, Calls
<1>4. \A u \in Threads : u # t =>
        /\ pc'[u] = pc[u] /\ x'[u] = x[u] /\ old'[u] = old[u] /\ ret'[u] = ret[u]
        /\ (Carries(u)' <=> Carries(u)) /\ (Shut(u)' <=> Shut(u)) /\ (Making(u)' <=> Making(u))
        /\ (Fresh(u)' <=> Fresh(u)) /\ (Unread(u)' <=> Unread(u)) /\ (Apart(u)' <=> Apart(u))
        /\ (Dropping(u)' <=> Dropping(u)) /\ (Locked(u)' <=> Locked(u))
        /\ (Initializes(u)' <=> Initializes(u)) /\ (FailsToRead(u)' <=> FailsToRead(u))
  BY <1>1, OthersKeep
<1>5. PlaceInv'
  <2>1. Placed(t)'
    BY <1>1, <1>2, Kinds, NoneApart
       DEF IInv, Typing, Values, Placed, Places, ClosingPCs, CloserRets, Moves, Calls
  <2>2. MainInv'
    BY <1>1, <1>2, <1>4, Kinds
       DEF IInv, Typing, Values, PlaceInv, MainInv, Placed, Places, CloserRets, ClosingPCs,
           Moves, Calls
  <2> QED
    BY <1>1, <2>1, <2>2, PlaceStep
<1>6. ChainInv'
  <2>0. Latest' = Latest
    BY <1>1 DEF Latest
  <2>01. timers = {} /\ \A u \in Threads : ~Carries(u)
    BY <1>3, Kinds DEF IInv, OwnInv, FreshOpen, ChainInv, OneCarrier, Fresh, Makers
  <2>1. AtLatest'
    BY <1>1, <1>2, <1>3, <1>4, Kinds, <2>0, <2>01 DEF IInv, ChainInv, AtLatest, Moves, Calls
  <2>2. OneCarrier'
    BY <1>1, <1>2, <1>3, <1>4, Kinds, <2>0, <2>01 DEF IInv, ChainInv, OneCarrier, Moves, Calls
  <2>3. ChainGoesOn'
    BY <1>1, <1>2, <1>3, <1>4, Kinds, <2>0, <2>01 DEF IInv, ChainInv, ChainGoesOn, Moves, Calls
  <2>4. ReconnectSet'
    BY <1>1, <1>2, <1>3, <1>4, Kinds, <2>0, <2>01 DEF IInv, ChainInv, ReconnectSet, Moves, Calls
  <2> QED
    BY <2>1, <2>2, <2>3, <2>4 DEF ChainInv
<1>7. LockInv'
  BY <1>1, <1>2, <1>3, Kinds, LockStep DEF NoRole, Moves, Calls, IInv, Reads
<1>8. PtrInv'
  BY <1>1, <1>2, <1>3, Kinds, PtrStep DEF NoRole, Moves, Calls
<1>9. OwnInv'
  BY <1>1, <1>2, <1>3, Kinds, OwnStep DEF NoRole, Moves, Calls
<1>10. ReadInv'
  BY <1>1, <1>2, <1>3, Kinds, ReadStep DEF NoRole, Moves, Calls
<1>11. RoleInv'
  BY <1>1, <1>2, <1>3, Kinds, RoleStep DEF NoRole, Moves, Calls
<1>12. \A o : Wanted(o)' <=> Wanted(o)
  BY <1>1, <1>2, <1>3, Kinds, WantedStep DEF NoRole, Moves, Calls
<1>13. \A o : Closed(o)' <=> Closed(o)
  BY <1>1, <1>2, <1>3, Kinds, ClosedStep DEF NoRole, Moves, Calls
<1>14. \A o : Initial(o)' <=> Initial(o)
  BY <1>1, <1>2, <1>3, Kinds, InitialStep DEF NoRole, Moves, Calls
<1>15. \A o : ReadBy(o)' <=> ReadBy(o)
  BY <1>1, <1>2, <1>3, Kinds, ReadByStep DEF NoRole, Moves, Calls
<1>16. \A o : Sending(o)' <=> Sending(o)
  BY <1>1, <1>2, <1>3, Kinds, SendingStep DEF NoRole, Moves, Calls
<1>17. \A p \in made : Holders(p)' = Holders(p)
  BY <1>1, <1>12, <1>13, <1>14, <1>15, <1>16 DEF Holders, B2N
<1>18. RefInv'
  BY <1>1, <1>4, <1>17, Kinds, RefKept DEF IInv, RefInv, Moves, Calls
<1>19. UnlockedUse' /\ StrayOK'
  BY <1>1 DEF UnlockedUse, StrayOK
<1>20. Values'
  BY <1>1, <1>2, <1>3, <1>19, ValueStep, InHand, Kinds DEF IInv, Typing, Values, Moves, Calls
<1>21. PointerIsLive'
  BY <1>1, <1>19, <1>20, <1>18, PointerStep DEF IInv
<1> QED
  BY <1>5, <1>6, <1>7, <1>8, <1>9, <1>10, <1>11, <1>18, <1>19, <1>20, <1>21 DEF IKept

LEMMA ReleaseOldKeeps ==
  ASSUME IInv, NEW t \in Timers, ReleaseOld(t)
  PROVE  IKept
<1>1. /\ stray = {} /\ pc[t] = "drop" /\ t \in Threads /\ Others(t)
      /\ Moves(t, IF kind = "log" THEN "unlock" ELSE IF kind = "ip" THEN "idle" ELSE "flags")
      /\ ReleaseRef(t, old[t])
      /\ UNCHANGED <<kind, ptr, reconnect, use, readers, writers, made, open, io,
           timers, noSocket, leaked, shutdown>>
  BY Kinds, ReleaseOldEffect DEF IInv, Moves, Calls
<1>2. Placed(t) /\ x[t] \in made \cup {None} /\ old[t] \in made \cup {None}
  BY <1>1 DEF IInv, PlaceInv, Typing, Locals
<1>3. /\ Making(t) /\ (Making(t)' => Making(t)) /\ (Fresh(t)' <=> Fresh(t))
      /\ (Unread(t)' <=> Unread(t)) /\ Dropping(t) /\ ~Dropping(t)'
      /\ (Locked(t)' <=> Locked(t)) /\ ~Carries(t) /\ ~Carries(t)' /\ ~Shut(t)
      /\ ~Shut(t)' /\ ~Apart(t) /\ ~Apart(t)' /\ ~Initializes(t) /\ ~Initializes(t)'
      /\ ~FailsToRead(t) /\ ~FailsToRead(t)'
  <2>1. t \in Makers /\ (t = Main => ~(pc[t] \in {"drop", "unlock"}))
        /\ kind \in {"log", "ip", "wanted"}
    BY <1>1, <1>2, Kinds DEF IInv, Typing, Values, Placed, Places, ClosingPCs, Makers
  <2>2. ~Carries(t) /\ ~Carries(t)'
    BY <1>1, <2>1, Kinds DEF CloserRets, ClosingPCs, Makers, Carries, Moves
  <2>3. ~Shut(t) /\ ~Shut(t)'
    BY <1>1, <2>1, Kinds DEF CloserRets, ClosingPCs, Makers, Shut, Moves
  <2>4. Making(t) /\ (Making(t)' => Making(t))
    BY <1>1, <2>1, Kinds DEF CloserRets, ClosingPCs, Makers, Making, Moves
  <2>5. (Fresh(t)' <=> Fresh(t))
    BY <1>1, <2>1, Kinds DEF CloserRets, ClosingPCs, Makers, Fresh, Moves
  <2>6. (Unread(t)' <=> Unread(t))
    BY <1>1, <2>1, Kinds DEF CloserRets, ClosingPCs, Makers, Unread, Fresh, Moves
  <2>7. ~Apart(t) /\ ~Apart(t)'
    BY <1>1, <2>1, Kinds DEF CloserRets, ClosingPCs, Makers, Apart, Moves
  <2>8. Dropping(t) /\ ~Dropping(t)'
    BY <1>1, <2>1, Kinds DEF CloserRets, ClosingPCs, Makers, Dropping, Moves
  <2>9. (Locked(t)' <=> Locked(t))
    BY <1>1, <2>1, Kinds DEF CloserRets, ClosingPCs, Makers, Locked, Moves
  <2>10. ~Initializes(t) /\ ~Initializes(t)'
    BY <1>1, <2>1, Kinds DEF CloserRets, ClosingPCs, Makers, Initializes, Moves
  <2>11. ~FailsToRead(t) /\ ~FailsToRead(t)'
    BY <1>1, <2>1, Kinds DEF CloserRets, ClosingPCs, Makers, FailsToRead, Moves
  <2> QED
    BY <2>2, <2>3, <2>4, <2>5, <2>6, <2>7, <2>8, <2>9, <2>10, <2>11
<1>4. \A u \in Threads : u # t =>
        /\ pc'[u] = pc[u] /\ x'[u] = x[u] /\ old'[u] = old[u] /\ ret'[u] = ret[u]
        /\ (Carries(u)' <=> Carries(u)) /\ (Shut(u)' <=> Shut(u)) /\ (Making(u)' <=> Making(u))
        /\ (Fresh(u)' <=> Fresh(u)) /\ (Unread(u)' <=> Unread(u)) /\ (Apart(u)' <=> Apart(u))
        /\ (Dropping(u)' <=> Dropping(u)) /\ (Locked(u)' <=> Locked(u))
        /\ (Initializes(u)' <=> Initializes(u)) /\ (FailsToRead(u)' <=> FailsToRead(u))
  BY <1>1, OthersKeep
<1>5. NoRole(t)' \/ (pc'[t] # "idle" /\ x'[t] = x[t] /\ old'[t] = old[t])
  BY <1>1, IdleNoRole DEF Moves
<1>6. PlaceInv'
  <2>1. Placed(t)'
    BY <1>1, <1>2, Kinds, NoneApart
       DEF IInv, Typing, Values, Placed, Places, ClosingPCs, CloserRets, Moves, Calls
  <2>2. MainInv'
    BY <1>1, <1>2, <1>4, Kinds
       DEF IInv, Typing, Values, PlaceInv, MainInv, Placed, Places, CloserRets, ClosingPCs,
           Moves, Calls
  <2> QED
    BY <1>1, <2>1, <2>2, PlaceStep
<1>7. ChainInv'
  BY <1>1, <1>2, <1>3, <1>5, Kinds, ChainStep
     DEF NoRole, Moves, Calls, IInv, Typing, Values, Carries
<1>8. LockInv'
  BY <1>1, <1>2, <1>3, <1>5, Kinds, LockStep DEF NoRole, Moves, Calls, IInv, Reads
<1>9. PtrInv'
  BY <1>1, <1>2, <1>3, <1>5, Kinds, PtrStep DEF NoRole, Moves, Calls
<1>10. OwnInv'
  BY <1>1, <1>2, <1>3, <1>5, Kinds, OwnStep DEF NoRole, Moves, Calls
<1>11. ReadInv'
  BY <1>1, <1>2, <1>3, <1>5, Kinds, ReadStep DEF NoRole, Moves, Calls
<1>12. RoleInv'
  BY <1>1, <1>2, <1>3, <1>5, Kinds, RoleStep DEF NoRole, Moves, Calls
<1>13. /\ \A o : Wanted(o)' <=> Wanted(o) /\ o # old[t]
       /\ Wanted(old[t])
  <2>1. /\ old[t] # ptr /\ \A u \in Timers : Apart(u) => x[u] # old[t]
        /\ \A u \in Timers : u # t /\ Dropping(u) => old[u] # old[t]
    BY <1>3 DEF IInv, RoleInv, DropInv, OneDropper, ApartDropped
  <2>2. \A u \in Timers : u # t =>
          /\ x'[u] = x[u] /\ old'[u] = old[u]
          /\ (Apart(u)' <=> Apart(u)) /\ (Dropping(u)' <=> Dropping(u))
    BY <1>4, Kinds
  <2> QED
    BY <1>1, <1>3, <2>1, <2>2 DEF Wanted
<1>14. \A o : Closed(o)' <=> Closed(o)
  BY <1>1, <1>2, <1>3, <1>5, Kinds, ClosedStep DEF NoRole, Moves, Calls
<1>15. \A o : Initial(o)' <=> Initial(o)
  BY <1>1, <1>2, <1>3, <1>5, Kinds, InitialStep DEF NoRole, Moves, Calls
<1>16. \A o : ReadBy(o)' <=> ReadBy(o)
  BY <1>1, <1>2, <1>3, <1>5, Kinds, ReadByStep DEF NoRole, Moves, Calls
<1>17. \A o : Sending(o)' <=> Sending(o)
  BY <1>1, <1>2, <1>3, <1>5, Kinds, SendingStep DEF NoRole, Moves, Calls
<1>18. \A p \in made : Holders(p)' = Holders(p) - (IF p = old[t] THEN 1 ELSE 0)
  BY <1>1, <1>13, <1>14, <1>15, <1>16, <1>17 DEF Holders, B2N
<1>19. pc'[Listener] # "idle" => pc[Listener] # "idle"
  BY <1>1, <1>4, Kinds
<1>20. RefInv'
  <2>1. \A p \in made : Holders(p)' >= Holders(p) - (IF p = old[t] THEN 1 ELSE 0)
    BY <1>18, HoldersNat
  <2> QED
    BY <1>1, <1>2, <1>18, <1>19, <2>1, RefGiven
<1>21. old[t] # None /\ Holders(old[t]) > 0
  BY <1>3, <1>13, HoldersPositive, NoneApart DEF IInv, RoleInv, DropInv
<1>22. /\ UnlockedUse' /\ StrayOK'
       /\ stray' = {} \/ UNCHANGED deleted
  BY <1>1, <1>2, <1>21, NoStray
<1>23. Values'
  <2>1. refs' \in [Socks -> Nat] /\ deleted' \subseteq made
    BY <1>1, <1>2, RefTypes DEF IInv, RefInv
  <2> QED
    BY <1>1, <1>2, <1>21, <1>22, <2>1, ValueStep DEF IInv, Typing, Values, Placed
<1>24. PointerIsLive'
  BY <1>1, <1>22, <1>23, <1>20, PointerStep DEF IInv
<1> QED
  BY <1>6, <1>7, <1>8, <1>9, <1>10, <1>11, <1>12, <1>20, <1>22, <1>23, <1>24 DEF IKept

LEMMA WriteUnlockKeeps ==
  ASSUME IInv, NEW t \in Timers, WriteUnlock(t)
  PROVE  IKept
<1>1. /\ stray = {} /\ pc[t] = "unlock" /\ t \in Threads /\ Others(t)
      /\ Moves(t, IF kind = "ip" THEN "drop" ELSE "idle")
      /\ t \in writers /\ writers' = writers \ {t}
      /\ UNCHANGED <<kind, ptr, reconnect, use, readers, made, open, refs, deleted,
           io, timers, noSocket, leaked, shutdown, stray>>
  BY Kinds, WriteUnlockEffect DEF IInv, Moves, Calls
<1>2. Placed(t) /\ x[t] \in made \cup {None} /\ old[t] \in made \cup {None}
  BY <1>1 DEF IInv, PlaceInv, Typing, Locals
<1>3. /\ Making(t) /\ (Making(t)' => Making(t)) /\ (Dropping(t)' <=> Dropping(t))
      /\ Locked(t) /\ ~Locked(t)' /\ ~Carries(t) /\ ~Carries(t)' /\ ~Shut(t)
      /\ ~Shut(t)' /\ ~Fresh(t) /\ ~Fresh(t)' /\ ~Unread(t) /\ ~Unread(t)' /\ ~Apart(t)
      /\ ~Apart(t)' /\ ~Initializes(t) /\ ~Initializes(t)' /\ ~FailsToRead(t)
      /\ ~FailsToRead(t)'
  BY <1>1, <1>2, Kinds
     DEF Placed, Places, ClosingPCs, CloserRets, Makers, NoRole, Carries, Shut, Making, Fresh,
         Unread, Apart, Dropping, Locked, Initializes, FailsToRead, Moves, Calls
<1>4. \A u \in Threads : u # t =>
        /\ pc'[u] = pc[u] /\ x'[u] = x[u] /\ old'[u] = old[u] /\ ret'[u] = ret[u]
        /\ (Carries(u)' <=> Carries(u)) /\ (Shut(u)' <=> Shut(u)) /\ (Making(u)' <=> Making(u))
        /\ (Fresh(u)' <=> Fresh(u)) /\ (Unread(u)' <=> Unread(u)) /\ (Apart(u)' <=> Apart(u))
        /\ (Dropping(u)' <=> Dropping(u)) /\ (Locked(u)' <=> Locked(u))
        /\ (Initializes(u)' <=> Initializes(u)) /\ (FailsToRead(u)' <=> FailsToRead(u))
  BY <1>1, OthersKeep
<1>5. NoRole(t)' \/ (pc'[t] # "idle" /\ x'[t] = x[t] /\ old'[t] = old[t])
  BY <1>1, IdleNoRole DEF Moves
<1>6. PlaceInv'
  <2>1. Placed(t)'
    BY <1>1, <1>2, Kinds, NoneApart
       DEF IInv, Typing, Values, Placed, Places, ClosingPCs, CloserRets, Moves, Calls
  <2>2. MainInv'
    BY <1>1, <1>2, <1>4, Kinds
       DEF IInv, Typing, Values, PlaceInv, MainInv, Placed, Places, CloserRets, ClosingPCs,
           Moves, Calls
  <2> QED
    BY <1>1, <2>1, <2>2, PlaceStep
<1>7. ChainInv'
  BY <1>1, <1>2, <1>3, <1>5, Kinds, ChainStep
     DEF NoRole, Moves, Calls, IInv, Typing, Values, Carries
<1>8. LockInv'
  BY <1>1, <1>2, <1>3, <1>4, Kinds DEF IInv, LockInv, Moves, Calls, NoRole
<1>9. PtrInv'
  BY <1>1, <1>2, <1>3, <1>5, Kinds, PtrStep DEF NoRole, Moves, Calls
<1>10. OwnInv'
  BY <1>1, <1>2, <1>3, <1>5, Kinds, OwnStep DEF NoRole, Moves, Calls
<1>11. ReadInv'
  BY <1>1, <1>2, <1>3, <1>5, Kinds, ReadStep DEF NoRole, Moves, Calls
<1>12. RoleInv'
  BY <1>1, <1>2, <1>3, <1>5, Kinds, RoleStep DEF NoRole, Moves, Calls
<1>13. \A o : Wanted(o)' <=> Wanted(o)
  BY <1>1, <1>2, <1>3, <1>5, Kinds, WantedStep DEF NoRole, Moves, Calls
<1>14. \A o : Closed(o)' <=> Closed(o)
  BY <1>1, <1>2, <1>3, <1>5, Kinds, ClosedStep DEF NoRole, Moves, Calls
<1>15. \A o : Initial(o)' <=> Initial(o)
  BY <1>1, <1>2, <1>3, <1>5, Kinds, InitialStep DEF NoRole, Moves, Calls
<1>16. \A o : ReadBy(o)' <=> ReadBy(o)
  BY <1>1, <1>2, <1>3, <1>5, Kinds, ReadByStep DEF NoRole, Moves, Calls
<1>17. \A o : Sending(o)' <=> Sending(o)
  BY <1>1, <1>2, <1>3, <1>5, Kinds, SendingStep DEF NoRole, Moves, Calls
<1>18. \A p \in made : Holders(p)' = Holders(p)
  BY <1>1, <1>13, <1>14, <1>15, <1>16, <1>17 DEF Holders, B2N
<1>19. RefInv'
  BY <1>1, <1>4, <1>18, Kinds, RefKept DEF IInv, RefInv, Moves, Calls
<1>20. UnlockedUse' /\ StrayOK'
  BY <1>1 DEF UnlockedUse, StrayOK
<1>21. Values'
  BY <1>1, <1>2, <1>3, <1>20, ValueStep, InHand, Kinds DEF IInv, Typing, Values, Moves, Calls
<1>22. PointerIsLive'
  BY <1>1, <1>20, <1>21, <1>19, PointerStep DEF IInv
<1> QED
  BY <1>6, <1>7, <1>8, <1>9, <1>10, <1>11, <1>12, <1>19, <1>20, <1>21, <1>22 DEF IKept

LEMMA InitializeKeeps ==
  ASSUME IInv, NEW t \in Threads, Initialize(t)
  PROVE  IKept
<1>1. /\ stray = {} /\ pc[t] = "init" /\ t \in Threads /\ Others(t)
      /\ AddRef(t, x[t], 1)
      /\ \/ Moves(t, "create") /\ leaked' = leaked
         \/ /\ Calls(t, IF t = Main THEN "idle" ELSE IF kind = "log" THEN "drop" ELSE "unlock")
            /\ leaked' = leaked \cup {x[t]}
      /\ UNCHANGED <<kind, ptr, reconnect, use, readers, writers, made, open, io,
           timers, noSocket, shutdown>>
  BY Kinds, InitializeEffect DEF IInv, Moves, Calls
<1>2. Placed(t) /\ x[t] \in made \cup {None} /\ old[t] \in made \cup {None}
  BY <1>1 DEF IInv, PlaceInv, Typing, Locals
<1>3. /\ Making(t) /\ Making(t)' /\ Fresh(t) /\ ~Fresh(t)' /\ Unread(t)
      /\ (Unread(t)' => Unread(t)) /\ (Dropping(t)' <=> Dropping(t))
      /\ (Locked(t)' <=> Locked(t)) /\ ~Initializes(t)
      /\ (Initializes(t)' <=> pc'[t] = "create") /\ ~Carries(t) /\ ~Carries(t)'
      /\ ~Shut(t) /\ ~Shut(t)' /\ ~Apart(t) /\ ~Apart(t)' /\ ~FailsToRead(t)
      /\ ~FailsToRead(t)'
  BY <1>1, <1>2, Kinds
     DEF Placed, Places, ClosingPCs, CloserRets, Makers, NoRole, Carries, Shut, Making, Fresh,
         Unread, Apart, Dropping, Locked, Initializes, FailsToRead, Moves, Calls
<1>4. \A u \in Threads : u # t =>
        /\ pc'[u] = pc[u] /\ x'[u] = x[u] /\ old'[u] = old[u] /\ ret'[u] = ret[u]
        /\ (Carries(u)' <=> Carries(u)) /\ (Shut(u)' <=> Shut(u)) /\ (Making(u)' <=> Making(u))
        /\ (Fresh(u)' <=> Fresh(u)) /\ (Unread(u)' <=> Unread(u)) /\ (Apart(u)' <=> Apart(u))
        /\ (Dropping(u)' <=> Dropping(u)) /\ (Locked(u)' <=> Locked(u))
        /\ (Initializes(u)' <=> Initializes(u)) /\ (FailsToRead(u)' <=> FailsToRead(u))
  BY <1>1, OthersKeep
<1>5. PlaceInv'
  <2>1. Placed(t)'
    BY <1>1, <1>2, Kinds, NoneApart
       DEF IInv, Typing, Values, Placed, Places, ClosingPCs, CloserRets, Moves, Calls
  <2>2. MainInv'
    BY <1>1, <1>2, <1>4, Kinds
       DEF IInv, Typing, Values, PlaceInv, MainInv, Placed, Places, CloserRets, ClosingPCs,
           Moves, Calls
  <2> QED
    BY <1>1, <2>1, <2>2, PlaceStep
<1>6. ChainInv'
  BY <1>1, <1>2, <1>3, Kinds, ChainStep DEF NoRole, Moves, Calls, IInv, Typing, Values, Carries
<1>7. LockInv'
  BY <1>1, <1>2, <1>3, Kinds, LockStep DEF NoRole, Moves, Calls, IInv, Reads
<1>8. PtrInv'
  BY <1>1, <1>2, <1>3, Kinds, PtrStep DEF NoRole, Moves, Calls
<1>9. OwnInv'
  BY <1>1, <1>2, <1>3, Kinds, InHand, RolesMake, OwnStep DEF NoRole, Moves, Calls
<1>10. ReadInv'
  <2>1. UnreadInv'
    BY <1>1, <1>2, <1>3, <1>4, Kinds, InHand, RolesMake
       DEF IInv, ReadInv, UnreadInv, NotLeaked, Making, Moves, Calls
  <2>2. WorkerInv'
    BY <1>1, <1>2, <1>3, <1>4, Kinds, InHand, RolesMake
       DEF IInv, ReadInv, WorkerInv, NotLeaked, Making, Moves, Calls
  <2>3. NotLeaked'
    BY <1>1, <1>2, <1>3, <1>4, Kinds, InHand, RolesMake
       DEF IInv, ReadInv, NotLeaked, NotLeaked, Making, Moves, Calls
  <2> QED
    BY <2>1, <2>2, <2>3 DEF ReadInv
<1>11. RoleInv'
  BY <1>1, <1>2, <1>3, Kinds, RoleStep DEF NoRole, Moves, Calls
<1>12. \A o : Wanted(o)' <=> Wanted(o)
  BY <1>1, <1>2, <1>3, Kinds, WantedStep DEF NoRole, Moves, Calls
<1>13. \A o : Closed(o)' <=> Closed(o)
  BY <1>1, <1>2, <1>3, Kinds, ClosedStep DEF NoRole, Moves, Calls
<1>14. /\ \A o : Initial(o)' <=> Initial(o) \/ (o = x[t] /\ pc'[t] = "create")
       /\ ~Initial(x[t])
  BY <1>1, <1>2, <1>3, <1>4, InHand, RolesMake, Kinds DEF IInv, Initial, Moves, Calls
<1>15. \A o : ReadBy(o)' <=> ReadBy(o)
  BY <1>1, <1>2, <1>3, Kinds, ReadByStep DEF NoRole, Moves, Calls
<1>16. \A o : Sending(o)' <=> Sending(o)
  BY <1>1, <1>2, <1>3, Kinds, SendingStep DEF NoRole, Moves, Calls
<1>17. \A p \in made : Holders(p)' = Holders(p) + (IF p = x[t] THEN 1 ELSE 0)
  <2>1. x[t] \notin leaked
    BY <1>3, RolesMake DEF IInv, ReadInv, NotLeaked, Making
  <2>2. CASE pc'[t] = "create" /\ leaked' = leaked
    BY <2>2, <1>12, <1>13, <1>14, <1>15, <1>16 DEF Holders, B2N
  <2>3. CASE pc'[t] = "exchange" /\ leaked' = leaked \cup {x[t]}
    BY <2>1, <2>3, <1>12, <1>13, <1>14, <1>15, <1>16 DEF Holders, B2N
  <2> QED
    BY <1>1, <2>2, <2>3 DEF Moves, Calls
<1>18. pc'[Listener] # "idle" => pc[Listener] # "idle"
  BY <1>1, <1>4, Kinds
<1>19. RefInv'
  BY <1>1, <1>2, <1>17, <1>18, RefTaken
<1>20. x[t] # None /\ Holders(x[t]) > 0
  BY <1>1, <1>2, <1>3, MakerHolds, RolesMake, HoldersPositive, Kinds DEF Placed, Places
<1>21. /\ UnlockedUse' /\ StrayOK'
       /\ stray' = {} \/ UNCHANGED deleted
  <2>1. t # User /\ leaked \subseteq leaked' /\ \E n \in {1, 2} : AddRef(t, x[t], n)
    BY <1>1, <1>2, Kinds DEF Placed, Places
  <2> QED
    BY <1>1, <1>2, <1>20, <2>1, NoStray
<1>22. Values'
  <2>1. refs' \in [Socks -> Nat] /\ deleted' \subseteq made
    BY <1>1, <1>2, RefTypes DEF IInv, RefInv
  <2> QED
    BY <1>1, <1>2, <1>20, <1>21, <2>1, ValueStep DEF IInv, Typing, Values, Placed
<1>23. PointerIsLive'
  BY <1>1, <1>21, <1>22, <1>19, PointerStep DEF IInv
<1> QED
  BY <1>5, <1>6, <1>7, <1>8, <1>9, <1>10, <1>11, <1>19, <1>21, <1>22, <1>23 DEF IKept

LEMMA OnCreateKeeps ==
  ASSUME IInv, NEW t \in Threads, OnCreate(t)
  PROVE  IKept
<1>1. /\ stray = {} /\ pc[t] = "create" /\ t \in Threads /\ Others(t)
      /\ AddRef(t, x[t], IF kind = "log" THEN 1 ELSE 2)
      /\ leaked' = IF kind = "log" THEN leaked ELSE leaked \cup {x[t]}
      /\ \/ Moves(t, "created") /\ io' = io \cup {x[t]}
         \/ Calls(t, "noread") /\ io' = io
      /\ UNCHANGED <<kind, ptr, reconnect, use, readers, writers, made, open,
           timers, noSocket, shutdown>>
  BY Kinds, OnCreateEffect DEF IInv, Moves, Calls
<1>2. Placed(t) /\ x[t] \in made \cup {None} /\ old[t] \in made \cup {None}
  BY <1>1 DEF IInv, PlaceInv, Typing, Locals
<1>3. /\ Making(t) /\ Making(t)' /\ Unread(t) /\ (Unread(t)' <=> pc'[t] = "exchange")
      /\ (Dropping(t)' <=> Dropping(t)) /\ (Locked(t)' <=> Locked(t)) /\ Initializes(t)
      /\ Initializes(t)' /\ ~FailsToRead(t) /\ (FailsToRead(t)' <=> pc'[t] = "exchange")
      /\ ~Carries(t) /\ ~Carries(t)' /\ ~Shut(t) /\ ~Shut(t)' /\ ~Fresh(t) /\ ~Fresh(t)'
      /\ ~Apart(t) /\ ~Apart(t)'
  BY <1>1, <1>2, Kinds
     DEF Placed, Places, ClosingPCs, CloserRets, Makers, NoRole, Carries, Shut, Making, Fresh,
         Unread, Apart, Dropping, Locked, Initializes, FailsToRead, Moves, Calls
<1>4. \A u \in Threads : u # t =>
        /\ pc'[u] = pc[u] /\ x'[u] = x[u] /\ old'[u] = old[u] /\ ret'[u] = ret[u]
        /\ (Carries(u)' <=> Carries(u)) /\ (Shut(u)' <=> Shut(u)) /\ (Making(u)' <=> Making(u))
        /\ (Fresh(u)' <=> Fresh(u)) /\ (Unread(u)' <=> Unread(u)) /\ (Apart(u)' <=> Apart(u))
        /\ (Dropping(u)' <=> Dropping(u)) /\ (Locked(u)' <=> Locked(u))
        /\ (Initializes(u)' <=> Initializes(u)) /\ (FailsToRead(u)' <=> FailsToRead(u))
  BY <1>1, OthersKeep
<1>5. PlaceInv'
  <2>1. Placed(t)'
    BY <1>1, <1>2, Kinds, NoneApart
       DEF IInv, Typing, Values, Placed, Places, ClosingPCs, CloserRets, Moves, Calls
  <2>2. MainInv'
    BY <1>1, <1>2, <1>4, Kinds
       DEF IInv, Typing, Values, PlaceInv, MainInv, Placed, Places, CloserRets, ClosingPCs,
           Moves, Calls
  <2> QED
    BY <1>1, <2>1, <2>2, PlaceStep
<1>6. ChainInv'
  BY <1>1, <1>2, <1>3, Kinds, ChainStep DEF NoRole, Moves, Calls, IInv, Typing, Values, Carries
<1>7. LockInv'
  BY <1>1, <1>2, <1>3, Kinds, LockStep DEF NoRole, Moves, Calls, IInv, Reads
<1>8. PtrInv'
  BY <1>1, <1>2, <1>3, Kinds, PtrStep DEF NoRole, Moves, Calls
<1>9. OwnInv'
  BY <1>1, <1>2, <1>3, Kinds, InHand, RolesMake, OwnStep DEF NoRole, Moves, Calls
<1>10. ReadInv'
  <2>1. UnreadInv'
    BY <1>1, <1>2, <1>3, <1>4, Kinds, InHand, RolesMake
       DEF IInv, ReadInv, UnreadInv, UnreadInv, Moves, Calls
  <2>2. WorkerInv'
    BY <1>1, <1>2, <1>3, <1>4, Kinds, InHand, RolesMake
       DEF IInv, ReadInv, WorkerInv, UnreadInv, Moves, Calls
  <2>3. NotLeaked'
    BY <1>1, <1>2, <1>3, <1>4, Kinds, InHand, RolesMake
       DEF IInv, ReadInv, NotLeaked, Making, Fresh, Moves, Calls
  <2> QED
    BY <2>1, <2>2, <2>3 DEF ReadInv
<1>11. RoleInv'
  BY <1>1, <1>2, <1>3, Kinds, RoleStep DEF NoRole, Moves, Calls
<1>12. \A o : Wanted(o)' <=> Wanted(o)
  BY <1>1, <1>2, <1>3, Kinds, WantedStep DEF NoRole, Moves, Calls
<1>13. \A o : Closed(o)' <=> Closed(o)
  BY <1>1, <1>2, <1>3, Kinds, ClosedStep DEF NoRole, Moves, Calls
<1>14. \A o : Initial(o)' <=> Initial(o)
  BY <1>1, <1>2, <1>3, Kinds, InitialStep DEF NoRole, Moves, Calls
<1>15. /\ \A o : ReadBy(o)' <=> ReadBy(o) \/ o = x[t]
       /\ ~ReadBy(x[t])
  BY <1>1, <1>2, <1>3, <1>4, InHand, RolesMake, Kinds
     DEF IInv, ReadBy, ReadInv, UnreadInv, Moves, Calls
<1>16. \A o : Sending(o)' <=> Sending(o)
  BY <1>1, <1>2, <1>3, Kinds, SendingStep DEF NoRole, Moves, Calls
<1>17. \A p \in made : Holders(p)' = Holders(p) + (IF p = x[t] THEN (IF kind = "log" THEN 1 ELSE 2) ELSE 0)
  <2>1. x[t] \notin leaked
    BY <1>1, <1>3, RolesMake DEF IInv, ReadInv, NotLeaked
  <2>2. CASE kind = "log"
    BY <1>1, <2>2, <1>12, <1>13, <1>14, <1>15, <1>16 DEF Holders, B2N
  <2>3. CASE kind # "log"
    BY <1>1, <2>1, <2>3, <1>12, <1>13, <1>14, <1>15, <1>16 DEF Holders, B2N
  <2> QED
    BY <2>2, <2>3
<1>18. pc'[Listener] # "idle" => pc[Listener] # "idle"
  BY <1>1, <1>4, Kinds
<1>19. RefInv'
  <2>1. (IF kind = "log" THEN 1 ELSE 2) \in {1, 2}
    OBVIOUS
  <2> QED
    BY <1>1, <1>2, <1>17, <1>18, <2>1, RefTaken
<1>20. x[t] # None /\ Holders(x[t]) > 0
  BY <1>1, <1>2, <1>3, RolesMake, HoldersPositive, Kinds DEF Placed, Places, Initial
<1>21. /\ UnlockedUse' /\ StrayOK'
       /\ stray' = {} \/ UNCHANGED deleted
  <2>1. t # User /\ leaked \subseteq leaked' /\ \E n \in {1, 2} : AddRef(t, x[t], n)
    BY <1>1, <1>2, Kinds DEF Placed, Places
  <2> QED
    BY <1>1, <1>2, <1>20, <2>1, NoStray
<1>22. Values'
  <2>1. refs' \in [Socks -> Nat] /\ deleted' \subseteq made
    BY <1>1, <1>2, RefTypes DEF IInv, RefInv
  <2> QED
    BY <1>1, <1>2, <1>20, <1>21, <2>1, ValueStep DEF IInv, Typing, Values, Placed
<1>23. PointerIsLive'
  BY <1>1, <1>21, <1>22, <1>19, PointerStep DEF IInv
<1> QED
  BY <1>5, <1>6, <1>7, <1>8, <1>9, <1>10, <1>11, <1>19, <1>21, <1>22, <1>23 DEF IKept

LEMMA ReleaseReadKeeps ==
  ASSUME IInv, NEW t \in Threads, ReleaseRead(t)
  PROVE  IKept
<1>1. /\ stray = {} /\ pc[t] = "noread" /\ t \in Threads /\ Others(t)
      /\ Moves(t, "created") /\ ReleaseRef(t, x[t])
      /\ UNCHANGED <<kind, ptr, reconnect, use, readers, writers, made, open, io,
           timers, noSocket, leaked, shutdown>>
  BY Kinds, ReleaseReadEffect DEF IInv, Moves, Calls
<1>2. Placed(t) /\ x[t] \in made \cup {None} /\ old[t] \in made \cup {None}
  BY <1>1 DEF IInv, PlaceInv, Typing, Locals
<1>3. /\ Making(t) /\ Making(t)' /\ Unread(t) /\ ~Unread(t)'
      /\ (Dropping(t)' <=> Dropping(t)) /\ (Locked(t)' <=> Locked(t)) /\ Initializes(t)
      /\ Initializes(t)' /\ FailsToRead(t) /\ ~FailsToRead(t)' /\ ~Carries(t)
      /\ ~Carries(t)' /\ ~Shut(t) /\ ~Shut(t)' /\ ~Fresh(t) /\ ~Fresh(t)' /\ ~Apart(t)
      /\ ~Apart(t)'
  BY <1>1, <1>2, Kinds
     DEF Placed, Places, ClosingPCs, CloserRets, Makers, NoRole, Carries, Shut, Making, Fresh,
         Unread, Apart, Dropping, Locked, Initializes, FailsToRead, Moves, Calls
<1>4. \A u \in Threads : u # t =>
        /\ pc'[u] = pc[u] /\ x'[u] = x[u] /\ old'[u] = old[u] /\ ret'[u] = ret[u]
        /\ (Carries(u)' <=> Carries(u)) /\ (Shut(u)' <=> Shut(u)) /\ (Making(u)' <=> Making(u))
        /\ (Fresh(u)' <=> Fresh(u)) /\ (Unread(u)' <=> Unread(u)) /\ (Apart(u)' <=> Apart(u))
        /\ (Dropping(u)' <=> Dropping(u)) /\ (Locked(u)' <=> Locked(u))
        /\ (Initializes(u)' <=> Initializes(u)) /\ (FailsToRead(u)' <=> FailsToRead(u))
  BY <1>1, OthersKeep
<1>5. PlaceInv'
  <2>1. Placed(t)'
    BY <1>1, <1>2, Kinds, NoneApart
       DEF IInv, Typing, Values, Placed, Places, ClosingPCs, CloserRets, Moves, Calls
  <2>2. MainInv'
    BY <1>1, <1>2, <1>4, Kinds
       DEF IInv, Typing, Values, PlaceInv, MainInv, Placed, Places, CloserRets, ClosingPCs,
           Moves, Calls
  <2> QED
    BY <1>1, <2>1, <2>2, PlaceStep
<1>6. ChainInv'
  BY <1>1, <1>2, <1>3, Kinds, ChainStep DEF NoRole, Moves, Calls, IInv, Typing, Values, Carries
<1>7. LockInv'
  BY <1>1, <1>2, <1>3, Kinds, LockStep DEF NoRole, Moves, Calls, IInv, Reads
<1>8. PtrInv'
  BY <1>1, <1>2, <1>3, Kinds, PtrStep DEF NoRole, Moves, Calls
<1>9. OwnInv'
  BY <1>1, <1>2, <1>3, Kinds, OwnStep DEF NoRole, Moves, Calls
<1>10. ReadInv'
  BY <1>1, <1>2, <1>3, Kinds, ReadStep DEF NoRole, Moves, Calls
<1>11. RoleInv'
  BY <1>1, <1>2, <1>3, Kinds, RoleStep DEF NoRole, Moves, Calls
<1>12. \A o : Wanted(o)' <=> Wanted(o)
  BY <1>1, <1>2, <1>3, Kinds, WantedStep DEF NoRole, Moves, Calls
<1>13. \A o : Closed(o)' <=> Closed(o)
  BY <1>1, <1>2, <1>3, Kinds, ClosedStep DEF NoRole, Moves, Calls
<1>14. \A o : Initial(o)' <=> Initial(o)
  BY <1>1, <1>2, <1>3, Kinds, InitialStep DEF NoRole, Moves, Calls
<1>15. /\ \A o : ReadBy(o)' <=> ReadBy(o) /\ o # x[t]
       /\ ReadBy(x[t])
  BY <1>1, <1>2, <1>3, <1>4, InHand, RolesMake, Kinds
     DEF IInv, ReadBy, ReadInv, UnreadInv, Moves, Calls
<1>16. \A o : Sending(o)' <=> Sending(o)
  BY <1>1, <1>2, <1>3, Kinds, SendingStep DEF NoRole, Moves, Calls
<1>17. \A p \in made : Holders(p)' = Holders(p) - (IF p = x[t] THEN 1 ELSE 0)
  BY <1>1, <1>12, <1>13, <1>14, <1>15, <1>16 DEF Holders, B2N
<1>18. pc'[Listener] # "idle" => pc[Listener] # "idle"
  BY <1>1, <1>4, Kinds
<1>19. RefInv'
  <2>1. \A p \in made : Holders(p)' >= Holders(p) - (IF p = x[t] THEN 1 ELSE 0)
    BY <1>17, HoldersNat
  <2> QED
    BY <1>1, <1>2, <1>17, <1>18, <2>1, RefGiven
<1>20. x[t] # None /\ Holders(x[t]) > 0
  BY <1>1, <1>2, <1>15, Kinds, HoldersPositive, NoneApart
     DEF IInv, Placed, Places, ClosingPCs, RoleInv, DropInv
<1>21. /\ UnlockedUse' /\ StrayOK'
       /\ stray' = {} \/ UNCHANGED deleted
  BY <1>1, <1>2, <1>20, NoStray
<1>22. Values'
  <2>1. refs' \in [Socks -> Nat] /\ deleted' \subseteq made
    BY <1>1, <1>2, RefTypes DEF IInv, RefInv
  <2> QED
    BY <1>1, <1>2, <1>20, <1>21, <2>1, ValueStep DEF IInv, Typing, Values, Placed
<1>23. PointerIsLive'
  BY <1>1, <1>21, <1>22, <1>19, PointerStep DEF IInv
<1> QED
  BY <1>5, <1>6, <1>7, <1>8, <1>9, <1>10, <1>11, <1>19, <1>21, <1>22, <1>23 DEF IKept

LEMMA EndInitializeKeeps ==
  ASSUME IInv, NEW t \in Threads, EndInitialize(t)
  PROVE  IKept
<1>1. /\ stray = {} /\ pc[t] = "created" /\ t \in Threads /\ Others(t)
      /\ Moves(t, IF t = Main THEN "idle" ELSE IF kind = "log" THEN "drop" ELSE "unlock")
      /\ ReleaseRef(t, x[t])
      /\ UNCHANGED <<kind, ptr, reconnect, use, readers, writers, made, open, io,
           timers, noSocket, leaked, shutdown>>
  BY Kinds, EndInitializeEffect DEF IInv, Moves, Calls
<1>2. Placed(t) /\ x[t] \in made \cup {None} /\ old[t] \in made \cup {None}
  BY <1>1 DEF IInv, PlaceInv, Typing, Locals
<1>3. /\ Making(t) /\ (Making(t)' => Making(t)) /\ (Dropping(t)' <=> Dropping(t))
      /\ (Locked(t)' <=> Locked(t)) /\ Initializes(t) /\ ~Initializes(t)' /\ ~Carries(t)
      /\ ~Carries(t)' /\ ~Shut(t) /\ ~Shut(t)' /\ ~Fresh(t) /\ ~Fresh(t)' /\ ~Unread(t)
      /\ ~Unread(t)' /\ ~Apart(t) /\ ~Apart(t)' /\ ~FailsToRead(t) /\ ~FailsToRead(t)'
  <2>1. t \in Makers /\ (t = Main => ~(pc[t] \in {"drop", "unlock"}))
        /\ kind \in {"log", "ip", "wanted"}
    BY <1>1, <1>2, Kinds DEF IInv, Typing, Values, Placed, Places, ClosingPCs, Makers
  <2>2. ~Carries(t) /\ ~Carries(t)'
    BY <1>1, <2>1, Kinds DEF CloserRets, ClosingPCs, Makers, Carries, Moves
  <2>3. ~Shut(t) /\ ~Shut(t)'
    BY <1>1, <2>1, Kinds DEF CloserRets, ClosingPCs, Makers, Shut, Moves
  <2>4. Making(t) /\ (Making(t)' => Making(t))
    BY <1>1, <2>1, Kinds DEF CloserRets, ClosingPCs, Makers, Making, Moves
  <2>5. ~Fresh(t) /\ ~Fresh(t)'
    BY <1>1, <2>1, Kinds DEF CloserRets, ClosingPCs, Makers, Fresh, Moves
  <2>6. ~Unread(t) /\ ~Unread(t)'
    BY <1>1, <2>1, Kinds DEF CloserRets, ClosingPCs, Makers, Unread, Fresh, Moves
  <2>7. ~Apart(t) /\ ~Apart(t)'
    BY <1>1, <2>1, Kinds DEF CloserRets, ClosingPCs, Makers, Apart, Moves
  <2>8. (Dropping(t)' <=> Dropping(t))
    BY <1>1, <2>1, Kinds DEF CloserRets, ClosingPCs, Makers, Dropping, Moves
  <2>9. (Locked(t)' <=> Locked(t))
    BY <1>1, <2>1, Kinds DEF CloserRets, ClosingPCs, Makers, Locked, Moves
  <2>10. Initializes(t) /\ ~Initializes(t)'
    BY <1>1, <2>1, Kinds DEF CloserRets, ClosingPCs, Makers, Initializes, Moves
  <2>11. ~FailsToRead(t) /\ ~FailsToRead(t)'
    BY <1>1, <2>1, Kinds DEF CloserRets, ClosingPCs, Makers, FailsToRead, Moves
  <2> QED
    BY <2>2, <2>3, <2>4, <2>5, <2>6, <2>7, <2>8, <2>9, <2>10, <2>11
<1>4. \A u \in Threads : u # t =>
        /\ pc'[u] = pc[u] /\ x'[u] = x[u] /\ old'[u] = old[u] /\ ret'[u] = ret[u]
        /\ (Carries(u)' <=> Carries(u)) /\ (Shut(u)' <=> Shut(u)) /\ (Making(u)' <=> Making(u))
        /\ (Fresh(u)' <=> Fresh(u)) /\ (Unread(u)' <=> Unread(u)) /\ (Apart(u)' <=> Apart(u))
        /\ (Dropping(u)' <=> Dropping(u)) /\ (Locked(u)' <=> Locked(u))
        /\ (Initializes(u)' <=> Initializes(u)) /\ (FailsToRead(u)' <=> FailsToRead(u))
  BY <1>1, OthersKeep
<1>5. NoRole(t)' \/ (pc'[t] # "idle" /\ x'[t] = x[t] /\ old'[t] = old[t])
  BY <1>1, IdleNoRole DEF Moves
<1>6. PlaceInv'
  <2>1. Placed(t)'
    BY <1>1, <1>2, Kinds, NoneApart
       DEF IInv, Typing, Values, Placed, Places, ClosingPCs, CloserRets, Moves, Calls
  <2>2. MainInv'
    BY <1>1, <1>2, <1>4, Kinds
       DEF IInv, Typing, Values, PlaceInv, MainInv, Placed, Places, CloserRets, ClosingPCs,
           Moves, Calls
  <2> QED
    BY <1>1, <2>1, <2>2, PlaceStep
<1>7. ChainInv'
  BY <1>1, <1>2, <1>3, <1>5, Kinds, ChainStep
     DEF NoRole, Moves, Calls, IInv, Typing, Values, Carries
<1>8. LockInv'
  BY <1>1, <1>2, <1>3, <1>5, Kinds, LockStep DEF NoRole, Moves, Calls, IInv, Reads
<1>9. PtrInv'
  BY <1>1, <1>2, <1>3, <1>5, Kinds, PtrStep DEF NoRole, Moves, Calls
<1>10. OwnInv'
  BY <1>1, <1>2, <1>3, <1>5, Kinds, OwnStep DEF NoRole, Moves, Calls
<1>11. ReadInv'
  BY <1>1, <1>2, <1>3, <1>5, Kinds, ReadStep DEF NoRole, Moves, Calls
<1>12. RoleInv'
  BY <1>1, <1>2, <1>3, <1>5, Kinds, RoleStep DEF NoRole, Moves, Calls
<1>13. \A o : Wanted(o)' <=> Wanted(o)
  BY <1>1, <1>2, <1>3, <1>5, Kinds, WantedStep DEF NoRole, Moves, Calls
<1>14. \A o : Closed(o)' <=> Closed(o)
  BY <1>1, <1>2, <1>3, <1>5, Kinds, ClosedStep DEF NoRole, Moves, Calls
<1>15. /\ \A o : Initial(o)' <=> Initial(o) /\ o # x[t]
       /\ Initial(x[t])
  BY <1>1, <1>2, <1>3, <1>4, <1>5, InHand, RolesMake, Kinds DEF IInv, Initial, Moves, Calls
<1>16. \A o : ReadBy(o)' <=> ReadBy(o)
  BY <1>1, <1>2, <1>3, <1>5, Kinds, ReadByStep DEF NoRole, Moves, Calls
<1>17. \A o : Sending(o)' <=> Sending(o)
  BY <1>1, <1>2, <1>3, <1>5, Kinds, SendingStep DEF NoRole, Moves, Calls
<1>18. \A p \in made : Holders(p)' = Holders(p) - (IF p = x[t] THEN 1 ELSE 0)
  BY <1>1, <1>13, <1>14, <1>15, <1>16, <1>17 DEF Holders, B2N
<1>19. pc'[Listener] # "idle" => pc[Listener] # "idle"
  BY <1>1, <1>4, Kinds
<1>20. RefInv'
  <2>1. \A p \in made : Holders(p)' >= Holders(p) - (IF p = x[t] THEN 1 ELSE 0)
    BY <1>18, HoldersNat
  <2> QED
    BY <1>1, <1>2, <1>18, <1>19, <2>1, RefGiven
<1>21. x[t] # None /\ Holders(x[t]) > 0
  BY <1>1, <1>2, <1>15, Kinds, HoldersPositive, NoneApart
     DEF IInv, Placed, Places, ClosingPCs, RoleInv, DropInv
<1>22. /\ UnlockedUse' /\ StrayOK'
       /\ stray' = {} \/ UNCHANGED deleted
  BY <1>1, <1>2, <1>21, NoStray
<1>23. Values'
  <2>1. refs' \in [Socks -> Nat] /\ deleted' \subseteq made
    BY <1>1, <1>2, RefTypes DEF IInv, RefInv
  <2> QED
    BY <1>1, <1>2, <1>21, <1>22, <2>1, ValueStep DEF IInv, Typing, Values, Placed
<1>24. PointerIsLive'
  BY <1>1, <1>22, <1>23, <1>20, PointerStep DEF IInv
<1> QED
  BY <1>6, <1>7, <1>8, <1>9, <1>10, <1>11, <1>12, <1>20, <1>22, <1>23, <1>24 DEF IKept

LEMMA ReadFailsKeeps ==
  ASSUME IInv, ReadFails
  PROVE  IKept
<1>1. /\ stray = {} /\ pc[Worker] = "idle" /\ Worker \in Threads /\ Others(Worker)
      /\ Others(Worker) /\ pc'[Worker] = "exchange" /\ ret'[Worker] = "callback"
      /\ old'[Worker] = old[Worker] /\ x'[Worker] \in io /\ io' = io \ {x'[Worker]}
      /\ UNCHANGED <<kind, ptr, reconnect, use, readers, writers, made, open, refs,
           deleted, timers, noSocket, leaked, shutdown, stray>>
  BY Kinds, ReadFailsEffect DEF IInv, Moves, Calls
<1>2. Placed(Worker) /\ x[Worker] \in made \cup {None} /\ old[Worker] \in made \cup {None}
  BY <1>1 DEF IInv, PlaceInv, Typing, Locals
<1>3. NoRole(Worker) /\ NoRole(Worker)'
  BY <1>1, <1>2, Kinds
     DEF Placed, Places, ClosingPCs, CloserRets, Makers, NoRole, Carries, Shut, Making, Fresh,
         Unread, Apart, Dropping, Locked, Initializes, FailsToRead, Moves, Calls
<1>4. \A u \in Threads : u # Worker =>
        /\ pc'[u] = pc[u] /\ x'[u] = x[u] /\ old'[u] = old[u] /\ ret'[u] = ret[u]
        /\ (Carries(u)' <=> Carries(u)) /\ (Shut(u)' <=> Shut(u)) /\ (Making(u)' <=> Making(u))
        /\ (Fresh(u)' <=> Fresh(u)) /\ (Unread(u)' <=> Unread(u)) /\ (Apart(u)' <=> Apart(u))
        /\ (Dropping(u)' <=> Dropping(u)) /\ (Locked(u)' <=> Locked(u))
        /\ (Initializes(u)' <=> Initializes(u)) /\ (FailsToRead(u)' <=> FailsToRead(u))
  BY <1>1, OthersKeep
<1>5. PlaceInv'
  <2>1. Placed(Worker)'
    BY <1>1, <1>2, Kinds, NoneApart
       DEF IInv, Typing, Values, Placed, Places, ClosingPCs, CloserRets, Moves, Calls
  <2>2. MainInv'
    BY <1>1, <1>2, <1>4, Kinds
       DEF IInv, Typing, Values, PlaceInv, MainInv, Placed, Places, CloserRets, ClosingPCs,
           Moves, Calls
  <2> QED
    BY <1>1, <2>1, <2>2, PlaceStep
<1>6. ChainInv'
  BY <1>1, <1>2, <1>3, Kinds, ChainStep DEF NoRole, Moves, Calls, IInv, Typing, Values, Carries
<1>7. LockInv'
  BY <1>1, <1>2, <1>3, Kinds, LockStep DEF NoRole, Moves, Calls, IInv, Reads
<1>8. PtrInv'
  BY <1>1, <1>2, <1>3, Kinds, PtrStep DEF NoRole, Moves, Calls
<1>9. OwnInv'
  BY <1>1, <1>2, <1>3, Kinds, RolesMake, OwnStep
     DEF NoRole, Moves, Calls, IInv, ReadInv, UnreadInv
<1>10. ReadInv'
  <2>1. UnreadInv'
    BY <1>1, <1>2, <1>3, <1>4, Kinds, RolesMake
       DEF IInv, ReadInv, UnreadInv, UnreadInv, Moves, Calls
  <2>2. WorkerInv'
    BY <1>1, <1>2, <1>3, <1>4, Kinds, RolesMake
       DEF IInv, ReadInv, WorkerInv, UnreadInv, Moves, Calls
  <2>3. NotLeaked'
    BY <1>1, <1>2, <1>3, <1>4, Kinds, RolesMake
       DEF IInv, ReadInv, NotLeaked, UnreadInv, Moves, Calls
  <2> QED
    BY <2>1, <2>2, <2>3 DEF ReadInv
<1>11. RoleInv'
  BY <1>1, <1>2, <1>3, Kinds, RoleStep DEF NoRole, Moves, Calls
<1>12. \A o : Wanted(o)' <=> Wanted(o)
  BY <1>1, <1>2, <1>3, Kinds, WantedStep DEF NoRole, Moves, Calls
<1>13. \A o : Closed(o)' <=> Closed(o)
  BY <1>1, <1>2, <1>3, Kinds, ClosedStep DEF NoRole, Moves, Calls
<1>14. \A o : Initial(o)' <=> Initial(o)
  BY <1>1, <1>2, <1>3, Kinds, InitialStep DEF NoRole, Moves, Calls
<1>15. \A o : ReadBy(o)' <=> ReadBy(o)
  BY <1>1, <1>2, <1>3, <1>4, Kinds DEF IInv, ReadBy, Moves, Calls
<1>16. \A o : Sending(o)' <=> Sending(o)
  BY <1>1, <1>2, <1>3, Kinds, SendingStep DEF NoRole, Moves, Calls
<1>17. \A p \in made : Holders(p)' = Holders(p)
  BY <1>1, <1>12, <1>13, <1>14, <1>15, <1>16 DEF Holders, B2N
<1>18. RefInv'
  BY <1>1, <1>4, <1>17, Kinds, RefKept DEF IInv, RefInv, Moves, Calls
<1>19. UnlockedUse' /\ StrayOK'
  BY <1>1 DEF UnlockedUse, StrayOK
<1>20. Values'
  BY <1>1, <1>2, <1>3, <1>19, ValueStep, InHand, Kinds DEF IInv, Typing, Values, Moves, Calls
<1>21. PointerIsLive'
  BY <1>1, <1>19, <1>20, <1>18, PointerStep DEF IInv
<1> QED
  BY <1>5, <1>6, <1>7, <1>8, <1>9, <1>10, <1>11, <1>18, <1>19, <1>20, <1>21 DEF IKept

LEMMA EndCallbackKeeps ==
  ASSUME IInv, EndCallback
  PROVE  IKept
<1>1. /\ stray = {} /\ pc[Worker] = "callback" /\ Worker \in Threads /\ Others(Worker)
      /\ Moves(Worker, "idle") /\ ReleaseRef(Worker, x[Worker])
      /\ UNCHANGED <<kind, ptr, reconnect, use, readers, writers, made, open, io,
           timers, noSocket, leaked, shutdown>>
  BY Kinds, EndCallbackEffect DEF IInv, Moves, Calls
<1>2. Placed(Worker) /\ x[Worker] \in made \cup {None} /\ old[Worker] \in made \cup {None}
  BY <1>1 DEF IInv, PlaceInv, Typing, Locals
<1>3. NoRole(Worker) /\ NoRole(Worker)'
  BY <1>1, <1>2, Kinds
     DEF Placed, Places, ClosingPCs, CloserRets, Makers, NoRole, Carries, Shut, Making, Fresh,
         Unread, Apart, Dropping, Locked, Initializes, FailsToRead, Moves, Calls
<1>4. \A u \in Threads : u # Worker =>
        /\ pc'[u] = pc[u] /\ x'[u] = x[u] /\ old'[u] = old[u] /\ ret'[u] = ret[u]
        /\ (Carries(u)' <=> Carries(u)) /\ (Shut(u)' <=> Shut(u)) /\ (Making(u)' <=> Making(u))
        /\ (Fresh(u)' <=> Fresh(u)) /\ (Unread(u)' <=> Unread(u)) /\ (Apart(u)' <=> Apart(u))
        /\ (Dropping(u)' <=> Dropping(u)) /\ (Locked(u)' <=> Locked(u))
        /\ (Initializes(u)' <=> Initializes(u)) /\ (FailsToRead(u)' <=> FailsToRead(u))
  BY <1>1, OthersKeep
<1>5. PlaceInv'
  <2>1. Placed(Worker)'
    BY <1>1, <1>2, Kinds, NoneApart
       DEF IInv, Typing, Values, Placed, Places, ClosingPCs, CloserRets, Moves, Calls
  <2>2. MainInv'
    BY <1>1, <1>2, <1>4, Kinds
       DEF IInv, Typing, Values, PlaceInv, MainInv, Placed, Places, CloserRets, ClosingPCs,
           Moves, Calls
  <2> QED
    BY <1>1, <2>1, <2>2, PlaceStep
<1>6. ChainInv'
  BY <1>1, <1>2, <1>3, Kinds, ChainStep DEF NoRole, Moves, Calls, IInv, Typing, Values, Carries
<1>7. LockInv'
  BY <1>1, <1>2, <1>3, Kinds, LockStep DEF NoRole, Moves, Calls, IInv, Reads
<1>8. PtrInv'
  BY <1>1, <1>2, <1>3, Kinds, PtrStep DEF NoRole, Moves, Calls
<1>9. OwnInv'
  BY <1>1, <1>2, <1>3, Kinds, OwnStep DEF NoRole, Moves, Calls
<1>10. ReadInv'
  BY <1>1, <1>2, <1>3, Kinds, ReadStep DEF NoRole, Moves, Calls
<1>11. RoleInv'
  BY <1>1, <1>2, <1>3, Kinds, RoleStep DEF NoRole, Moves, Calls
<1>12. \A o : Wanted(o)' <=> Wanted(o)
  BY <1>1, <1>2, <1>3, Kinds, WantedStep DEF NoRole, Moves, Calls
<1>13. \A o : Closed(o)' <=> Closed(o)
  BY <1>1, <1>2, <1>3, Kinds, ClosedStep DEF NoRole, Moves, Calls
<1>14. \A o : Initial(o)' <=> Initial(o)
  BY <1>1, <1>2, <1>3, Kinds, InitialStep DEF NoRole, Moves, Calls
<1>15. /\ \A o : ReadBy(o)' <=> ReadBy(o) /\ o # x[Worker]
       /\ ReadBy(x[Worker])
  BY <1>1, <1>2, <1>3, <1>4, RolesMake, Kinds
     DEF IInv, ReadBy, ReadInv, UnreadInv, WorkerInv, Moves, Calls
<1>16. \A o : Sending(o)' <=> Sending(o)
  BY <1>1, <1>2, <1>3, Kinds, SendingStep DEF NoRole, Moves, Calls
<1>17. \A p \in made : Holders(p)' = Holders(p) - (IF p = x[Worker] THEN 1 ELSE 0)
  BY <1>1, <1>12, <1>13, <1>14, <1>15, <1>16 DEF Holders, B2N
<1>18. pc'[Listener] # "idle" => pc[Listener] # "idle"
  BY <1>1, <1>4, Kinds
<1>19. RefInv'
  <2>1. \A p \in made : Holders(p)' >= Holders(p) - (IF p = x[Worker] THEN 1 ELSE 0)
    BY <1>17, HoldersNat
  <2> QED
    BY <1>1, <1>2, <1>17, <1>18, <2>1, RefGiven
<1>20. x[Worker] # None /\ Holders(x[Worker]) > 0
  BY <1>1, <1>2, <1>15, Kinds, HoldersPositive, NoneApart
     DEF IInv, Placed, Places, ClosingPCs, RoleInv, DropInv
<1>21. /\ UnlockedUse' /\ StrayOK'
       /\ stray' = {} \/ UNCHANGED deleted
  BY <1>1, <1>2, <1>20, NoStray
<1>22. Values'
  <2>1. refs' \in [Socks -> Nat] /\ deleted' \subseteq made
    BY <1>1, <1>2, RefTypes DEF IInv, RefInv
  <2> QED
    BY <1>1, <1>2, <1>20, <1>21, <2>1, ValueStep DEF IInv, Typing, Values, Placed
<1>23. PointerIsLive'
  BY <1>1, <1>21, <1>22, <1>19, PointerStep DEF IInv
<1> QED
  BY <1>5, <1>6, <1>7, <1>8, <1>9, <1>10, <1>11, <1>19, <1>21, <1>22, <1>23 DEF IKept

LEMMA StartSendKeeps ==
  ASSUME IInv, StartSend
  PROVE  IKept
<1>1. /\ stray = {} /\ pc[User] = "idle" /\ User \in Threads /\ Others(User)
      /\ Others(User) /\ old'[User] = old[User] /\ ret'[User] = ret[User]
      /\ \/ kind = "wanted" /\ x'[User] = ptr /\ pc'[User] = "send"
         \/ kind # "wanted" /\ ptr # None /\ x'[User] = x[User] /\ pc'[User] = "rlock"
      /\ UNCHANGED <<kind, ptr, reconnect, use, readers, writers, made, open, refs,
           deleted, io, timers, noSocket, leaked, shutdown, stray>>
  BY Kinds, StartSendEffect DEF IInv, Moves, Calls
<1>2. Placed(User) /\ x[User] \in made \cup {None} /\ old[User] \in made \cup {None}
  BY <1>1 DEF IInv, PlaceInv, Typing, Locals
<1>3. NoRole(User) /\ NoRole(User)'
  BY <1>1, <1>2, Kinds
     DEF Placed, Places, ClosingPCs, CloserRets, Makers, NoRole, Carries, Shut, Making, Fresh,
         Unread, Apart, Dropping, Locked, Initializes, FailsToRead, Moves, Calls
<1>4. \A u \in Threads : u # User =>
        /\ pc'[u] = pc[u] /\ x'[u] = x[u] /\ old'[u] = old[u] /\ ret'[u] = ret[u]
        /\ (Carries(u)' <=> Carries(u)) /\ (Shut(u)' <=> Shut(u)) /\ (Making(u)' <=> Making(u))
        /\ (Fresh(u)' <=> Fresh(u)) /\ (Unread(u)' <=> Unread(u)) /\ (Apart(u)' <=> Apart(u))
        /\ (Dropping(u)' <=> Dropping(u)) /\ (Locked(u)' <=> Locked(u))
        /\ (Initializes(u)' <=> Initializes(u)) /\ (FailsToRead(u)' <=> FailsToRead(u))
  BY <1>1, OthersKeep
<1>5. PlaceInv'
  <2>1. Placed(User)'
    BY <1>1, <1>2, Kinds, NoneApart
       DEF IInv, Typing, Values, Placed, Places, ClosingPCs, CloserRets, Moves, Calls
  <2>2. MainInv'
    BY <1>1, <1>2, <1>4, Kinds
       DEF IInv, Typing, Values, PlaceInv, MainInv, Placed, Places, CloserRets, ClosingPCs,
           Moves, Calls
  <2> QED
    BY <1>1, <2>1, <2>2, PlaceStep
<1>6. ChainInv'
  BY <1>1, <1>2, <1>3, Kinds, ChainStep DEF NoRole, Moves, Calls, IInv, Typing, Values, Carries
<1>7. LockInv'
  BY <1>1, <1>2, <1>3, Kinds, LockStep DEF NoRole, Moves, Calls, IInv, Reads
<1>8. PtrInv'
  BY <1>1, <1>2, <1>3, Kinds, PtrStep DEF NoRole, Moves, Calls
<1>9. OwnInv'
  BY <1>1, <1>2, <1>3, Kinds, OwnStep DEF NoRole, Moves, Calls
<1>10. ReadInv'
  BY <1>1, <1>2, <1>3, Kinds, ReadStep DEF NoRole, Moves, Calls
<1>11. RoleInv'
  BY <1>1, <1>2, <1>3, Kinds, RoleStep DEF NoRole, Moves, Calls
<1>12. \A o : Wanted(o)' <=> Wanted(o)
  BY <1>1, <1>2, <1>3, Kinds, WantedStep DEF NoRole, Moves, Calls
<1>13. \A o : Closed(o)' <=> Closed(o)
  BY <1>1, <1>2, <1>3, Kinds, ClosedStep DEF NoRole, Moves, Calls
<1>14. \A o : Initial(o)' <=> Initial(o)
  BY <1>1, <1>2, <1>3, Kinds, InitialStep DEF NoRole, Moves, Calls
<1>15. \A o : ReadBy(o)' <=> ReadBy(o)
  BY <1>1, <1>2, <1>3, Kinds, ReadByStep DEF NoRole, Moves, Calls
<1>16. \A o : Sending(o)' <=> Sending(o)
  BY <1>1, <1>2, <1>3, Kinds, SendingStep DEF NoRole, Moves, Calls
<1>17. \A p \in made : Holders(p)' = Holders(p)
  BY <1>1, <1>12, <1>13, <1>14, <1>15, <1>16 DEF Holders, B2N
<1>18. RefInv'
  BY <1>1, <1>4, <1>17, Kinds, RefKept DEF IInv, RefInv, Moves, Calls
<1>19. UnlockedUse' /\ StrayOK'
  BY <1>1 DEF UnlockedUse, StrayOK
<1>20. Values'
  BY <1>1, <1>2, <1>3, <1>19, ValueStep, InHand, Kinds DEF IInv, Typing, Values, Moves, Calls
<1>21. PointerIsLive'
  BY <1>1, <1>19, <1>20, <1>18, PointerStep DEF IInv
<1> QED
  BY <1>5, <1>6, <1>7, <1>8, <1>9, <1>10, <1>11, <1>18, <1>19, <1>20, <1>21 DEF IKept

LEMMA ReadLockKeeps ==
  ASSUME IInv, ReadLock
  PROVE  IKept
<1>1. /\ stray = {} /\ pc[User] = "rlock" /\ User \in Threads /\ Others(User)
      /\ Others(User) /\ old'[User] = old[User] /\ ret'[User] = ret[User]
      /\ x'[User] = ptr /\ pc'[User] = "send"
      /\ User \notin readers /\ readers' = readers \cup {User} /\ writers = {} /\ writers' = {}
      /\ UNCHANGED <<kind, ptr, reconnect, use, made, open, refs, deleted, io,
           timers, noSocket, leaked, shutdown, stray>>
  BY Kinds, ReadLockEffect DEF IInv, Moves, Calls
<1>2. Placed(User) /\ x[User] \in made \cup {None} /\ old[User] \in made \cup {None}
  BY <1>1 DEF IInv, PlaceInv, Typing, Locals
<1>3. NoRole(User) /\ NoRole(User)'
  BY <1>1, <1>2, Kinds
     DEF Placed, Places, ClosingPCs, CloserRets, Makers, NoRole, Carries, Shut, Making, Fresh,
         Unread, Apart, Dropping, Locked, Initializes, FailsToRead, Moves, Calls
<1>4. \A u \in Threads : u # User =>
        /\ pc'[u] = pc[u] /\ x'[u] = x[u] /\ old'[u] = old[u] /\ ret'[u] = ret[u]
        /\ (Carries(u)' <=> Carries(u)) /\ (Shut(u)' <=> Shut(u)) /\ (Making(u)' <=> Making(u))
        /\ (Fresh(u)' <=> Fresh(u)) /\ (Unread(u)' <=> Unread(u)) /\ (Apart(u)' <=> Apart(u))
        /\ (Dropping(u)' <=> Dropping(u)) /\ (Locked(u)' <=> Locked(u))
        /\ (Initializes(u)' <=> Initializes(u)) /\ (FailsToRead(u)' <=> FailsToRead(u))
  BY <1>1, OthersKeep
<1>5. PlaceInv'
  <2>1. Placed(User)'
    BY <1>1, <1>2, Kinds, NoneApart
       DEF IInv, Typing, Values, Placed, Places, ClosingPCs, CloserRets, Moves, Calls
  <2>2. MainInv'
    BY <1>1, <1>2, <1>4, Kinds
       DEF IInv, Typing, Values, PlaceInv, MainInv, Placed, Places, CloserRets, ClosingPCs,
           Moves, Calls
  <2> QED
    BY <1>1, <2>1, <2>2, PlaceStep
<1>6. ChainInv'
  BY <1>1, <1>2, <1>3, Kinds, ChainStep DEF NoRole, Moves, Calls, IInv, Typing, Values, Carries
<1>7. LockInv'
  <2>1. \A u \in Threads : ~Locked(u) /\ ~(u = Listener /\ pc[u] # "idle")
    BY <1>1 DEF IInv, LockInv
  <2>2. \A u \in Threads : ~Locked(u)' /\ ~(u = Listener /\ pc'[u] # "idle")
    BY <1>1, <1>3, <1>4, <2>1, Kinds DEF NoRole
  <2>3. readers' = {User} /\ kind # "wanted"
    BY <1>1 DEF IInv, LockInv, PlaceInv, MainInv
  <2> QED
    BY <1>1, <2>2, <2>3 DEF IInv, LockInv
<1>8. PtrInv'
  <2>1. x'[User] = ptr' /\ ptr' # None
    BY <1>1 DEF IInv, PlaceInv, MainInv
  <2>2. \A u \in Threads : u # User => pc'[u] = pc[u] /\ x'[u] = x[u] /\ (Locked(u)' <=> Locked(u))
    BY <1>4
  <2> QED
    BY <1>1, <2>1, <2>2, Kinds DEF IInv, PtrInv
<1>9. OwnInv'
  BY <1>1, <1>2, <1>3, Kinds, OwnStep DEF NoRole, Moves, Calls
<1>10. ReadInv'
  BY <1>1, <1>2, <1>3, Kinds, ReadStep DEF NoRole, Moves, Calls
<1>11. RoleInv'
  BY <1>1, <1>2, <1>3, Kinds, RoleStep DEF NoRole, Moves, Calls
<1>12. \A o : Wanted(o)' <=> Wanted(o)
  BY <1>1, <1>2, <1>3, Kinds, WantedStep DEF NoRole, Moves, Calls
<1>13. \A o : Closed(o)' <=> Closed(o)
  BY <1>1, <1>2, <1>3, Kinds, ClosedStep DEF NoRole, Moves, Calls
<1>14. \A o : Initial(o)' <=> Initial(o)
  BY <1>1, <1>2, <1>3, Kinds, InitialStep DEF NoRole, Moves, Calls
<1>15. \A o : ReadBy(o)' <=> ReadBy(o)
  BY <1>1, <1>2, <1>3, Kinds, ReadByStep DEF NoRole, Moves, Calls
<1>16. \A o : Sending(o)' <=> Sending(o)
  BY <1>1, <1>2, <1>3, Kinds, SendingStep DEF NoRole, Moves, Calls
<1>17. \A p \in made : Holders(p)' = Holders(p)
  BY <1>1, <1>12, <1>13, <1>14, <1>15, <1>16 DEF Holders, B2N
<1>18. RefInv'
  BY <1>1, <1>4, <1>17, Kinds, RefKept DEF IInv, RefInv, Moves, Calls
<1>19. UnlockedUse' /\ StrayOK'
  BY <1>1 DEF UnlockedUse, StrayOK
<1>20. Values'
  BY <1>1, <1>2, <1>3, <1>19, ValueStep, InHand, Kinds DEF IInv, Typing, Values, Moves, Calls
<1>21. PointerIsLive'
  BY <1>1, <1>19, <1>20, <1>18, PointerStep DEF IInv
<1> QED
  BY <1>5, <1>6, <1>7, <1>8, <1>9, <1>10, <1>11, <1>18, <1>19, <1>20, <1>21 DEF IKept

LEMMA SendKeeps ==
  ASSUME IInv, Send
  PROVE  IKept
<1>1. /\ stray = {} /\ pc[User] = "send" /\ User \in Threads /\ Others(User)
      /\ Moves(User, "sent") /\ AddRef(User, x[User], 1)
      /\ UNCHANGED <<kind, ptr, reconnect, use, readers, writers, made, open, io,
           timers, noSocket, leaked, shutdown>>
  BY Kinds, SendEffect DEF IInv, Moves, Calls
<1>2. Placed(User) /\ x[User] \in made \cup {None} /\ old[User] \in made \cup {None}
  BY <1>1 DEF IInv, PlaceInv, Typing, Locals
<1>3. NoRole(User) /\ NoRole(User)'
  BY <1>1, <1>2, Kinds
     DEF Placed, Places, ClosingPCs, CloserRets, Makers, NoRole, Carries, Shut, Making, Fresh,
         Unread, Apart, Dropping, Locked, Initializes, FailsToRead, Moves, Calls
<1>4. \A u \in Threads : u # User =>
        /\ pc'[u] = pc[u] /\ x'[u] = x[u] /\ old'[u] = old[u] /\ ret'[u] = ret[u]
        /\ (Carries(u)' <=> Carries(u)) /\ (Shut(u)' <=> Shut(u)) /\ (Making(u)' <=> Making(u))
        /\ (Fresh(u)' <=> Fresh(u)) /\ (Unread(u)' <=> Unread(u)) /\ (Apart(u)' <=> Apart(u))
        /\ (Dropping(u)' <=> Dropping(u)) /\ (Locked(u)' <=> Locked(u))
        /\ (Initializes(u)' <=> Initializes(u)) /\ (FailsToRead(u)' <=> FailsToRead(u))
  BY <1>1, OthersKeep
<1>5. PlaceInv'
  <2>1. Placed(User)'
    BY <1>1, <1>2, Kinds, NoneApart
       DEF IInv, Typing, Values, Placed, Places, ClosingPCs, CloserRets, Moves, Calls
  <2>2. MainInv'
    BY <1>1, <1>2, <1>4, Kinds
       DEF IInv, Typing, Values, PlaceInv, MainInv, Placed, Places, CloserRets, ClosingPCs,
           Moves, Calls
  <2> QED
    BY <1>1, <2>1, <2>2, PlaceStep
<1>6. ChainInv'
  BY <1>1, <1>2, <1>3, Kinds, ChainStep DEF NoRole, Moves, Calls, IInv, Typing, Values, Carries
<1>7. LockInv'
  BY <1>1, <1>2, <1>3, Kinds, LockStep DEF NoRole, Moves, Calls, IInv, Reads
<1>8. PtrInv'
  BY <1>1, <1>2, <1>3, Kinds, PtrStep DEF NoRole, Moves, Calls
<1>9. OwnInv'
  BY <1>1, <1>2, <1>3, Kinds, OwnStep DEF NoRole, Moves, Calls
<1>10. ReadInv'
  BY <1>1, <1>2, <1>3, Kinds, ReadStep DEF NoRole, Moves, Calls
<1>11. RoleInv'
  BY <1>1, <1>2, <1>3, Kinds, RoleStep DEF NoRole, Moves, Calls
<1>12. \A o : Wanted(o)' <=> Wanted(o)
  BY <1>1, <1>2, <1>3, Kinds, WantedStep DEF NoRole, Moves, Calls
<1>13. \A o : Closed(o)' <=> Closed(o)
  BY <1>1, <1>2, <1>3, Kinds, ClosedStep DEF NoRole, Moves, Calls
<1>14. \A o : Initial(o)' <=> Initial(o)
  BY <1>1, <1>2, <1>3, Kinds, InitialStep DEF NoRole, Moves, Calls
<1>15. \A o : ReadBy(o)' <=> ReadBy(o)
  BY <1>1, <1>2, <1>3, Kinds, ReadByStep DEF NoRole, Moves, Calls
<1>16. /\ \A o : Sending(o)' <=> Sending(o) \/ o = x[User]
       /\ ~Sending(x[User])
  BY <1>1, <1>2, <1>3, <1>4, Kinds DEF IInv, Sending, Moves, Calls
<1>17. \A p \in made : Holders(p)' = Holders(p) + (IF p = x[User] THEN 1 ELSE 0)
  BY <1>1, <1>12, <1>13, <1>14, <1>15, <1>16 DEF Holders, B2N
<1>18. pc'[Listener] # "idle" => pc[Listener] # "idle"
  BY <1>1, <1>4, Kinds
<1>19. RefInv'
  BY <1>1, <1>2, <1>17, <1>18, RefTaken
<1>20. (x[User] \in made /\ Holders(x[User]) > 0) \/ (kind = "wanted" /\ x[User] \notin leaked)
  BY <1>1, <1>2, HoldersPositive, NoneApart DEF IInv, PtrInv, Typing, Values, Wanted
<1>21. /\ UnlockedUse' /\ StrayOK'
       /\ stray' = {} \/ UNCHANGED deleted
  BY <1>1, <1>2, <1>20, NoStray
<1>22. Values'
  <2>1. refs' \in [Socks -> Nat] /\ deleted' \subseteq made
    BY <1>1, <1>2, RefTypes DEF IInv, RefInv
  <2> QED
    BY <1>1, <1>2, <1>20, <1>21, <2>1, ValueStep DEF IInv, Typing, Values, Placed
<1>23. PointerIsLive'
  BY <1>1, <1>21, <1>22, <1>19, PointerStep DEF IInv
<1> QED
  BY <1>5, <1>6, <1>7, <1>8, <1>9, <1>10, <1>11, <1>19, <1>21, <1>22, <1>23 DEF IKept

LEMMA EndSendKeeps ==
  ASSUME IInv, EndSend
  PROVE  IKept
<1>1. /\ stray = {} /\ pc[User] = "sent" /\ User \in Threads /\ Others(User)
      /\ Moves(User, IF kind = "wanted" THEN "idle" ELSE "runlock") /\ ReleaseRef(User, x[User])
      /\ UNCHANGED <<kind, ptr, reconnect, use, readers, writers, made, open, io,
           timers, noSocket, leaked, shutdown>>
  BY Kinds, EndSendEffect DEF IInv, Moves, Calls
<1>2. Placed(User) /\ x[User] \in made \cup {None} /\ old[User] \in made \cup {None}
  BY <1>1 DEF IInv, PlaceInv, Typing, Locals
<1>3. NoRole(User) /\ NoRole(User)'
  BY <1>1, <1>2, Kinds
     DEF Placed, Places, ClosingPCs, CloserRets, Makers, NoRole, Carries, Shut, Making, Fresh,
         Unread, Apart, Dropping, Locked, Initializes, FailsToRead, Moves, Calls
<1>4. \A u \in Threads : u # User =>
        /\ pc'[u] = pc[u] /\ x'[u] = x[u] /\ old'[u] = old[u] /\ ret'[u] = ret[u]
        /\ (Carries(u)' <=> Carries(u)) /\ (Shut(u)' <=> Shut(u)) /\ (Making(u)' <=> Making(u))
        /\ (Fresh(u)' <=> Fresh(u)) /\ (Unread(u)' <=> Unread(u)) /\ (Apart(u)' <=> Apart(u))
        /\ (Dropping(u)' <=> Dropping(u)) /\ (Locked(u)' <=> Locked(u))
        /\ (Initializes(u)' <=> Initializes(u)) /\ (FailsToRead(u)' <=> FailsToRead(u))
  BY <1>1, OthersKeep
<1>5. PlaceInv'
  <2>1. Placed(User)'
    BY <1>1, <1>2, Kinds, NoneApart
       DEF IInv, Typing, Values, Placed, Places, ClosingPCs, CloserRets, Moves, Calls
  <2>2. MainInv'
    BY <1>1, <1>2, <1>4, Kinds
       DEF IInv, Typing, Values, PlaceInv, MainInv, Placed, Places, CloserRets, ClosingPCs,
           Moves, Calls
  <2> QED
    BY <1>1, <2>1, <2>2, PlaceStep
<1>6. ChainInv'
  BY <1>1, <1>2, <1>3, Kinds, ChainStep DEF NoRole, Moves, Calls, IInv, Typing, Values, Carries
<1>7. LockInv'
  BY <1>1, <1>2, <1>3, Kinds, LockStep DEF NoRole, Moves, Calls, IInv, Reads
<1>8. PtrInv'
  BY <1>1, <1>2, <1>3, Kinds, PtrStep DEF NoRole, Moves, Calls
<1>9. OwnInv'
  BY <1>1, <1>2, <1>3, Kinds, OwnStep DEF NoRole, Moves, Calls
<1>10. ReadInv'
  BY <1>1, <1>2, <1>3, Kinds, ReadStep DEF NoRole, Moves, Calls
<1>11. RoleInv'
  BY <1>1, <1>2, <1>3, Kinds, RoleStep DEF NoRole, Moves, Calls
<1>12. \A o : Wanted(o)' <=> Wanted(o)
  BY <1>1, <1>2, <1>3, Kinds, WantedStep DEF NoRole, Moves, Calls
<1>13. \A o : Closed(o)' <=> Closed(o)
  BY <1>1, <1>2, <1>3, Kinds, ClosedStep DEF NoRole, Moves, Calls
<1>14. \A o : Initial(o)' <=> Initial(o)
  BY <1>1, <1>2, <1>3, Kinds, InitialStep DEF NoRole, Moves, Calls
<1>15. \A o : ReadBy(o)' <=> ReadBy(o)
  BY <1>1, <1>2, <1>3, Kinds, ReadByStep DEF NoRole, Moves, Calls
<1>16. /\ \A o : Sending(o)' <=> Sending(o) /\ o # x[User]
       /\ Sending(x[User])
  BY <1>1, <1>2, <1>3, <1>4, Kinds DEF IInv, Sending, Moves, Calls
<1>17. \A p \in made : Holders(p)' = Holders(p) - (IF p = x[User] THEN 1 ELSE 0)
  BY <1>1, <1>12, <1>13, <1>14, <1>15, <1>16 DEF Holders, B2N
<1>18. pc'[Listener] # "idle" => pc[Listener] # "idle"
  BY <1>1, <1>4, Kinds
<1>19. RefInv'
  <2>1. \A p \in made : Holders(p)' >= Holders(p) - (IF p = x[User] THEN 1 ELSE 0)
    BY <1>17, HoldersNat
  <2> QED
    BY <1>1, <1>2, <1>17, <1>18, <2>1, RefGiven
<1>20. (x[User] \in made /\ Holders(x[User]) > 0) \/ (kind = "wanted" /\ x[User] \notin leaked)
  BY <1>1, <1>2, HoldersPositive, NoneApart DEF IInv, PtrInv, Typing, Values, Sending
<1>21. /\ UnlockedUse' /\ StrayOK'
       /\ stray' = {} \/ UNCHANGED deleted
  BY <1>1, <1>2, <1>20, NoStray
<1>22. Values'
  <2>1. refs' \in [Socks -> Nat] /\ deleted' \subseteq made
    BY <1>1, <1>2, RefTypes DEF IInv, RefInv
  <2> QED
    BY <1>1, <1>2, <1>20, <1>21, <2>1, ValueStep DEF IInv, Typing, Values, Placed
<1>23. PointerIsLive'
  BY <1>1, <1>21, <1>22, <1>19, PointerStep DEF IInv
<1> QED
  BY <1>5, <1>6, <1>7, <1>8, <1>9, <1>10, <1>11, <1>19, <1>21, <1>22, <1>23 DEF IKept

LEMMA ReadUnlockKeeps ==
  ASSUME IInv, ReadUnlock
  PROVE  IKept
<1>1. /\ stray = {} /\ pc[User] = "runlock" /\ User \in Threads /\ Others(User)
      /\ Moves(User, "idle")
      /\ readers' = readers \ {User}
      /\ UNCHANGED <<kind, ptr, reconnect, use, writers, made, open, refs, deleted,
           io, timers, noSocket, leaked, shutdown, stray>>
  BY Kinds, ReadUnlockEffect DEF IInv, Moves, Calls
<1>2. Placed(User) /\ x[User] \in made \cup {None} /\ old[User] \in made \cup {None}
  BY <1>1 DEF IInv, PlaceInv, Typing, Locals
<1>3. NoRole(User) /\ NoRole(User)'
  BY <1>1, <1>2, Kinds
     DEF Placed, Places, ClosingPCs, CloserRets, Makers, NoRole, Carries, Shut, Making, Fresh,
         Unread, Apart, Dropping, Locked, Initializes, FailsToRead, Moves, Calls
<1>4. \A u \in Threads : u # User =>
        /\ pc'[u] = pc[u] /\ x'[u] = x[u] /\ old'[u] = old[u] /\ ret'[u] = ret[u]
        /\ (Carries(u)' <=> Carries(u)) /\ (Shut(u)' <=> Shut(u)) /\ (Making(u)' <=> Making(u))
        /\ (Fresh(u)' <=> Fresh(u)) /\ (Unread(u)' <=> Unread(u)) /\ (Apart(u)' <=> Apart(u))
        /\ (Dropping(u)' <=> Dropping(u)) /\ (Locked(u)' <=> Locked(u))
        /\ (Initializes(u)' <=> Initializes(u)) /\ (FailsToRead(u)' <=> FailsToRead(u))
  BY <1>1, OthersKeep
<1>5. PlaceInv'
  <2>1. Placed(User)'
    BY <1>1, <1>2, Kinds, NoneApart
       DEF IInv, Typing, Values, Placed, Places, ClosingPCs, CloserRets, Moves, Calls
  <2>2. MainInv'
    BY <1>1, <1>2, <1>4, Kinds
       DEF IInv, Typing, Values, PlaceInv, MainInv, Placed, Places, CloserRets, ClosingPCs,
           Moves, Calls
  <2> QED
    BY <1>1, <2>1, <2>2, PlaceStep
<1>6. ChainInv'
  BY <1>1, <1>2, <1>3, Kinds, ChainStep DEF NoRole, Moves, Calls, IInv, Typing, Values, Carries
<1>7. LockInv'
  BY <1>1, <1>2, <1>3, <1>4, Kinds DEF IInv, LockInv, Moves, Calls, NoRole
<1>8. PtrInv'
  BY <1>1, <1>2, <1>3, Kinds, PtrStep DEF NoRole, Moves, Calls
<1>9. OwnInv'
  BY <1>1, <1>2, <1>3, Kinds, OwnStep DEF NoRole, Moves, Calls
<1>10. ReadInv'
  BY <1>1, <1>2, <1>3, Kinds, ReadStep DEF NoRole, Moves, Calls
<1>11. RoleInv'
  BY <1>1, <1>2, <1>3, Kinds, RoleStep DEF NoRole, Moves, Calls
<1>12. \A o : Wanted(o)' <=> Wanted(o)
  BY <1>1, <1>2, <1>3, Kinds, WantedStep DEF NoRole, Moves, Calls
<1>13. \A o : Closed(o)' <=> Closed(o)
  BY <1>1, <1>2, <1>3, Kinds, ClosedStep DEF NoRole, Moves, Calls
<1>14. \A o : Initial(o)' <=> Initial(o)
  BY <1>1, <1>2, <1>3, Kinds, InitialStep DEF NoRole, Moves, Calls
<1>15. \A o : ReadBy(o)' <=> ReadBy(o)
  BY <1>1, <1>2, <1>3, Kinds, ReadByStep DEF NoRole, Moves, Calls
<1>16. \A o : Sending(o)' <=> Sending(o)
  BY <1>1, <1>2, <1>3, Kinds, SendingStep DEF NoRole, Moves, Calls
<1>17. \A p \in made : Holders(p)' = Holders(p)
  BY <1>1, <1>12, <1>13, <1>14, <1>15, <1>16 DEF Holders, B2N
<1>18. RefInv'
  BY <1>1, <1>4, <1>17, Kinds, RefKept DEF IInv, RefInv, Moves, Calls
<1>19. UnlockedUse' /\ StrayOK'
  BY <1>1 DEF UnlockedUse, StrayOK
<1>20. Values'
  BY <1>1, <1>2, <1>3, <1>19, ValueStep, InHand, Kinds DEF IInv, Typing, Values, Moves, Calls
<1>21. PointerIsLive'
  BY <1>1, <1>19, <1>20, <1>18, PointerStep DEF IInv
<1> QED
  BY <1>5, <1>6, <1>7, <1>8, <1>9, <1>10, <1>11, <1>18, <1>19, <1>20, <1>21 DEF IKept

LEMMA ShutdownKeeps ==
  ASSUME IInv, Shutdown
  PROVE  IKept
<1>1. /\ stray = {} /\ pc[Listener] = "idle" /\ Listener \in Threads /\ Others(Listener)
      /\ Others(Listener) /\ old'[Listener] = old[Listener] /\ ret'[Listener] = ret[Listener]
      /\ x'[Listener] = ptr /\ pc'[Listener] = "end"
      /\ ptr # None /\ pc[Main] = "idle" /\ shutdown' = TRUE
      /\ readers = {} /\ readers' = {} /\ writers = {} /\ writers' = {Listener}
      /\ UNCHANGED <<kind, ptr, reconnect, use, made, open, refs, deleted, io,
           timers, noSocket, leaked, stray>>
  BY Kinds, ShutdownEffect DEF IInv, Moves, Calls
<1>2. Placed(Listener) /\ x[Listener] \in made \cup {None} /\ old[Listener] \in made \cup {None}
  BY <1>1 DEF IInv, PlaceInv, Typing, Locals
<1>3. NoRole(Listener) /\ NoRole(Listener)'
  BY <1>1, <1>2, Kinds
     DEF Placed, Places, ClosingPCs, CloserRets, Makers, NoRole, Carries, Shut, Making, Fresh,
         Unread, Apart, Dropping, Locked, Initializes, FailsToRead, Moves, Calls
<1>4. \A u \in Threads : u # Listener =>
        /\ pc'[u] = pc[u] /\ x'[u] = x[u] /\ old'[u] = old[u] /\ ret'[u] = ret[u]
        /\ (Carries(u)' <=> Carries(u)) /\ (Shut(u)' <=> Shut(u)) /\ (Making(u)' <=> Making(u))
        /\ (Fresh(u)' <=> Fresh(u)) /\ (Unread(u)' <=> Unread(u)) /\ (Apart(u)' <=> Apart(u))
        /\ (Dropping(u)' <=> Dropping(u)) /\ (Locked(u)' <=> Locked(u))
        /\ (Initializes(u)' <=> Initializes(u)) /\ (FailsToRead(u)' <=> FailsToRead(u))
  BY <1>1, OthersKeep
<1>5. PlaceInv'
  <2>1. Placed(Listener)'
    BY <1>1, <1>2, Kinds, NoneApart
       DEF IInv, Typing, Values, Placed, Places, ClosingPCs, CloserRets, Moves, Calls
  <2>2. MainInv'
    BY <1>1, <1>2, <1>4, Kinds
       DEF IInv, Typing, Values, PlaceInv, MainInv, Placed, Places, CloserRets, ClosingPCs,
           Moves, Calls
  <2> QED
    BY <1>1, <2>1, <2>2, PlaceStep
<1>6. ChainInv'
  BY <1>1, <1>2, <1>3, Kinds, ChainStep DEF NoRole, Moves, Calls, IInv, Typing, Values, Carries
<1>7. LockInv'
  <2>1. \A u \in Threads : ~Locked(u)
    BY <1>1 DEF IInv, LockInv
  <2>2. \A u \in Threads : ~Locked(u)'
    BY <1>3, <1>4, <2>1 DEF NoRole
  <2>3. pc'[User] = pc[User]
    BY <1>4, Kinds
  <2> QED
    BY <1>1, <2>2, <2>3 DEF IInv, LockInv
<1>8. PtrInv'
  <2>1. x'[Listener] = ptr'
    BY <1>1
  <2>2. \A u \in Timers : pc'[u] = pc[u] /\ x'[u] = x[u] /\ (Locked(u)' <=> Locked(u))
    BY <1>4, Kinds
  <2>3. pc'[User] = pc[User] /\ x'[User] = x[User]
    BY <1>4, Kinds
  <2> QED
    BY <1>1, <2>1, <2>2, <2>3 DEF IInv, PtrInv
<1>9. OwnInv'
  BY <1>1, <1>2, <1>3, Kinds, OwnStep DEF NoRole, Moves, Calls
<1>10. ReadInv'
  BY <1>1, <1>2, <1>3, Kinds, ReadStep DEF NoRole, Moves, Calls
<1>11. RoleInv'
  BY <1>1, <1>2, <1>3, Kinds, RoleStep DEF NoRole, Moves, Calls
<1>12. \A o : Wanted(o)' <=> Wanted(o)
  BY <1>1, <1>2, <1>3, Kinds, WantedStep DEF NoRole, Moves, Calls
<1>13. \A o : Closed(o)' <=> Closed(o)
  BY <1>1, <1>2, <1>3, Kinds, ClosedStep DEF NoRole, Moves, Calls
<1>14. \A o : Initial(o)' <=> Initial(o)
  BY <1>1, <1>2, <1>3, Kinds, InitialStep DEF NoRole, Moves, Calls
<1>15. \A o : ReadBy(o)' <=> ReadBy(o)
  BY <1>1, <1>2, <1>3, Kinds, ReadByStep DEF NoRole, Moves, Calls
<1>16. \A o : Sending(o)' <=> Sending(o)
  BY <1>1, <1>2, <1>3, Kinds, SendingStep DEF NoRole, Moves, Calls
<1>17. \A p \in made : Holders(p)' = Holders(p)
  BY <1>1, <1>12, <1>13, <1>14, <1>15, <1>16 DEF Holders, B2N
<1>18. RefInv'
  BY <1>1, <1>4, <1>17, Kinds, RefKept DEF IInv, RefInv, Moves, Calls
<1>19. UnlockedUse' /\ StrayOK'
  BY <1>1 DEF UnlockedUse, StrayOK
<1>20. Values'
  BY <1>1, <1>2, <1>3, <1>19, ValueStep, InHand, Kinds DEF IInv, Typing, Values, Moves, Calls
<1>21. PointerIsLive'
  BY <1>1, <1>19, <1>20, <1>18, PointerStep DEF IInv
<1> QED
  BY <1>5, <1>6, <1>7, <1>8, <1>9, <1>10, <1>11, <1>18, <1>19, <1>20, <1>21 DEF IKept

LEMMA EndConnectionKeeps ==
  ASSUME IInv, EndConnection
  PROVE  IKept
<1>1. /\ stray = {} /\ pc[Listener] = "end" /\ Listener \in Threads /\ Others(Listener)
      /\ \/ Moves(Listener, "release")
         \/ Calls(Listener, "release")
      /\ UNCHANGED <<kind, ptr, reconnect, use, readers, writers, made, open, refs,
           deleted, io, timers, noSocket, leaked, shutdown, stray>>
  BY Kinds, EndConnectionEffect DEF IInv, Moves, Calls
<1>2. Placed(Listener) /\ x[Listener] \in made \cup {None} /\ old[Listener] \in made \cup {None}
  BY <1>1 DEF IInv, PlaceInv, Typing, Locals
<1>3. NoRole(Listener) /\ NoRole(Listener)'
  BY <1>1, <1>2, Kinds
     DEF Placed, Places, ClosingPCs, CloserRets, Makers, NoRole, Carries, Shut, Making, Fresh,
         Unread, Apart, Dropping, Locked, Initializes, FailsToRead, Moves, Calls
<1>4. \A u \in Threads : u # Listener =>
        /\ pc'[u] = pc[u] /\ x'[u] = x[u] /\ old'[u] = old[u] /\ ret'[u] = ret[u]
        /\ (Carries(u)' <=> Carries(u)) /\ (Shut(u)' <=> Shut(u)) /\ (Making(u)' <=> Making(u))
        /\ (Fresh(u)' <=> Fresh(u)) /\ (Unread(u)' <=> Unread(u)) /\ (Apart(u)' <=> Apart(u))
        /\ (Dropping(u)' <=> Dropping(u)) /\ (Locked(u)' <=> Locked(u))
        /\ (Initializes(u)' <=> Initializes(u)) /\ (FailsToRead(u)' <=> FailsToRead(u))
  BY <1>1, OthersKeep
<1>5. \A u \in Makers : Fresh(u) => x[u] # x[Listener]
  <2>1. x[Listener] = ptr /\ Listener \in writers /\ pc[Main] = "idle"
    BY <1>1, Kinds DEF IInv, PtrInv, LockInv, PlaceInv, MainInv
  <2>2. \A u \in Timers : ~Locked(u)
    BY <2>1, Kinds DEF IInv, LockInv
  <2>3. \A u \in Makers : Fresh(u) => u \in Timers /\ Apart(u)
    BY <2>1, <2>2, Kinds DEF Makers, Fresh, Locked, Apart
  <2> QED
    BY <2>1, <2>3 DEF IInv, RoleInv, ApartInv
<1>6. PlaceInv'
  <2>1. Placed(Listener)'
    BY <1>1, <1>2, Kinds, NoneApart
       DEF IInv, Typing, Values, Placed, Places, ClosingPCs, CloserRets, Moves, Calls
  <2>2. MainInv'
    BY <1>1, <1>2, <1>4, Kinds
       DEF IInv, Typing, Values, PlaceInv, MainInv, Placed, Places, CloserRets, ClosingPCs,
           Moves, Calls
  <2> QED
    BY <1>1, <2>1, <2>2, PlaceStep
<1>7. ChainInv'
  BY <1>1, <1>2, <1>3, Kinds, ChainStep DEF NoRole, Moves, Calls, IInv, Typing, Values, Carries
<1>8. LockInv'
  BY <1>1, <1>2, <1>3, Kinds, LockStep DEF NoRole, Moves, Calls, IInv, Reads
<1>9. PtrInv'
  BY <1>1, <1>2, <1>3, Kinds, PtrStep DEF NoRole, Moves, Calls
<1>10. OwnInv'
  BY <1>1, <1>2, <1>3, Kinds, <1>5, Kinds, OwnStep DEF NoRole, Moves, Calls
<1>11. ReadInv'
  BY <1>1, <1>2, <1>3, Kinds, ReadStep DEF NoRole, Moves, Calls
<1>12. RoleInv'
  BY <1>1, <1>2, <1>3, Kinds, RoleStep DEF NoRole, Moves, Calls
<1>13. \A o : Wanted(o)' <=> Wanted(o)
  BY <1>1, <1>2, <1>3, Kinds, WantedStep DEF NoRole, Moves, Calls
<1>14. \A o : Closed(o)' <=> Closed(o)
  BY <1>1, <1>2, <1>3, Kinds, ClosedStep DEF NoRole, Moves, Calls
<1>15. \A o : Initial(o)' <=> Initial(o)
  BY <1>1, <1>2, <1>3, Kinds, InitialStep DEF NoRole, Moves, Calls
<1>16. \A o : ReadBy(o)' <=> ReadBy(o)
  BY <1>1, <1>2, <1>3, Kinds, ReadByStep DEF NoRole, Moves, Calls
<1>17. \A o : Sending(o)' <=> Sending(o)
  BY <1>1, <1>2, <1>3, Kinds, SendingStep DEF NoRole, Moves, Calls
<1>18. \A p \in made : Holders(p)' = Holders(p)
  BY <1>1, <1>13, <1>14, <1>15, <1>16, <1>17 DEF Holders, B2N
<1>19. RefInv'
  BY <1>1, <1>4, <1>18, Kinds, RefKept DEF IInv, RefInv, Moves, Calls
<1>20. UnlockedUse' /\ StrayOK'
  BY <1>1 DEF UnlockedUse, StrayOK
<1>21. Values'
  BY <1>1, <1>2, <1>3, <1>20, ValueStep, InHand, Kinds DEF IInv, Typing, Values, Moves, Calls
<1>22. PointerIsLive'
  BY <1>1, <1>20, <1>21, <1>19, PointerStep DEF IInv
<1> QED
  BY <1>6, <1>7, <1>8, <1>9, <1>10, <1>11, <1>12, <1>19, <1>20, <1>21, <1>22 DEF IKept

LEMMA ReleasePointerKeeps ==
  ASSUME IInv, ReleasePointer
  PROVE  IKept
<1>1. /\ stray = {} /\ pc[Listener] = "release" /\ Listener \in Threads /\ Others(Listener)
      /\ Moves(Listener, "idle") /\ ReleaseRef(Listener, x[Listener])
      /\ writers' = writers \ {Listener}
      /\ UNCHANGED <<kind, ptr, reconnect, use, readers, made, open, io, timers,
           noSocket, leaked, shutdown>>
  BY Kinds, ReleasePointerEffect DEF IInv, Moves, Calls
<1>2. Placed(Listener) /\ x[Listener] \in made \cup {None} /\ old[Listener] \in made \cup {None}
  BY <1>1 DEF IInv, PlaceInv, Typing, Locals
<1>3. NoRole(Listener) /\ NoRole(Listener)'
  BY <1>1, <1>2, Kinds
     DEF Placed, Places, ClosingPCs, CloserRets, Makers, NoRole, Carries, Shut, Making, Fresh,
         Unread, Apart, Dropping, Locked, Initializes, FailsToRead, Moves, Calls
<1>4. \A u \in Threads : u # Listener =>
        /\ pc'[u] = pc[u] /\ x'[u] = x[u] /\ old'[u] = old[u] /\ ret'[u] = ret[u]
        /\ (Carries(u)' <=> Carries(u)) /\ (Shut(u)' <=> Shut(u)) /\ (Making(u)' <=> Making(u))
        /\ (Fresh(u)' <=> Fresh(u)) /\ (Unread(u)' <=> Unread(u)) /\ (Apart(u)' <=> Apart(u))
        /\ (Dropping(u)' <=> Dropping(u)) /\ (Locked(u)' <=> Locked(u))
        /\ (Initializes(u)' <=> Initializes(u)) /\ (FailsToRead(u)' <=> FailsToRead(u))
  BY <1>1, OthersKeep
<1>5. PlaceInv'
  <2>1. Placed(Listener)'
    BY <1>1, <1>2, Kinds, NoneApart
       DEF IInv, Typing, Values, Placed, Places, ClosingPCs, CloserRets, Moves, Calls
  <2>2. MainInv'
    BY <1>1, <1>2, <1>4, Kinds
       DEF IInv, Typing, Values, PlaceInv, MainInv, Placed, Places, CloserRets, ClosingPCs,
           Moves, Calls
  <2> QED
    BY <1>1, <2>1, <2>2, PlaceStep
<1>6. ChainInv'
  BY <1>1, <1>2, <1>3, Kinds, ChainStep DEF NoRole, Moves, Calls, IInv, Typing, Values, Carries
<1>7. LockInv'
  BY <1>1, <1>2, <1>3, <1>4, Kinds DEF IInv, LockInv, Moves, Calls, NoRole
<1>8. PtrInv'
  BY <1>1, <1>2, <1>3, Kinds, PtrStep DEF NoRole, Moves, Calls
<1>9. OwnInv'
  BY <1>1, <1>2, <1>3, Kinds, OwnStep DEF NoRole, Moves, Calls
<1>10. ReadInv'
  BY <1>1, <1>2, <1>3, Kinds, ReadStep DEF NoRole, Moves, Calls
<1>11. RoleInv'
  BY <1>1, <1>2, <1>3, Kinds, RoleStep DEF NoRole, Moves, Calls
<1>12. \A o : Wanted(o)' <=> Wanted(o)
  BY <1>1, <1>2, <1>3, Kinds, WantedStep DEF NoRole, Moves, Calls
<1>13. \A o : Closed(o)' <=> Closed(o)
  BY <1>1, <1>2, <1>3, Kinds, ClosedStep DEF NoRole, Moves, Calls
<1>14. \A o : Initial(o)' <=> Initial(o)
  BY <1>1, <1>2, <1>3, Kinds, InitialStep DEF NoRole, Moves, Calls
<1>15. \A o : ReadBy(o)' <=> ReadBy(o)
  BY <1>1, <1>2, <1>3, Kinds, ReadByStep DEF NoRole, Moves, Calls
<1>16. \A o : Sending(o)' <=> Sending(o)
  BY <1>1, <1>2, <1>3, Kinds, SendingStep DEF NoRole, Moves, Calls
<1>17. \A p \in made : Holders(p)' = Holders(p)
  BY <1>1, <1>12, <1>13, <1>14, <1>15, <1>16 DEF Holders
<1>18. pc'[Listener] # "idle" => pc[Listener] # "idle"
  BY <1>1, <1>4, Kinds
<1>19. RefInv'
  <2>1. \A p \in made : Holders(p)' >= Holders(p) - (IF p = x[Listener] THEN 1 ELSE 0)
    BY <1>17, HoldersNat
  <2> QED
    BY <1>1, <1>2, <1>17, <1>18, <2>1, RefGiven DEF IInv, RefInv
<1>20. shutdown
  BY <1>1 DEF IInv, RefInv
<1>21. /\ UnlockedUse' /\ StrayOK'
       /\ stray' = {} \/ UNCHANGED deleted
  BY <1>1, <1>2, <1>20, NoStray
<1>22. Values'
  <2>1. refs' \in [Socks -> Nat] /\ deleted' \subseteq made
    BY <1>1, <1>2, RefTypes DEF IInv, RefInv
  <2> QED
    BY <1>1, <1>2, <1>20, <1>21, <2>1, ValueStep DEF IInv, Typing, Values, Placed
<1>23. PointerIsLive'
  BY <1>1, <1>21, <1>22, <1>19, PointerStep DEF IInv
<1> QED
  BY <1>5, <1>6, <1>7, <1>8, <1>9, <1>10, <1>11, <1>19, <1>21, <1>22, <1>23 DEF IKept

-----------------------------------------------------------------------------
(* The invariant *)

LEMMA InitInv == Init => IInv
<1> SUFFICES ASSUME Init PROVE IInv
  OBVIOUS
<1>1. /\ made = {} /\ open = {} /\ deleted = {} /\ io = {} /\ timers = {} /\ leaked = {}
      /\ ptr = None /\ ~noSocket /\ ~shutdown /\ stray = {} /\ ~reconnect /\ use \in BOOLEAN
      /\ noSocket \in BOOLEAN /\ shutdown \in BOOLEAN /\ reconnect \in BOOLEAN
      /\ kind \in {"log", "ip", "wanted"} /\ readers = {} /\ writers = {}
      /\ refs = [o \in Socks |-> 0]
  BY DEF Init, Lock!Init
<1>2. \A t \in Threads : pc[t] \in {"start", "idle"} /\ x[t] = None /\ (t # Main => pc[t] = "idle")
  BY DEF Init
<1>3. Latest = -1
  BY <1>1, FS_EmptySet DEF Latest
<1>4. Values
  BY <1>1, <1>3 DEF Values, StrayOK
<1>5. Locals
  BY <1>1 DEF Init, Locals, PCs
<1>6. \A t \in Threads : NoRole(t)
  <2> SUFFICES ASSUME NEW t \in Threads PROVE NoRole(t)
    OBVIOUS
  <2> QED
    BY <1>2, Kinds
       DEF NoRole, Carries, Shut, Making, Fresh, Unread, Apart, Dropping, Locked, Initializes,
                       FailsToRead, ClosingPCs, Makers
<1>7. PlaceInv
  <2>1. \A t \in Threads : Placed(t)
    BY <1>2, Kinds DEF Placed, Places, ClosingPCs
  <2>2. MainInv
    BY <1>1, <1>2, Kinds DEF MainInv
  <2> QED
    BY <2>1, <2>2 DEF PlaceInv
<1>8. ChainInv
  BY <1>1, <1>6 DEF ChainInv, AtLatest, OneCarrier, ChainGoesOn, ReconnectSet, NoRole
<1>9. LockInv
  BY <1>1, <1>2, <1>6, Kinds DEF LockInv, NoRole
<1>10. PtrInv
  BY <1>2, <1>6, Kinds DEF PtrInv, NoRole
<1>11. OwnInv /\ ReadInv /\ RoleInv
  BY <1>1, <1>2, <1>6, Kinds
     DEF OwnInv, ReadInv, RoleInv, OneMaker, FreshOpen, FreshAlone, OneCloser,
                 ShutClosed, UnreadInv, WorkerInv, NotLeaked, ApartInv, DropInv, OneDropper,
                 ApartDropped, NoRole
<1>12. RefInv /\ PointerIsLive /\ UnlockedUse
  BY <1>1, <1>2, Kinds DEF RefInv, PointerIsLive, UnlockedUse
<1> QED
  BY <1>4, <1>5, <1>7, <1>8, <1>9, <1>10, <1>11, <1>12 DEF IInv, Typing

LEMMA StutterInv == IInv /\ UNCHANGED vars => IInv'
<1> SUFFICES ASSUME IInv, UNCHANGED vars PROVE IInv'
  OBVIOUS
<1>1. UNCHANGED <<kind, ptr, reconnect, use, readers, writers, made, open, refs, deleted, io, timers,
                  pc, x, old, ret, noSocket, leaked, shutdown, stray>>
  BY DEF vars, flags, lock, objects, local, history
<1>2. Typing'
  BY <1>1 DEF IInv, Typing, Values, Locals, StrayOK, Latest
<1>3. PlaceInv'
  BY <1>1 DEF IInv, PlaceInv, Placed, Places, MainInv, CloserRets, ClosingPCs
<1>4. ChainInv'
  BY <1>1 DEF IInv, ChainInv, AtLatest, OneCarrier, ChainGoesOn, ReconnectSet, Carries, Latest
<1>5. LockInv' /\ PtrInv'
  BY <1>1 DEF IInv, LockInv, PtrInv, Locked, ClosingPCs
<1>6. OwnInv'
  BY <1>1
     DEF IInv, OwnInv, OneMaker, FreshOpen, FreshAlone, OneCloser, ShutClosed, Making, Fresh,
         Shut,
              Makers
<1>7. ReadInv'
  BY <1>1 DEF IInv, ReadInv, UnreadInv, WorkerInv, NotLeaked, Unread, Fresh, Makers, ClosingPCs
<1>8. RoleInv'
  BY <1>1
     DEF IInv, RoleInv, ApartInv, DropInv, OneDropper, ApartDropped, Apart, Dropping, ClosingPCs
<1>9. \A o : Holders(o)' = Holders(o)
  BY <1>1
     DEF Holders, B2N, Wanted, Closed, Initial, ReadBy, Sending, Apart, Dropping, Initializes,
              FailsToRead, Makers, ClosingPCs
<1>10. RefInv' /\ PointerIsLive' /\ UnlockedUse'
  BY <1>1, <1>9 DEF IInv, RefInv, PointerIsLive, UnlockedUse
<1> QED
  BY <1>2, <1>3, <1>4, <1>5, <1>6, <1>7, <1>8, <1>10 DEF IInv

LEMMA StepInv == IInv /\ Next => IKept
<1> SUFFICES ASSUME IInv, Next PROVE IKept
  OBVIOUS
<1>1. FirstConnect => IKept
  BY FirstConnectKeeps
<1>2. \A t \in Threads : ExchangeHandle(t) => IKept
  BY ExchangeHandleKeeps
<1>3. \A t \in Threads : OnClose(t) => IKept
  BY OnCloseKeeps
<1>4. \A t \in Threads : ArmTimer(t) => IKept
  BY ArmTimerKeeps
<1>5. \A t \in Threads : ReleaseSocket(t) => IKept
  BY ReleaseSocketKeeps
<1>6. \A t \in Timers : Fire(t) => IKept
  BY FireKeeps
<1>7. \A t \in Timers : Check(t) => IKept
  BY CheckKeeps
<1>8. \A t \in Timers : Connect(t) => IKept
  BY ConnectKeeps
<1>9. \A t \in Timers : ReleaseFailed(t) => IKept
  BY ReleaseFailedKeeps
<1>10. \A t \in Timers : WriteLock(t) => IKept
  BY WriteLockKeeps
<1>11. \A t \in Timers : Swap(t) => IKept
  BY SwapKeeps
<1>12. \A t \in Timers : SetFlags(t) => IKept
  BY SetFlagsKeeps
<1>13. \A t \in Timers : ReleaseOld(t) => IKept
  BY ReleaseOldKeeps
<1>14. \A t \in Timers : WriteUnlock(t) => IKept
  BY WriteUnlockKeeps
<1>15. \A t \in Threads : Initialize(t) => IKept
  BY InitializeKeeps
<1>16. \A t \in Threads : OnCreate(t) => IKept
  BY OnCreateKeeps
<1>17. \A t \in Threads : ReleaseRead(t) => IKept
  BY ReleaseReadKeeps
<1>18. \A t \in Threads : EndInitialize(t) => IKept
  BY EndInitializeKeeps
<1>19. ReadFails => IKept
  BY ReadFailsKeeps
<1>20. EndCallback => IKept
  BY EndCallbackKeeps
<1>21. StartSend => IKept
  BY StartSendKeeps
<1>22. ReadLock => IKept
  BY ReadLockKeeps
<1>23. Send => IKept
  BY SendKeeps
<1>24. EndSend => IKept
  BY EndSendKeeps
<1>25. ReadUnlock => IKept
  BY ReadUnlockKeeps
<1>26. Shutdown => IKept
  BY ShutdownKeeps
<1>27. EndConnection => IKept
  BY EndConnectionKeeps
<1>28. ReleasePointer => IKept
  BY ReleasePointerKeeps
<1> QED
  BY <1>1, <1>2, <1>3, <1>4, <1>5, <1>6, <1>7, <1>8, <1>9, <1>10, <1>11, <1>12,
     <1>13, <1>14, <1>15, <1>16, <1>17, <1>18, <1>19, <1>20, <1>21, <1>22, <1>23,
     <1>24, <1>25, <1>26, <1>27, <1>28
     DEF Next, Closing, Initializing, Reconnecting

\* The inductive invariant: where each thread is and what it has in hand, who carries the
\* chain of attempts, who has the lock, and one reference for each holder of an object.
THEOREM Invariant == Spec => []IInv
<1>1. IInv /\ [Next]_vars => IInv'
  <2> SUFFICES ASSUME IInv, [Next]_vars PROVE IInv'
    OBVIOUS
  <2>1. CASE Next
    <3>1. IKept
      BY <2>1, StepInv
    <3>2. Locals'
      BY <2>1, LocalTypes DEF IInv, Locals
    <3> QED
      BY <3>1, <3>2 DEF IKept, IInv, Typing
  <2>2. CASE UNCHANGED vars
    BY <2>2, StutterInv
  <2> QED
    BY <2>1, <2>2
<1> QED
  BY InitInv, <1>1, PTL DEF Spec

-----------------------------------------------------------------------------
(* The properties *)

\* The variables have their types; only routines and ListenThread write-lock.
THEOREM TypeCorrect == Spec => []TypeOK
<1>1. IInv => TypeOK
  <2> SUFFICES ASSUME IInv PROVE TypeOK
    OBVIOUS
  <2>1. writers \subseteq Timers \cup {Listener} /\ readers \subseteq {User}
    BY DEF IInv, LockInv, Locked
  <2>2. UNION {open, deleted, io, timers, leaked} \subseteq made
    BY DEF IInv, Typing, Values
  <2>3. stray \subseteq Threads \X (Socks \cup {None})
    BY DEF IInv, Typing, Values, StrayOK
  <2>4. x \in [Threads -> Socks \cup {None}] /\ old \in [Threads -> Socks \cup {None}]
    BY DEF IInv, Typing, Values, Locals
  <2> QED
    BY <2>1, <2>2, <2>3, <2>4 DEF IInv, Typing, Values, Locals, TypeOK
<1> QED
  BY Invariant, <1>1, PTL

\* Whichever thread closes a connection and wherever the timer routine is, exactly one
\* connection, timer, CloseSocket or routine will start the next attempt, or none when
\* socket() has failed: LogSocket.cpp, IPSocket.cpp and WantedSocket.cpp.
THEOREM ChainHolds == Spec => []RetryChain
<1>1. IInv => RetryChain
  <2> SUFFICES ASSUME IInv, made # {} PROVE Cardinality(Carriers) = IF noSocket THEN 0 ELSE 1
    BY DEF RetryChain
  <2>1. Carriers = open \cup timers \cup {x[t] : t \in {u \in Threads : Carries(u)}}
    BY Kinds DEF Carriers, Carries
  <2>2. CASE noSocket
    <3>1. Carriers = {}
      BY <2>1, <2>2 DEF IInv, ChainInv, ChainGoesOn
    <3> QED
      BY <2>2, <3>1, FS_EmptySet
  <2>3. CASE ~noSocket
    <3>1. Carriers \subseteq {Latest}
      BY <2>1 DEF IInv, ChainInv, AtLatest, OneCarrier
    <3>2. Carriers # {}
      BY <2>1, <2>3 DEF IInv, ChainInv, ChainGoesOn
    <3>3. Carriers = {Latest}
      BY <3>1, <3>2
    <3> QED
      BY <2>3, <3>3, FS_Singleton
  <2> QED
    BY <2>2, <2>3
<1> QED
  BY Invariant, <1>1, PTL

\* The global pointer leads to a live object until ListenThread ends the connection: the
\* routine swaps it for an object that has its constructor's reference, and the AddRef of
\* OnClose is what keeps a closed object for the pointer.
THEOREM PointerLives == Spec => []PointerIsLive
<1>1. IInv => PointerIsLive
  BY DEF IInv
<1> QED
  BY Invariant, <1>1, PTL

\* Until ListenThread ends the connection, NULL or a deleted object is used only by the
\* window, which takes no lock, and a deleted one only if its OnCreate never ran.
THEOREM OnlyUnlockedStrays == Spec => []UnlockedUse
<1>1. IInv => UnlockedUse
  BY DEF IInv
<1> QED
  BY Invariant, <1>1, PTL

\* An object that nobody can reach any more is deleted, but for the reference that
\* OnCreate takes, or that an Initialize takes whose handle the port refuses.
THEOREM LeaksKnown == Spec => []OnlyTheseLeak
<1>1. IInv => OnlyTheseLeak
  <2> SUFFICES ASSUME IInv, NEW o \in made, o \notin Known, o \notin leaked PROVE o \in deleted
    BY DEF OnlyTheseLeak
  <2>1. o # ptr /\ o \notin io /\ (\A t \in Threads : pc[t] # "idle" => x[t] # o)
        /\ (\A t \in Timers : pc[t] # "idle" => old[t] # o)
    BY DEF Known
  <2>2. \A t \in Threads : Apart(t) \/ Dropping(t) \/ Initializes(t) \/ FailsToRead(t) => pc[t] # "idle"
    BY DEF Apart, Dropping, Initializes, FailsToRead, ClosingPCs
  <2>3. ~Wanted(o) /\ ~Closed(o) /\ ~Initial(o) /\ ~Sending(o)
    BY <2>1, <2>2, Kinds DEF Wanted, Closed, Initial, Sending
  <2>4. ~ReadBy(o)
    BY <2>1, <2>2, Kinds DEF ReadBy
  <2>5. Holders(o) = 0
    BY <2>3, <2>4 DEF Holders, B2N
  <2>6. refs[o] \in Nat /\ refs[o] <= Holders(o)
    BY DEF IInv, RefInv, Typing, Values
  <2> QED
    BY <2>5, <2>6 DEF IInv, RefInv
<1> QED
  BY Invariant, <1>1, PTL
=============================================================================
