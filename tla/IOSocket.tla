------------------------------ MODULE IOSocket ------------------------------
(***************************************************************************)
(* One CIOSocket (IOSocket.cpp, IOObject.cpp): a reference counted object  *)
(* whose reads, writes and parsed packets complete on the threads of an    *)
(* I/O completion port.  The completions of one socket are taken by any    *)
(* worker, so a read callback, a write callback, the handlers of packets   *)
(* already parsed, and threads that found the socket in a list all run at  *)
(* once.  Every InterlockedXxx, every critical section and every call into *)
(* Winsock is one step; an AddRef is taken with the step of the same       *)
(* thread that precedes the call it protects.                              *)
(*                                                                         *)
(* The socket is a client connection (CSocketServerEx): it is in the map   *)
(* of CIOServerEx from its creation to OnClose, and whoever is not a       *)
(* callback of its own comes to it through that map.  The connections of   *)
(* world servers, whose list and map keep pointers without a reference,    *)
(* are in WorldReg.                                                        *)
(*                                                                         *)
(* A message is the number Write gave it; a buffer of the write queue is a *)
(* sequence of at most BufferSize messages.                                *)
(***************************************************************************)
EXTENDS Integers, FiniteSets, Sequences, SequencesExt

CONSTANTS
  Workers,     \* the threads that take the completions of this socket
  Others,      \* threads busy elsewhere: they create the socket, or find it in a list
  Packets,     \* CPacketServer objects: bounds the packets pending at once
  Buffers,     \* CIOBuffer objects a read can go into
  NoBuf,       \* no buffer
  NoPacket,    \* no packet
  BufferSize,  \* BUFFER_SIZE, in messages
  MaxWrites,   \* bound on the messages written
  MaxShort     \* bound on the writes that complete with a smaller count

ASSUME SocketAssumption ==
  /\ IsFiniteSet(Workers) /\ IsFiniteSet(Others) /\ Workers \cap Others = {}
  /\ IsFiniteSet(Packets)
  /\ Buffers # {} /\ NoBuf \notin Buffers /\ NoPacket \notin Packets
  /\ BufferSize \in Nat \ {0} /\ MaxWrites \in Nat /\ MaxShort \in Nat

VARIABLES
  hSocket,     \* m_hSocket # INVALID_SOCKET
  kernelOpen,  \* closesocket has not been called on the handle
  assoc,       \* the handle is associated with the completion port
  started,     \* Initialize: not called yet, called, or called on a deleted object
  listed,      \* CIOServerEx::FindSocket can return the socket
  refcount,    \* CIOObject::refcount
  deleted,     \* the destructor has run
  leaked,      \* Initialize returned without its ReleaseRef
  shorts,      \* writes that completed with a smaller count so far
  rd,          \* the overlapped read: where it stands
  wr,          \* the overlapped write: where it stands
  rbuf,        \* m_pReadBuf
  bref,        \* CIOBuffer::m_ref of every read buffer, 0 in the pool
  pktBuf,      \* CPacketServer::m_pBuf of the packets in use
  posted,      \* packets in the completion queue
  wq,          \* the queue m_pFirstBuf ... m_pLastBuf
  nPending,    \* m_nPendingWrite
  written,     \* messages accepted by Write so far, numbered from 1
  wire,        \* history: the messages handed to WSASend, in order
  sendFailed,  \* history: a WSASend failed
  pc, role, ret, pkt  \* per thread: control point, callback, where CloseSocket
                      \* returns to, and the packet it handles

handleVars == <<hSocket, kernelOpen, assoc, started, listed>>
refVars    == <<refcount, deleted, leaked, shorts>>
bufVars    == <<rbuf, bref, pktBuf, posted>>
queueVars  == <<wq, nPending, written, wire, sendFailed>>
ioVars     == <<rd, wr>>
threadVars == <<pc, role, ret, pkt>>
vars == <<handleVars, refVars, bufVars, queueVars, ioVars, threadVars>>

Threads == Workers \cup Others

Roles == {"none", "create", "read", "write", "packet", "user"}

PCs == { "idle",
         "assoc", "onread", "recv",             \* Initialize, OnRead, Read
         "wdone", "wshort",                     \* OnWriteCallback
         "body", "send",                        \* a handler; Write
         "close", "onclose", "closesocket", "relHandle",   \* CloseSocket
         "relIo", "relCb", "relBuf" }           \* the ReleaseRefs on the way out

Goto(t, label) == pc' = [pc EXCEPT ![t] = label]

\* a thread calls CloseSocket and will go on at control point `back'
CallClose(t, back) == Goto(t, "close") /\ ret' = [ret EXCEPT ![t] = back]

\* the callback returns to its thread
Finish(t) ==
  /\ Goto(t, "idle")
  /\ role' = [role EXCEPT ![t] = "none"]
  /\ ret' = [ret EXCEPT ![t] = "relCb"]

AddRef == refcount' = refcount + 1 /\ UNCHANGED <<deleted, leaked, shorts>>

(***************************************************************************)
(* InterlockedDecrement, and at zero `delete this': the destructor lets go *)
(* of the read buffer and of the write queue.                              *)
(***************************************************************************)
ReleaseRef ==
  /\ refcount' = refcount - 1
  /\ deleted' = (deleted \/ refcount' = 0)
  /\ IF refcount' = 0 /\ ~deleted
     THEN wq' = <<>> /\ bref' = [bref EXCEPT ![rbuf] = @ - 1]
     ELSE UNCHANGED <<wq, bref>>

Init ==
  \E b \in Buffers :
    /\ hSocket = TRUE /\ kernelOpen = TRUE /\ assoc = FALSE
    /\ started = "no" /\ listed = TRUE
    /\ refcount = 1 /\ deleted = FALSE /\ leaked = FALSE /\ shorts = 0
    /\ rd = "none" /\ wr = "none"
    /\ rbuf = b /\ bref = [x \in Buffers |-> IF x = b THEN 1 ELSE 0]
    /\ pktBuf = [p \in Packets |-> NoBuf] /\ posted = {}
    /\ wq = <<>> /\ nPending = 0 /\ written = 0 /\ wire = <<>> /\ sendFailed = FALSE
    /\ pc = [t \in Threads |-> "idle"] /\ role = [t \in Threads |-> "none"]
    /\ ret = [t \in Threads |-> "relCb"] /\ pkt = [t \in Threads |-> NoPacket]

-----------------------------------------------------------------------------
(* A thread enters *)

Enter(t, r, label) ==
  /\ pc[t] = "idle"
  /\ Goto(t, label) /\ role' = [role EXCEPT ![t] = r]

\* CIOServerEx::OnIOCallback has created the socket and calls Initialize.  It holds
\* no reference before the AddRef there, though the socket is in the map already.
Initialize(t) ==
  /\ t \in Others
  /\ started = "no" /\ started' = "yes"
  /\ ~deleted
  /\ Enter(t, "create", "assoc")
  /\ AddRef
  /\ UNCHANGED <<hSocket, kernelOpen, assoc, listed, bufVars, queueVars, ioVars, ret, pkt>>

\* somebody found and closed the socket before: the creator counts itself in a deleted
\* object, and nothing is said about what it does from here on
InitializeDeleted(t) ==
  /\ t \in Others /\ pc[t] = "idle"
  /\ started = "no" /\ started' = "deleted"
  /\ deleted
  /\ AddRef
  /\ UNCHANGED <<hSocket, kernelOpen, assoc, listed, bufVars, queueVars, ioVars, threadVars>>

\* CIOServerEx::FindSocket under the lock of the map: the caller gets a reference
FindSocket(t) ==
  /\ t \in Others
  /\ listed
  /\ Enter(t, "user", "body")
  /\ AddRef
  /\ UNCHANGED <<handleVars, bufVars, queueVars, ioVars, ret, pkt>>

\* OnIOCallback for the overlapped read: success with data, or failure or end of stream
TakeRead(t) ==
  /\ t \in Workers
  /\ rd \in {"ok", "fail"} /\ rd' = "none"
  /\ Enter(t, "read", IF rd = "ok" THEN "onread" ELSE "close")
  /\ UNCHANGED <<handleVars, refVars, bufVars, queueVars, wr, ret, pkt>>

\* OnIOCallback for the overlapped write
TakeWrite(t) ==
  /\ t \in Workers
  /\ wr \in {"ok", "short", "fail"} /\ wr' = "none"
  /\ Enter(t, "write", CASE wr = "ok"    -> "wdone"
                         [] wr = "short" -> "wshort"
                         [] wr = "fail"  -> "close")
  /\ UNCHANGED <<handleVars, refVars, bufVars, queueVars, rd, ret, pkt>>

\* CPacketServer::OnIOCallback calls the handler of a packet
TakePacket(t, p) ==
  /\ t \in Workers
  /\ p \in posted /\ posted' = posted \ {p}
  /\ Enter(t, "packet", "body")
  /\ pkt' = [pkt EXCEPT ![t] = p]
  /\ UNCHANGED <<handleVars, refVars, rbuf, bref, pktBuf, queueVars, ioVars, ret>>

-----------------------------------------------------------------------------
(* Initialize, OnRead and Read *)

\* CreateIoCompletionPort, which fails on a closed handle.  When it fails, the
\* `return' after CloseSocket skips the ReleaseRef that pairs with the AddRef of
\* Initialize.
Associate(t) ==
  /\ pc[t] = "assoc"
  /\ \/ kernelOpen /\ assoc' = TRUE /\ Goto(t, "onread") /\ UNCHANGED ret
     \/ CallClose(t, "idle") /\ UNCHANGED assoc
  /\ UNCHANGED <<hSocket, kernelOpen, started, listed, refVars, bufVars, queueVars,
                 ioVars, role, pkt>>

\* one turn of the loop of OnRead: a whole packet is handed to the port
OnReadPost(t) ==
  /\ pc[t] = "onread" /\ role[t] = "read"
  /\ \E p \in Packets :
       /\ pktBuf[p] = NoBuf
       /\ pktBuf' = [pktBuf EXCEPT ![p] = rbuf]
       /\ posted' = posted \cup {p}
  /\ bref' = [bref EXCEPT ![rbuf] = @ + 1]
  /\ AddRef
  /\ UNCHANGED <<handleVars, rbuf, queueVars, ioVars, threadVars>>

\* a bad length or an unknown packet type, or OnClose has set the mode to SM_CLOSE
OnReadBad(t) ==
  /\ pc[t] = "onread"
  /\ \/ role[t] = "read" /\ CallClose(t, "relCb")
     \/ role[t] = "create" /\ ~listed /\ CallClose(t, "body")
  /\ UNCHANGED <<handleVars, refVars, bufVars, queueVars, ioVars, role, pkt>>

\* the bug of a Read that reuses the buffer packets still point into
ReadSameBuffer(t) ==
  /\ pc[t] = "onread"
  /\ AddRef
  /\ Goto(t, "recv")
  /\ UNCHANGED <<handleVars, bufVars, queueVars, ioVars, role, ret, pkt>>

\* Read: a buffer that packets still use is left to them and replaced
Read(t) ==
  /\ pc[t] = "onread"
  /\ IF bref[rbuf] # 1
     THEN \E b \in Buffers :
            /\ bref[b] = 0
            /\ bref' = [bref EXCEPT ![b] = 1, ![rbuf] = @ - 1]
            /\ rbuf' = b
     ELSE UNCHANGED <<bref, rbuf>>
  /\ AddRef
  /\ Goto(t, "recv")
  /\ UNCHANGED <<handleVars, pktBuf, posted, queueVars, ioVars, role, ret, pkt>>

\* WSARecv; it can only succeed while the handle is open
Recv(t) ==
  /\ pc[t] = "recv"
  /\ \/ /\ kernelOpen
        /\ rd' = "pending"
        /\ Goto(t, IF role[t] = "create" THEN "body" ELSE "relCb")
        /\ UNCHANGED ret
     \/ CallClose(t, "relIo") /\ UNCHANGED rd
  /\ UNCHANGED <<handleVars, refVars, bufVars, queueVars, wr, role, pkt>>

-----------------------------------------------------------------------------
(* Write and OnWriteCallback *)

\* The critical section of Write.  An idle queue is sent at once; a message joins
\* the last buffer when that is not the one in flight and has room.
Coalesce(q, m) == [q EXCEPT ![Len(q)] = Append(@, m)]

\* the bug of a Write that appends to the buffer in flight
EnqueueInFlight(q, m) ==
  IF q # <<>> /\ Len(Last(q)) < BufferSize THEN Coalesce(q, m) ELSE Append(q, <<m>>)

Enqueue(q, m) ==
  IF Len(q) > 1 /\ Len(Last(q)) < BufferSize THEN Coalesce(q, m) ELSE Append(q, <<m>>)

\* the bug of a Write that always starts a send
WriteAlwaysSends(t) ==
  /\ pc[t] = "body" /\ role[t] \in {"create", "packet", "user"}
  /\ written < MaxWrites
  /\ written' = written + 1
  /\ nPending' = nPending + 1
  /\ wq' = Enqueue(wq, written')
  /\ AddRef /\ Goto(t, "send")
  /\ UNCHANGED <<handleVars, bufVars, wire, sendFailed, ioVars, role, ret, pkt>>

Write(t) ==
  /\ pc[t] = "body" /\ role[t] \in {"create", "packet", "user"}
  /\ written < MaxWrites
  /\ written' = written + 1
  /\ nPending' = nPending + 1
  /\ wq' = Enqueue(wq, written')
  /\ IF wq = <<>>
     THEN AddRef /\ Goto(t, "send")
     ELSE UNCHANGED <<refVars, pc>>
  /\ UNCHANGED <<handleVars, bufVars, wire, sendFailed, ioVars, role, ret, pkt>>

\* the bug of a failed WSASend that keeps the reference taken for it
SendKeepsRef(t) ==
  /\ pc[t] = "send"
  /\ \/ /\ kernelOpen
        /\ wr' = IF assoc THEN "pending" ELSE "lost"
        /\ wire' = wire \o (IF deleted THEN <<>> ELSE Head(wq))
     \/ UNCHANGED <<wr, wire>>
  /\ Goto(t, IF role[t] = "write" THEN "relCb" ELSE "body")
  /\ UNCHANGED <<handleVars, refVars, bufVars, wq, nPending, written, sendFailed, rd, role,
                 ret, pkt>>

(***************************************************************************)
(* WSASend of the first buffer, from Write or from OnWriteCallback.  When  *)
(* it fails only the reference is given back: the buffer stays first in    *)
(* the queue.  A send issued before the handle is associated with the port *)
(* succeeds and its completion is never queued.                            *)
(***************************************************************************)
Send(t) ==
  /\ pc[t] = "send"
  /\ \/ /\ kernelOpen
        /\ wr' = IF assoc THEN "pending" ELSE "lost"
        /\ wire' = wire \o (IF deleted THEN <<>> ELSE Head(wq))
        /\ Goto(t, IF role[t] = "write" THEN "relCb" ELSE "body")
        /\ UNCHANGED sendFailed
     \/ /\ Goto(t, "relIo")
        /\ sendFailed' = TRUE
        /\ UNCHANGED <<wr, wire>>
  /\ UNCHANGED <<handleVars, refVars, bufVars, wq, nPending, written, rd, role, ret, pkt>>

\* the bug of an OnWriteCallback that leaves the rest of the queue for later
WriteDoneForgets(t) ==
  /\ pc[t] = "wdone"
  /\ nPending' = nPending - Len(Head(wq))
  /\ wq' = Tail(wq)
  /\ Goto(t, "relCb")
  /\ UNCHANGED <<handleVars, refVars, bufVars, written, wire, sendFailed, ioVars, role,
                 ret, pkt>>

\* the bug of an OnWriteCallback that sends without a reference
WriteDoneNoRef(t) ==
  /\ pc[t] = "wdone"
  /\ nPending' = nPending - Len(Head(wq))
  /\ wq' = Tail(wq)
  /\ Goto(t, IF wq' = <<>> THEN "relCb" ELSE "send")
  /\ UNCHANGED <<handleVars, refVars, bufVars, written, wire, sendFailed, ioVars, role,
                 ret, pkt>>

\* OnWriteCallback with the full count: the next buffer goes out
WriteDone(t) ==
  /\ pc[t] = "wdone"
  /\ IF deleted
     THEN Goto(t, "relCb") /\ UNCHANGED <<wq, nPending, refVars>>
     ELSE /\ nPending' = nPending - Len(Head(wq))
          /\ wq' = Tail(wq)
          /\ IF wq' = <<>>
             THEN Goto(t, "relCb") /\ UNCHANGED refVars
             ELSE Goto(t, "send") /\ AddRef
  /\ UNCHANGED <<handleVars, bufVars, written, wire, sendFailed, ioVars, role, ret, pkt>>

\* OnWriteCallback with a smaller count: a ReleaseRef of its own (line 122) in
\* addition to the one of OnIOCallback, and the queue stays as it is
WriteShort(t) ==
  /\ pc[t] = "wshort"
  /\ shorts' = shorts + 1
  /\ ReleaseRef
  /\ Goto(t, "relCb")
  /\ UNCHANGED <<handleVars, leaked, rbuf, pktBuf, posted, nPending, written, wire,
                 sendFailed, ioVars, role, ret, pkt>>

-----------------------------------------------------------------------------
(* A handler, a creator after OnRead, or a thread that found the socket *)

\* a handler that returns true; a timer callback that found the socket idle for too
\* long, which need not wait for Initialize
BodyClose(t) ==
  /\ pc[t] = "body" /\ role[t] \in {"packet", "user"}
  /\ CallClose(t, "relCb")
  /\ UNCHANGED <<handleVars, refVars, bufVars, queueVars, ioVars, role, pkt>>

BodyEnd(t) ==
  /\ pc[t] = "body"
  /\ Goto(t, "relCb")
  /\ UNCHANGED <<handleVars, refVars, bufVars, queueVars, ioVars, role, ret, pkt>>

-----------------------------------------------------------------------------
(* CloseSocket *)

\* CloseSocket returns to its caller; Initialize then returns at once
Return(t) ==
  IF ret[t] = "idle" THEN Finish(t) /\ leaked' = TRUE
                     ELSE Goto(t, ret[t]) /\ UNCHANGED <<leaked, role, ret>>

\* the bug of a CloseSocket that tests the handle and clears it later
CloseTested(t) ==
  /\ pc[t] = "close"
  /\ hSocket' = FALSE
  /\ IF kernelOpen THEN Goto(t, "onclose") /\ UNCHANGED <<leaked, role, ret>> ELSE Return(t)
  /\ UNCHANGED <<kernelOpen, assoc, started, listed, refcount, deleted, shorts, bufVars,
                 queueVars, ioVars, pkt>>

\* InterlockedExchange(&m_hSocket, INVALID_SOCKET): one caller goes on
Close(t) ==
  /\ pc[t] = "close"
  /\ hSocket' = FALSE
  /\ IF hSocket THEN Goto(t, "onclose") /\ UNCHANGED <<leaked, role, ret>> ELSE Return(t)
  /\ UNCHANGED <<kernelOpen, assoc, started, listed, refcount, deleted, shorts, bufVars,
                 queueVars, ioVars, pkt>>

\* the bug of an OnClose that leaves the socket in the map
OnCloseKeeps(t) ==
  /\ pc[t] = "onclose"
  /\ Goto(t, "closesocket")
  /\ UNCHANGED <<handleVars, refVars, bufVars, queueVars, ioVars, role, ret, pkt>>

\* CSocketServerEx::OnClose takes the socket out of the map
OnClose(t) ==
  /\ pc[t] = "onclose"
  /\ listed' = FALSE
  /\ Goto(t, "closesocket")
  /\ UNCHANGED <<hSocket, kernelOpen, assoc, started, refVars, bufVars, queueVars, ioVars,
                 role, ret, pkt>>

CloseHandle(t) ==
  /\ pc[t] = "closesocket"
  /\ kernelOpen' = FALSE
  /\ Goto(t, "relHandle")
  /\ UNCHANGED <<hSocket, assoc, started, listed, refVars, bufVars, queueVars, ioVars, role,
                 ret, pkt>>

-----------------------------------------------------------------------------
(* The ReleaseRefs *)

\* the last line of CloseSocket
ReleaseHandleRef(t) ==
  /\ pc[t] = "relHandle"
  /\ ReleaseRef
  /\ Return(t)
  /\ UNCHANGED <<handleVars, shorts, rbuf, pktBuf, posted, nPending, written, wire,
                 sendFailed, ioVars, pkt>>

\* the reference taken for a WSARecv or WSASend that failed
ReleaseIoRef(t) ==
  /\ pc[t] = "relIo"
  /\ ReleaseRef
  /\ Goto(t, IF role[t] \in {"read", "write"} THEN "relCb" ELSE "body")
  /\ ret' = [ret EXCEPT ![t] = "relCb"]
  /\ UNCHANGED <<handleVars, leaked, shorts, rbuf, pktBuf, posted, nPending, written, wire,
                 sendFailed, ioVars, role, pkt>>

\* the reference the callback itself runs on
ReleaseCallbackRef(t) ==
  /\ pc[t] = "relCb"
  /\ ReleaseRef
  /\ IF role[t] = "packet" THEN Goto(t, "relBuf") /\ UNCHANGED <<role, ret>> ELSE Finish(t)
  /\ UNCHANGED <<handleVars, leaked, shorts, rbuf, pktBuf, posted, nPending, written, wire,
                 sendFailed, ioVars, pkt>>

\* the end of CPacketServer::OnIOCallback: its buffer, then itself
FreePacket(t) ==
  /\ pc[t] = "relBuf"
  /\ bref' = [bref EXCEPT ![pktBuf[pkt[t]]] = @ - 1]
  /\ pktBuf' = [pktBuf EXCEPT ![pkt[t]] = NoBuf]
  /\ pkt' = [pkt EXCEPT ![t] = NoPacket]
  /\ Finish(t)
  /\ UNCHANGED <<handleVars, refVars, rbuf, posted, queueVars, ioVars>>

-----------------------------------------------------------------------------
(* Winsock (external): a pending operation completes, and fails once the   *)
(* handle is closed.                                                       *)

RecvCompletes ==
  /\ rd = "pending"
  /\ rd' \in IF kernelOpen THEN {"ok", "fail"} ELSE {"fail"}
  /\ UNCHANGED <<handleVars, refVars, bufVars, queueVars, wr, threadVars>>

SendCompletes ==
  /\ wr = "pending"
  /\ wr' \in IF ~kernelOpen THEN {"fail"}
             ELSE IF shorts < MaxShort THEN {"ok", "fail", "short"} ELSE {"ok", "fail"}
  /\ UNCHANGED <<handleVars, refVars, bufVars, queueVars, rd, threadVars>>

-----------------------------------------------------------------------------
\* the steps that finish what a thread has begun
Progress(t) ==
  \/ Associate(t) \/ OnReadBad(t) \/ Read(t) \/ Recv(t) \/ Send(t)
  \/ WriteDone(t) \/ WriteShort(t) \/ BodyEnd(t)
  \/ Close(t) \/ OnClose(t) \/ CloseHandle(t)
  \/ ReleaseHandleRef(t) \/ ReleaseIoRef(t) \/ ReleaseCallbackRef(t) \/ FreePacket(t)

Next ==
  \/ \E t \in Threads :
       \/ Initialize(t) \/ InitializeDeleted(t) \/ FindSocket(t)
       \/ TakeRead(t) \/ TakeWrite(t) \/ (\E p \in Packets : TakePacket(t, p))
       \/ Associate(t) \/ OnReadPost(t) \/ OnReadBad(t) \/ Read(t) \/ Recv(t)
       \/ Write(t) \/ Send(t) \/ WriteDone(t) \/ WriteShort(t)
       \/ BodyClose(t) \/ BodyEnd(t)
       \/ Close(t) \/ OnClose(t) \/ CloseHandle(t)
       \/ ReleaseHandleRef(t) \/ ReleaseIoRef(t) \/ ReleaseCallbackRef(t) \/ FreePacket(t)
  \/ RecvCompletes \/ SendCompletes

Spec == Init /\ [][Next]_vars

(***************************************************************************)
(* Every callback runs on; the completion port hands out what is queued in *)
(* order, so each completion is taken although the workers are busy with   *)
(* others in between (strong fairness); an operation given to Winsock      *)
(* completes.  Nobody is made to find or write to the socket.              *)
(***************************************************************************)
Fairness ==
  /\ \A t \in Threads : WF_vars(Progress(t))
  /\ SF_vars(\E t \in Workers : TakeRead(t))
  /\ SF_vars(\E t \in Workers : TakeWrite(t))
  /\ \A p \in Packets : SF_vars(\E t \in Workers : TakePacket(t, p))
  /\ WF_vars(RecvCompletes) /\ WF_vars(SendCompletes)

FairSpec == Spec /\ Fairness

-----------------------------------------------------------------------------
(* Properties *)

TypeOK ==
  /\ hSocket \in BOOLEAN /\ kernelOpen \in BOOLEAN /\ assoc \in BOOLEAN
  /\ started \in {"no", "yes", "deleted"} /\ listed \in BOOLEAN
  /\ refcount \in Int /\ (shorts = 0 => refcount >= 0) /\ deleted \in BOOLEAN /\ leaked \in BOOLEAN /\ shorts \in Nat
  /\ rd \in {"none", "pending", "ok", "fail"}
  /\ wr \in {"none", "pending", "ok", "short", "fail", "lost"}
  /\ rbuf \in Buffers /\ bref \in [Buffers -> Int]
  /\ pktBuf \in [Packets -> Buffers \cup {NoBuf}] /\ posted \subseteq Packets
  /\ pc \in [Threads -> PCs] /\ role \in [Threads -> Roles]
  /\ ret \in [Threads -> {"relCb", "relIo", "body", "idle"}]
  /\ pkt \in [Threads -> Packets \cup {NoPacket}]

ClosePCs == {"close", "onclose", "closesocket", "relHandle"}

\* the threads that still owe the ReleaseRef of the callback they run
CallbackRefs == {t \in Threads : pc[t] \notin {"idle", "relBuf"}}

\* the threads that hold the reference of the read or write they start
IoRefs == {t \in Threads : \/ pc[t] \in {"recv", "send", "relIo"}
                           \/ pc[t] \in ClosePCs /\ ret[t] = "relIo"}

\* the threads that took the handle and owe the reference that went with it
HandleRefs == {t \in Threads : pc[t] \in {"onclose", "closesocket", "relHandle"}}

B2N(b) == IF b THEN 1 ELSE 0

\* all that may still touch the object, a creator that came too late included
Holders ==
  B2N(hSocket) + B2N(rd # "none") + B2N(wr # "none") + B2N(leaked) + B2N(started = "deleted")
  + Cardinality(posted) + Cardinality(CallbackRefs)
  + Cardinality(IoRefs) + Cardinality(HandleRefs)

\* The count equals the number of holders: the open handle, an outstanding read
\* and write, every packet in the completion queue, every running callback, and a
\* creator whose Initialize adds itself to the count of a deleted object.  It is
\* short by one for every write that completed with a smaller count.
RefLedger == refcount + shorts = Holders

\* Nothing that works on a client connection refers to it once its destructor has
\* run, and a count of zero means that it has.  Two things are excepted: writes that
\* completed with a smaller count, and the thread that created the connection, which
\* holds no reference until Initialize takes one (IOServer.cpp:406): if the idle timer
\* closes the connection before, Initialize runs on a deleted object.
NoUseAfterDelete ==
  shorts = 0 /\ started # "deleted" =>
    /\ deleted => Holders = 0
    /\ deleted <=> refcount = 0

\* CIOServerEx::FindSocket can never return a client connection that has been deleted,
\* since OnClose removes it from the map before the reference of the handle goes.
ListedIsAlive == shorts = 0 /\ listed => ~deleted

\* One WSASend at a time, and the first buffer belongs to it alone: m_pFirstBuf is
\* read outside the critical section on this ground (IOSocket.cpp:131-134).
Sending == {t \in Threads : pc[t] \in {"send", "wdone", "wshort"}}
OneSend == B2N(wr # "none") + Cardinality(Sending) <= 1

\* the messages of queue q are consecutive, in each buffer and from one to the next,
\* and end with number n
InOrder(q, n) ==
  /\ \A i \in 1..Len(q) :
       q[i] # <<>> /\ \A j \in 1..Len(q[i]) : q[i][j] = q[i][1] + j - 1
  /\ \A i \in 1..Len(q) - 1 : q[i + 1][1] = q[i][1] + Len(q[i])
  /\ q # <<>> => q[Len(q)][1] + Len(q[Len(q)]) = n + 1

\* the messages that have left the queue, and those of its first buffer
Done  == IF wq = <<>> THEN written ELSE wq[1][1] - 1
First == IF wq = <<>> THEN 0 ELSE Len(wq[1])

\* What reached the network is what Write accepted, in that order and without a
\* gap: the messages still queued follow on the wire, save those in flight, and
\* m_nPendingWrite counts them.
WriteOrder ==
  ~deleted =>
    /\ wire = [i \in 1..Len(wire) |-> i]
    /\ InOrder(wq, written)
    /\ Done <= Len(wire) /\ Len(wire) <= Done + First
    /\ nPending = written - Done

\* The bytes of a packet stay put until its handler is done: a read never goes into
\* a buffer that a pending packet points into, and a buffer is back in the pool only
\* when nobody points into it.
BufferStable == shorts = 0 =>
  /\ rd # "none" => \A p \in Packets : pktBuf[p] # rbuf
  /\ \A b \in Buffers :
       bref[b] = Cardinality({p \in Packets : pktBuf[p] = b}) + B2N(b = rbuf /\ ~deleted)

\* A closed socket is deleted in the end.  Only two paths lose it: an Initialize
\* that fails, and a write before Initialize, whose completion never comes.
Reclaimed == ~hSocket ~> (deleted \/ leaked \/ wr = "lost")

\* What Write accepted is sent, unless the socket is closed, a WSASend failed (and
\* the queue then stands still on an open socket), or a write completed short.
WritesDrain ==
  wq # <<>> ~> (wq = <<>> \/ ~hSocket \/ sendFailed \/ wr = "lost" \/ shorts > 0)

=============================================================================
