--------------------------- MODULE IOSocketProofs ---------------------------
(***************************************************************************)
(* Proofs about IOSocket for any finite sets of threads and packets, any   *)
(* buffers, and any number of writes and short writes.                     *)
(***************************************************************************)
EXTENDS IOSocket, FiniteSetTheorems, SequenceTheorems, TLAPS

\* TypeOK without the sign of refcount, which only the ledger gives
DataTyping ==
  /\ hSocket \in BOOLEAN /\ kernelOpen \in BOOLEAN /\ assoc \in BOOLEAN
  /\ started \in {"no", "yes", "deleted"} /\ listed \in BOOLEAN
  /\ refcount \in Int /\ deleted \in BOOLEAN /\ leaked \in BOOLEAN /\ shorts \in Nat
  /\ rd \in {"none", "pending", "ok", "fail"}
  /\ wr \in {"none", "pending", "ok", "short", "fail", "lost"}
  /\ rbuf \in Buffers /\ bref \in [Buffers -> Int]
  /\ pktBuf \in [Packets -> Buffers \cup {NoBuf}] /\ posted \subseteq Packets

ThreadTyping ==
  /\ pc \in [Threads -> PCs] /\ role \in [Threads -> Roles]
  /\ ret \in [Threads -> {"relCb", "relIo", "body", "idle"}]
  /\ pkt \in [Threads -> Packets \cup {NoPacket}]

Typing == DataTyping /\ ThreadTyping

QueueTyping == wq \in Seq(Seq(Int)) /\ written \in Nat

\* one thread creates the socket, and only it can leave Initialize early
CreateInv ==
  /\ \A t \in Threads : pc[t] = "idle" => ret[t] = "relCb"
  /\ \A t \in Threads : pc[t] = "assoc" => role[t] = "create"
  /\ \A t \in Threads : ret[t] = "idle" => role[t] = "create" /\ pc[t] \in ClosePCs
  /\ \A t \in Threads : ret[t] = "body" => role[t] = "create"
  /\ \A t \in Threads : role[t] = "create" => started = "yes" /\ ~leaked
  /\ \A t, u \in Threads : role[t] = "create" /\ role[u] = "create" => t = u
  /\ leaked => started = "yes"

\* the threads on their way to a WSARecv
Reading == {t \in Threads : pc[t] \in {"assoc", "onread", "recv"}}

ReadInv ==
  /\ \A t, u \in Reading : t = u
  /\ Reading # {} => rd = "none" /\ started = "yes"
  /\ rd # "none" => started = "yes"

\* a non-empty queue is what keeps a second WSASend away; after a short write the
\* queue stays as it is until the object is deleted
SendInv ==
  /\ \A t, u \in Sending : t = u
  /\ Sending # {} => wr = "none"
  /\ wr # "none" \/ Sending # {} => wq # <<>>
  /\ shorts > 0 /\ ~deleted => wr = "none" /\ Sending = {} /\ wq # <<>>

\* a packet is pending once
PacketInv ==
  /\ \A p \in posted : pktBuf[p] # NoBuf
  /\ \A t \in Threads :
       role[t] = "packet" => pkt[t] \in Packets \ posted /\ pktBuf[pkt[t]] # NoBuf
  /\ \A t, u \in Threads :
       role[t] = "packet" /\ role[u] = "packet" /\ pkt[t] = pkt[u] => t = u
  /\ \A t \in Threads : pc[t] = "relBuf" => role[t] = "packet"

\* the map forgets the socket before its reference to the handle goes
ListedInv == listed => hSocket \/ \E t \in Threads : pc[t] = "onclose"

DeletedInv ==
  /\ shorts = 0 => (deleted <=> refcount = B2N(started = "deleted"))
  /\ started = "deleted" => deleted

(***************************************************************************)
(* The ledger is not inductive: that a step adds one holder for each AddRef *)
(* rests on there being one read, one write and one Initialize at a time,  *)
(* which rests on the queue and, for the write, on the ledger itself, since *)
(* the destructor empties the queue.                                       *)
(***************************************************************************)
IInv == /\ Typing /\ QueueTyping /\ CreateInv /\ ReadInv /\ SendInv /\ PacketInv
        /\ ListedInv /\ RefLedger /\ DeletedInv

-----------------------------------------------------------------------------
(* Counting *)

\* A set that changes in at most one element changes its size by at most one.
LEMMA OneElement ==
  ASSUME NEW S, NEW T, NEW x, IsFiniteSet(S), S \ {x} = T \ {x}
  PROVE  /\ IsFiniteSet(T)
         /\ Cardinality(T) = Cardinality(S) + B2N(x \in T) - B2N(x \in S)
<1>0. Cardinality(S) \in Nat
  BY FS_CardinalityType
<1>1. CASE x \in S /\ x \in T
  <2>1. S = T
    BY <1>1
  <2> QED
    BY <1>0, <1>1, <2>1 DEF B2N
<1>2. CASE x \in S /\ x \notin T
  <2>1. T = S \ {x}
    BY <1>2
  <2> QED
    BY <1>0, <1>2, <2>1, FS_RemoveElement DEF B2N
<1>3. CASE x \notin S /\ x \in T
  <2>1. T = S \cup {x}
    BY <1>3
  <2> QED
    BY <1>0, <1>3, <2>1, FS_AddElement DEF B2N
<1>4. CASE x \notin S /\ x \notin T
  <2>1. S = T
    BY <1>4
  <2> QED
    BY <1>0, <1>4, <2>1 DEF B2N
<1> QED
  BY <1>1, <1>2, <1>3, <1>4

ThreadRefs == Cardinality(CallbackRefs) + Cardinality(IoRefs) + Cardinality(HandleRefs)

\* what thread t contributes to them
Share(t) ==
  B2N(pc[t] \notin {"idle", "relBuf"})
  + B2N(pc[t] \in {"recv", "send", "relIo"} \/ (pc[t] \in ClosePCs /\ ret[t] = "relIo"))
  + B2N(pc[t] \in {"onclose", "closesocket", "relHandle"})

\* Every set the ledger counts is finite.
LEMMA FiniteThreads ==
  ASSUME NEW S \in SUBSET Threads PROVE IsFiniteSet(S) /\ Cardinality(S) \in Nat
<1>1. IsFiniteSet(Threads)
  BY SocketAssumption, FS_Union DEF Threads
<1> QED
  BY <1>1, FS_Subset, FS_CardinalityType

LEMMA FinitePackets ==
  ASSUME NEW P \in SUBSET Packets PROVE IsFiniteSet(P) /\ Cardinality(P) \in Nat
BY SocketAssumption, FS_Subset, FS_CardinalityType

LEMMA RefSets ==
  /\ CallbackRefs \in SUBSET Threads /\ CallbackRefs' \in SUBSET Threads
  /\ IoRefs \in SUBSET Threads /\ IoRefs' \in SUBSET Threads
  /\ HandleRefs \in SUBSET Threads /\ HandleRefs' \in SUBSET Threads
BY DEF CallbackRefs, IoRefs, HandleRefs

LEMMA RefCounts ==
  /\ Cardinality(CallbackRefs) \in Nat /\ Cardinality(CallbackRefs') \in Nat
  /\ Cardinality(IoRefs) \in Nat /\ Cardinality(IoRefs') \in Nat
  /\ Cardinality(HandleRefs) \in Nat /\ Cardinality(HandleRefs') \in Nat
BY RefSets, FiniteThreads

\* When one thread moves, only its own share changes.
LEMMA ThreadStep ==
  ASSUME NEW t \in Threads,
         \A u \in Threads : u # t => pc'[u] = pc[u] /\ ret'[u] = ret[u]
  PROVE  ThreadRefs' = ThreadRefs + Share(t)' - Share(t)
<1>1. CallbackRefs \ {t} = CallbackRefs' \ {t}
  BY DEF CallbackRefs
<1>2. IoRefs \ {t} = IoRefs' \ {t}
  BY DEF IoRefs
<1>3. HandleRefs \ {t} = HandleRefs' \ {t}
  BY DEF HandleRefs
<1>4. Cardinality(CallbackRefs') = Cardinality(CallbackRefs)
        + B2N(t \in CallbackRefs') - B2N(t \in CallbackRefs)
  BY <1>1, RefSets, FiniteThreads, OneElement
<1>5. Cardinality(IoRefs') = Cardinality(IoRefs) + B2N(t \in IoRefs') - B2N(t \in IoRefs)
  BY <1>2, RefSets, FiniteThreads, OneElement
<1>6. Cardinality(HandleRefs') = Cardinality(HandleRefs)
        + B2N(t \in HandleRefs') - B2N(t \in HandleRefs)
  BY <1>3, RefSets, FiniteThreads, OneElement
<1>7. Share(t) = B2N(t \in CallbackRefs) + B2N(t \in IoRefs) + B2N(t \in HandleRefs)
  BY DEF Share, CallbackRefs, IoRefs, HandleRefs
<1>8. Share(t)' = B2N(t \in CallbackRefs') + B2N(t \in IoRefs') + B2N(t \in HandleRefs')
  BY DEF Share, CallbackRefs, IoRefs, HandleRefs
<1> QED
  BY <1>4, <1>5, <1>6, <1>7, <1>8, RefCounts DEF ThreadRefs, B2N

-----------------------------------------------------------------------------
(* Types *)

\* The critical section of Write leaves a queue that is not empty.
LEMMA EnqueueType ==
  ASSUME NEW q \in Seq(Seq(Int)), NEW m \in Int
  PROVE  Enqueue(q, m) \in Seq(Seq(Int)) /\ Enqueue(q, m) # <<>>
<1>1. CASE Len(q) > 1 /\ Len(Last(q)) < BufferSize
  <2>1. Coalesce(q, m) \in Seq(Seq(Int)) /\ Len(Coalesce(q, m)) = Len(q)
    BY <1>1 DEF Coalesce
  <2> QED
    BY <1>1, <2>1 DEF Enqueue
<1>2. CASE ~(Len(q) > 1 /\ Len(Last(q)) < BufferSize)
  BY <1>2 DEF Enqueue
<1> QED
  BY <1>1, <1>2

\* Counting one buffer down keeps the counts integers.
LEMMA Decrement ==
  ASSUME NEW f \in [Buffers -> Int], NEW b
  PROVE  [f EXCEPT ![b] = f[b] - 1] \in [Buffers -> Int]
<1>1. CASE b \in Buffers
  BY <1>1
<1>2. CASE b \notin Buffers
  BY <1>2
<1> QED
  BY <1>1, <1>2

LEMMA InitTyping == Init => Typing
<1> SUFFICES ASSUME Init PROVE Typing
  OBVIOUS
<1>1. DataTyping
  <2>1. bref \in [Buffers -> Int] /\ rbuf \in Buffers
    BY DEF Init
  <2>2. pktBuf \in [Packets -> Buffers \cup {NoBuf}]
    BY DEF Init
  <2>3. posted \subseteq Packets /\ rd = "none" /\ wr = "none"
    BY DEF Init
  <2>4. /\ hSocket \in BOOLEAN /\ kernelOpen \in BOOLEAN /\ assoc \in BOOLEAN
        /\ started \in {"no", "yes", "deleted"} /\ listed \in BOOLEAN
        /\ deleted \in BOOLEAN /\ leaked \in BOOLEAN
    BY Zenon DEF Init
  <2>5. refcount \in Int /\ shorts \in Nat
    BY DEF Init
  <2> QED
    BY <2>1, <2>2, <2>3, <2>4, <2>5 DEF DataTyping
<1>2. ThreadTyping
  BY DEF Init, ThreadTyping, PCs, Roles
<1> QED
  BY <1>1, <1>2 DEF Typing

LEMMA NextDataTyping == Typing /\ [Next]_vars => DataTyping'
<1> SUFFICES ASSUME Typing, [Next]_vars PROVE DataTyping'
  OBVIOUS
<1> USE DEF Typing, DataTyping, ThreadTyping, Finish, AddRef, handleVars, refVars,
            bufVars, queueVars, ioVars, threadVars
<1>1. ASSUME NEW t \in Threads, Initialize(t) PROVE DataTyping'
  BY <1>1 DEF Initialize, Enter
<1>2. ASSUME NEW t \in Threads, FindSocket(t) PROVE DataTyping'
  BY <1>2 DEF FindSocket, Enter
<1>3. ASSUME NEW t \in Threads, TakeRead(t) PROVE DataTyping'
  BY <1>3 DEF TakeRead, Enter
<1>4. ASSUME NEW t \in Threads, TakeWrite(t) PROVE DataTyping'
  BY <1>4 DEF TakeWrite, Enter
<1>5. ASSUME NEW t \in Threads, NEW p \in Packets, TakePacket(t, p) PROVE DataTyping'
  BY <1>5 DEF TakePacket, Enter
<1>6. ASSUME NEW t \in Threads, Associate(t) PROVE DataTyping'
  <2>1. assoc' \in BOOLEAN
    BY <1>6 DEF Associate
  <2>2. UNCHANGED <<hSocket, kernelOpen, started, listed, refVars, bufVars, ioVars>>
    BY <1>6 DEF Associate
  <2> QED
    BY <2>1, <2>2
<1>7. ASSUME NEW t \in Threads, OnReadPost(t) PROVE DataTyping'
  BY <1>7 DEF OnReadPost
<1>8. ASSUME NEW t \in Threads, OnReadBad(t) PROVE DataTyping'
  BY <1>8 DEF OnReadBad
<1>9. ASSUME NEW t \in Threads, Read(t) PROVE DataTyping'
  BY <1>9 DEF Read
<1>10. ASSUME NEW t \in Threads, Recv(t) PROVE DataTyping'
  BY <1>10 DEF Recv
<1>11. ASSUME NEW t \in Threads, Write(t) PROVE DataTyping'
  BY <1>11 DEF Write
<1>12. ASSUME NEW t \in Threads, Send(t) PROVE DataTyping'
  BY <1>12 DEF Send
<1>13. ASSUME NEW t \in Threads, WriteDone(t) PROVE DataTyping'
  BY <1>13 DEF WriteDone
<1>14. ASSUME NEW t \in Threads, WriteShort(t) PROVE DataTyping'
  BY <1>14 DEF WriteShort, ReleaseRef
<1>15. ASSUME NEW t \in Threads, BodyClose(t) PROVE DataTyping'
  BY <1>15 DEF BodyClose
<1>16. ASSUME NEW t \in Threads, BodyEnd(t) PROVE DataTyping'
  BY <1>16 DEF BodyEnd
<1>17. ASSUME NEW t \in Threads, Close(t) PROVE DataTyping'
  <2>1. leaked' \in BOOLEAN /\ hSocket' = FALSE
    BY <1>17 DEF Close, Return, Finish
  <2> QED
    BY <1>17, <2>1 DEF Close
<1>18. ASSUME NEW t \in Threads, OnClose(t) PROVE DataTyping'
  BY <1>18 DEF OnClose
<1>19. ASSUME NEW t \in Threads, CloseHandle(t) PROVE DataTyping'
  BY <1>19 DEF CloseHandle
<1>20. ASSUME NEW t \in Threads, ReleaseHandleRef(t) PROVE DataTyping'
  <2>1. leaked' \in BOOLEAN
    BY <1>20 DEF ReleaseHandleRef, Return
  <2>2. refcount' \in Int /\ deleted' \in BOOLEAN /\ bref' \in [Buffers -> Int]
    BY <1>20 DEF ReleaseHandleRef, ReleaseRef
  <2> QED
    BY <1>20, <2>1, <2>2 DEF ReleaseHandleRef
<1>21. ASSUME NEW t \in Threads, ReleaseIoRef(t) PROVE DataTyping'
  BY <1>21 DEF ReleaseIoRef, ReleaseRef
<1>22. ASSUME NEW t \in Threads, ReleaseCallbackRef(t) PROVE DataTyping'
  BY <1>22 DEF ReleaseCallbackRef, ReleaseRef
<1>23. ASSUME NEW t \in Threads, FreePacket(t) PROVE DataTyping'
  <2>1. bref' \in [Buffers -> Int]
    <3>1. bref' = [bref EXCEPT ![pktBuf[pkt[t]]] = bref[pktBuf[pkt[t]]] - 1]
      BY <1>23 DEF FreePacket
    <3> QED
      BY <3>1, Decrement
  <2>2. pktBuf' \in [Packets -> Buffers \cup {NoBuf}]
    BY <1>23 DEF FreePacket
  <2> QED
    BY <1>23, <2>1, <2>2 DEF FreePacket
<1>24. CASE RecvCompletes
  BY <1>24 DEF RecvCompletes
<1>25. CASE SendCompletes
  BY <1>25 DEF SendCompletes
<1>26. CASE UNCHANGED vars
  BY <1>26 DEF vars
<1>27. ASSUME NEW t \in Threads, InitializeDeleted(t) PROVE DataTyping'
  BY <1>27 DEF InitializeDeleted
<1> QED
  BY <1>1, <1>2, <1>3, <1>4, <1>5, <1>6, <1>7, <1>8, <1>9, <1>10, <1>11, <1>12, <1>13,
     <1>14, <1>15, <1>16, <1>17, <1>18, <1>19, <1>20, <1>21, <1>22, <1>23, <1>24, <1>25,
     <1>26, <1>27 DEF Next

LEMMA NextThreadTyping == Typing /\ [Next]_vars => ThreadTyping'
<1> SUFFICES ASSUME Typing, [Next]_vars PROVE ThreadTyping'
  OBVIOUS
<1> USE DEF Typing, DataTyping, ThreadTyping, PCs, Roles, Goto, CallClose, Finish, handleVars, refVars,
            bufVars, queueVars, ioVars, threadVars
<1>1. ASSUME NEW t \in Threads, Initialize(t) PROVE ThreadTyping'
  BY <1>1 DEF Initialize, Enter
<1>2. ASSUME NEW t \in Threads, FindSocket(t) PROVE ThreadTyping'
  BY <1>2 DEF FindSocket, Enter
<1>3. ASSUME NEW t \in Threads, TakeRead(t) PROVE ThreadTyping'
  BY <1>3 DEF TakeRead, Enter
<1>4. ASSUME NEW t \in Threads, TakeWrite(t) PROVE ThreadTyping'
  BY <1>4 DEF TakeWrite, Enter
<1>5. ASSUME NEW t \in Threads, NEW p \in Packets, TakePacket(t, p) PROVE ThreadTyping'
  BY <1>5 DEF TakePacket, Enter
<1>6. ASSUME NEW t \in Threads, Associate(t) PROVE ThreadTyping'
  BY <1>6 DEF Associate
<1>7. ASSUME NEW t \in Threads, OnReadPost(t) PROVE ThreadTyping'
  BY <1>7 DEF OnReadPost
<1>8. ASSUME NEW t \in Threads, OnReadBad(t) PROVE ThreadTyping'
  BY <1>8 DEF OnReadBad
<1>9. ASSUME NEW t \in Threads, Read(t) PROVE ThreadTyping'
  BY <1>9 DEF Read
<1>10. ASSUME NEW t \in Threads, Recv(t) PROVE ThreadTyping'
  BY <1>10 DEF Recv
<1>11. ASSUME NEW t \in Threads, Write(t) PROVE ThreadTyping'
  BY <1>11 DEF Write
<1>12. ASSUME NEW t \in Threads, Send(t) PROVE ThreadTyping'
  BY <1>12 DEF Send
<1>13. ASSUME NEW t \in Threads, WriteDone(t) PROVE ThreadTyping'
  BY <1>13 DEF WriteDone
<1>14. ASSUME NEW t \in Threads, WriteShort(t) PROVE ThreadTyping'
  BY <1>14 DEF WriteShort, ReleaseRef
<1>15. ASSUME NEW t \in Threads, BodyClose(t) PROVE ThreadTyping'
  BY <1>15 DEF BodyClose
<1>16. ASSUME NEW t \in Threads, BodyEnd(t) PROVE ThreadTyping'
  BY <1>16 DEF BodyEnd
<1>17. ASSUME NEW t \in Threads, Close(t) PROVE ThreadTyping'
  BY <1>17 DEF Close, Return
<1>18. ASSUME NEW t \in Threads, OnClose(t) PROVE ThreadTyping'
  BY <1>18 DEF OnClose
<1>19. ASSUME NEW t \in Threads, CloseHandle(t) PROVE ThreadTyping'
  BY <1>19 DEF CloseHandle
<1>20. ASSUME NEW t \in Threads, ReleaseHandleRef(t) PROVE ThreadTyping'
  BY <1>20 DEF ReleaseHandleRef, Return
<1>21. ASSUME NEW t \in Threads, ReleaseIoRef(t) PROVE ThreadTyping'
  BY <1>21 DEF ReleaseIoRef, ReleaseRef
<1>22. ASSUME NEW t \in Threads, ReleaseCallbackRef(t) PROVE ThreadTyping'
  BY <1>22 DEF ReleaseCallbackRef, ReleaseRef
<1>23. ASSUME NEW t \in Threads, FreePacket(t) PROVE ThreadTyping'
  <2>1. /\ pc' = [pc EXCEPT ![t] = "idle"] /\ role' = [role EXCEPT ![t] = "none"]
        /\ ret' = [ret EXCEPT ![t] = "relCb"] /\ pkt' = [pkt EXCEPT ![t] = NoPacket]
    BY <1>23 DEF FreePacket
  <2> QED
    BY <2>1
<1>24. CASE RecvCompletes
  BY <1>24 DEF RecvCompletes
<1>25. CASE SendCompletes
  BY <1>25 DEF SendCompletes
<1>26. CASE UNCHANGED vars
  BY <1>26 DEF vars
<1>27. ASSUME NEW t \in Threads, InitializeDeleted(t) PROVE ThreadTyping'
  BY <1>27 DEF InitializeDeleted
<1> QED
  BY <1>1, <1>2, <1>3, <1>4, <1>5, <1>6, <1>7, <1>8, <1>9, <1>10, <1>11, <1>12, <1>13,
     <1>14, <1>15, <1>16, <1>17, <1>18, <1>19, <1>20, <1>21, <1>22, <1>23, <1>24, <1>25,
     <1>26, <1>27 DEF Next

LEMMA NextTyping == Typing /\ [Next]_vars => Typing'
BY NextDataTyping, NextThreadTyping DEF Typing

-----------------------------------------------------------------------------
(* The ledger *)

\* the holders that are not threads
Fixed == B2N(hSocket) + B2N(rd # "none") + B2N(wr # "none") + B2N(leaked)
         + B2N(started = "deleted") + Cardinality(posted)

\* The ledger stays balanced when the count moves with what the object and the
\* thread of the step hold.
LEMMA Balance ==
  ASSUME Typing, Typing', RefLedger, NEW t \in Threads,
         \A u \in Threads : u # t => pc'[u] = pc[u] /\ ret'[u] = ret[u],
         refcount' + shorts' = refcount + shorts + (Fixed' - Fixed) + (Share(t)' - Share(t))
  PROVE  RefLedger'
<1>1. ThreadRefs' = ThreadRefs + Share(t)' - Share(t)
  BY ThreadStep
<1>2. ThreadRefs \in Nat /\ Share(t) \in Int /\ Share(t)' \in Int
  BY RefCounts DEF ThreadRefs, Share, B2N
<1>3. /\ Cardinality(posted) \in Nat /\ Cardinality(posted') \in Nat
      /\ Fixed \in Int /\ Fixed' \in Int
  <2>1. Cardinality(posted) \in Nat /\ Cardinality(posted') \in Nat
    BY FinitePackets DEF Typing, DataTyping
  <2> QED
    BY <2>1 DEF Fixed, B2N
<1>4. Holders = Fixed + ThreadRefs
  BY <1>3, RefCounts DEF Holders, Fixed, ThreadRefs, B2N
<1>5. Holders' = Fixed' + ThreadRefs'
  BY <1>3, RefCounts DEF Holders, Fixed, ThreadRefs, B2N
<1>6. refcount \in Int /\ shorts \in Int /\ refcount' \in Int /\ shorts' \in Int
  BY DEF Typing, DataTyping
<1>7. refcount + shorts = Fixed + ThreadRefs
  BY <1>4 DEF RefLedger
<1>8. refcount' + shorts' = Fixed' + ThreadRefs'
  BY <1>1, <1>2, <1>3, <1>6, <1>7
<1> QED
  BY <1>5, <1>8 DEF RefLedger

LEMMA NextLedger == IInv /\ [Next]_vars => RefLedger'
<1> SUFFICES ASSUME IInv, [Next]_vars PROVE RefLedger'
  OBVIOUS
<1>t. /\ Typing /\ Typing' /\ DataTyping /\ ThreadTyping
      /\ CreateInv /\ ReadInv /\ SendInv /\ PacketInv /\ RefLedger
  BY NextTyping DEF IInv, Typing
<1>p. Cardinality(posted) \in Nat
  BY <1>t, FinitePackets DEF DataTyping
<1> USE DEF Goto, CallClose, Finish, AddRef, handleVars, refVars,
            bufVars, queueVars, ioVars, threadVars
<1>1. ASSUME NEW t \in Threads, Initialize(t) PROVE RefLedger'
  <2>1. \A u \in Threads : u # t => pc'[u] = pc[u] /\ ret'[u] = ret[u]
    BY <1>1, <1>t DEF ThreadTyping, Initialize, Enter
  <2>2. refcount' + shorts'
          = refcount + shorts + (Fixed' - Fixed) + (Share(t)' - Share(t))
    BY <1>1, <1>t, <1>p DEF DataTyping, ThreadTyping, Initialize, Enter, Share, Fixed, B2N, ClosePCs
  <2> QED
    BY <1>t, <2>1, <2>2, Balance
<1>2. ASSUME NEW t \in Threads, FindSocket(t) PROVE RefLedger'
  <2>1. \A u \in Threads : u # t => pc'[u] = pc[u] /\ ret'[u] = ret[u]
    BY <1>2, <1>t DEF ThreadTyping, FindSocket, Enter
  <2>2. refcount' + shorts'
          = refcount + shorts + (Fixed' - Fixed) + (Share(t)' - Share(t))
    BY <1>2, <1>t, <1>p DEF DataTyping, ThreadTyping, FindSocket, Enter, Share, Fixed, B2N, ClosePCs
  <2> QED
    BY <1>t, <2>1, <2>2, Balance
<1>3. ASSUME NEW t \in Threads, TakeRead(t) PROVE RefLedger'
  <2>1. \A u \in Threads : u # t => pc'[u] = pc[u] /\ ret'[u] = ret[u]
    BY <1>3, <1>t DEF ThreadTyping, TakeRead, Enter
  <2>2. refcount' + shorts'
          = refcount + shorts + (Fixed' - Fixed) + (Share(t)' - Share(t))
    <3>1. CASE rd = "ok"
      BY <1>3, <1>t, <1>p, <3>1 DEF DataTyping, ThreadTyping, TakeRead, Enter, CreateInv, Share, Fixed, B2N, ClosePCs
    <3>2. CASE rd = "fail"
      BY <1>3, <1>t, <1>p, <3>2 DEF DataTyping, ThreadTyping, TakeRead, Enter, CreateInv, Share, Fixed, B2N, ClosePCs
    <3> QED
      BY <3>1, <3>2, <1>3 DEF TakeRead
  <2> QED
    BY <1>t, <2>1, <2>2, Balance
<1>4. ASSUME NEW t \in Threads, TakeWrite(t) PROVE RefLedger'
  <2>1. \A u \in Threads : u # t => pc'[u] = pc[u] /\ ret'[u] = ret[u]
    BY <1>4, <1>t DEF ThreadTyping, TakeWrite, Enter
  <2>2. refcount' + shorts'
          = refcount + shorts + (Fixed' - Fixed) + (Share(t)' - Share(t))
    <3>1. CASE wr = "ok"
      BY <1>4, <1>t, <1>p, <3>1 DEF DataTyping, ThreadTyping, TakeWrite, Enter, CreateInv, Share, Fixed, B2N, ClosePCs
    <3>2. CASE wr = "short"
      BY <1>4, <1>t, <1>p, <3>2 DEF DataTyping, ThreadTyping, TakeWrite, Enter, CreateInv, Share, Fixed, B2N, ClosePCs
    <3>3. CASE wr = "fail"
      BY <1>4, <1>t, <1>p, <3>3 DEF DataTyping, ThreadTyping, TakeWrite, Enter, CreateInv, Share, Fixed, B2N, ClosePCs
    <3> QED
      BY <3>1, <3>2, <3>3, <1>4 DEF TakeWrite
  <2> QED
    BY <1>t, <2>1, <2>2, Balance
<1>5. ASSUME NEW t \in Threads, NEW p \in Packets, TakePacket(t, p) PROVE RefLedger'
  <2>p. Cardinality(posted') = Cardinality(posted) - 1 /\ Cardinality(posted) \in Nat
    BY <1>5, <1>t, FinitePackets, FS_RemoveElement DEF DataTyping, TakePacket
  <2>1. \A u \in Threads : u # t => pc'[u] = pc[u] /\ ret'[u] = ret[u]
    BY <1>5, <1>t DEF ThreadTyping, TakePacket, Enter
  <2>2. refcount' + shorts'
          = refcount + shorts + (Fixed' - Fixed) + (Share(t)' - Share(t))
    BY <1>5, <1>t, <2>p DEF DataTyping, ThreadTyping, TakePacket, Enter, Share, Fixed, B2N, ClosePCs
  <2> QED
    BY <1>t, <2>1, <2>2, Balance
<1>6. ASSUME NEW t \in Threads, Associate(t) PROVE RefLedger'
  <2>1. \A u \in Threads : u # t => pc'[u] = pc[u] /\ ret'[u] = ret[u]
    BY <1>6, <1>t DEF ThreadTyping, Associate
  <2>2. refcount' + shorts'
          = refcount + shorts + (Fixed' - Fixed) + (Share(t)' - Share(t))
    BY <1>6, <1>t, <1>p DEF DataTyping, ThreadTyping, Associate, CreateInv, Share, Fixed, B2N, ClosePCs
  <2> QED
    BY <1>t, <2>1, <2>2, Balance
<1>7. ASSUME NEW t \in Threads, OnReadPost(t) PROVE RefLedger'
  <2>p. Cardinality(posted') = Cardinality(posted) + 1 /\ Cardinality(posted) \in Nat
    <3>1. PICK p \in Packets : pktBuf[p] = NoBuf /\ posted' = posted \cup {p}
      BY <1>7 DEF OnReadPost
    <3>2. p \notin posted
      BY <3>1, <1>t DEF PacketInv
    <3> QED
      BY <3>1, <3>2, <1>t, FinitePackets, FS_AddElement DEF DataTyping
  <2>1. \A u \in Threads : u # t => pc'[u] = pc[u] /\ ret'[u] = ret[u]
    BY <1>7, <1>t DEF ThreadTyping, OnReadPost
  <2>2. refcount' + shorts'
          = refcount + shorts + (Fixed' - Fixed) + (Share(t)' - Share(t))
    BY <1>7, <1>t, <2>p DEF DataTyping, ThreadTyping, OnReadPost, Share, Fixed, B2N, ClosePCs
  <2> QED
    BY <1>t, <2>1, <2>2, Balance
<1>8. ASSUME NEW t \in Threads, OnReadBad(t) PROVE RefLedger'
  <2>1. \A u \in Threads : u # t => pc'[u] = pc[u] /\ ret'[u] = ret[u]
    BY <1>8, <1>t DEF ThreadTyping, OnReadBad
  <2>2. refcount' + shorts'
          = refcount + shorts + (Fixed' - Fixed) + (Share(t)' - Share(t))
    BY <1>8, <1>t, <1>p DEF DataTyping, ThreadTyping, OnReadBad, Share, Fixed, B2N, ClosePCs
  <2> QED
    BY <1>t, <2>1, <2>2, Balance
<1>9. ASSUME NEW t \in Threads, Read(t) PROVE RefLedger'
  <2>1. \A u \in Threads : u # t => pc'[u] = pc[u] /\ ret'[u] = ret[u]
    BY <1>9, <1>t DEF ThreadTyping, Read
  <2>2. refcount' + shorts'
          = refcount + shorts + (Fixed' - Fixed) + (Share(t)' - Share(t))
    BY <1>9, <1>t, <1>p DEF DataTyping, ThreadTyping, Read, Share, Fixed, B2N, ClosePCs
  <2> QED
    BY <1>t, <2>1, <2>2, Balance
<1>10. ASSUME NEW t \in Threads, Recv(t) PROVE RefLedger'
  <2>1. \A u \in Threads : u # t => pc'[u] = pc[u] /\ ret'[u] = ret[u]
    BY <1>10, <1>t DEF ThreadTyping, Recv
  <2>2. refcount' + shorts'
          = refcount + shorts + (Fixed' - Fixed) + (Share(t)' - Share(t))
    BY <1>10, <1>t, <1>p DEF DataTyping, ThreadTyping, Recv, ReadInv, Reading, Share, Fixed, B2N, ClosePCs
  <2> QED
    BY <1>t, <2>1, <2>2, Balance
<1>11. ASSUME NEW t \in Threads, Write(t) PROVE RefLedger'
  <2>1. \A u \in Threads : u # t => pc'[u] = pc[u] /\ ret'[u] = ret[u]
    BY <1>11, <1>t DEF ThreadTyping, Write
  <2>2. refcount' + shorts'
          = refcount + shorts + (Fixed' - Fixed) + (Share(t)' - Share(t))
    <3>1. CASE wq = <<>>
      BY <1>11, <1>t, <1>p, <3>1 DEF DataTyping, ThreadTyping, Write, Share, Fixed, B2N, ClosePCs
    <3>2. CASE wq # <<>>
      BY <1>11, <1>t, <1>p, <3>2 DEF DataTyping, ThreadTyping, Write, Share, Fixed, B2N, ClosePCs
    <3> QED
      BY <3>1, <3>2
  <2> QED
    BY <1>t, <2>1, <2>2, Balance
<1>12. ASSUME NEW t \in Threads, Send(t) PROVE RefLedger'
  <2>1. \A u \in Threads : u # t => pc'[u] = pc[u] /\ ret'[u] = ret[u]
    BY <1>12, <1>t DEF ThreadTyping, Send
  <2>2. refcount' + shorts'
          = refcount + shorts + (Fixed' - Fixed) + (Share(t)' - Share(t))
    <3>1. CASE UNCHANGED wr /\ pc' = [pc EXCEPT ![t] = "relIo"]
      BY <1>12, <1>t, <1>p, <3>1 DEF DataTyping, ThreadTyping, Send, SendInv, Sending, Share, Fixed, B2N, ClosePCs
    <3>2. CASE wr' # "none" /\ pc' = [pc EXCEPT ![t] = IF role[t] = "write" THEN "relCb" ELSE "body"]
      BY <1>12, <1>t, <1>p, <3>2 DEF DataTyping, ThreadTyping, Send, SendInv, Sending, Share, Fixed, B2N, ClosePCs
    <3> QED
      BY <3>1, <3>2, <1>12 DEF Send
  <2> QED
    BY <1>t, <2>1, <2>2, Balance
<1>13. ASSUME NEW t \in Threads, WriteDone(t) PROVE RefLedger'
  <2>1. \A u \in Threads : u # t => pc'[u] = pc[u] /\ ret'[u] = ret[u]
    BY <1>13, <1>t DEF ThreadTyping, WriteDone
  <2>2. refcount' + shorts'
          = refcount + shorts + (Fixed' - Fixed) + (Share(t)' - Share(t))
    <3>1. CASE deleted
      BY <1>13, <1>t, <1>p, <3>1 DEF DataTyping, ThreadTyping, WriteDone, Share, Fixed, B2N, ClosePCs
    <3>2. CASE ~deleted /\ wq' = <<>>
      BY <1>13, <1>t, <1>p, <3>2 DEF DataTyping, ThreadTyping, WriteDone, Share, Fixed, B2N, ClosePCs
    <3>3. CASE ~deleted /\ wq' # <<>>
      BY <1>13, <1>t, <1>p, <3>3 DEF DataTyping, ThreadTyping, WriteDone, Share, Fixed, B2N, ClosePCs
    <3> QED
      BY <3>1, <3>2, <3>3
  <2> QED
    BY <1>t, <2>1, <2>2, Balance
<1>14. ASSUME NEW t \in Threads, WriteShort(t) PROVE RefLedger'
  <2>1. \A u \in Threads : u # t => pc'[u] = pc[u] /\ ret'[u] = ret[u]
    BY <1>14, <1>t DEF ThreadTyping, WriteShort
  <2>2. refcount' + shorts'
          = refcount + shorts + (Fixed' - Fixed) + (Share(t)' - Share(t))
    BY <1>14, <1>t, <1>p DEF DataTyping, ThreadTyping, WriteShort, ReleaseRef, Share, Fixed, B2N, ClosePCs
  <2> QED
    BY <1>t, <2>1, <2>2, Balance
<1>15. ASSUME NEW t \in Threads, BodyClose(t) PROVE RefLedger'
  <2>1. \A u \in Threads : u # t => pc'[u] = pc[u] /\ ret'[u] = ret[u]
    BY <1>15, <1>t DEF ThreadTyping, BodyClose
  <2>2. refcount' + shorts'
          = refcount + shorts + (Fixed' - Fixed) + (Share(t)' - Share(t))
    BY <1>15, <1>t, <1>p DEF DataTyping, ThreadTyping, BodyClose, Share, Fixed, B2N, ClosePCs
  <2> QED
    BY <1>t, <2>1, <2>2, Balance
<1>16. ASSUME NEW t \in Threads, BodyEnd(t) PROVE RefLedger'
  <2>1. \A u \in Threads : u # t => pc'[u] = pc[u] /\ ret'[u] = ret[u]
    BY <1>16, <1>t DEF ThreadTyping, BodyEnd
  <2>2. refcount' + shorts'
          = refcount + shorts + (Fixed' - Fixed) + (Share(t)' - Share(t))
    BY <1>16, <1>t, <1>p DEF DataTyping, ThreadTyping, BodyEnd, Share, Fixed, B2N, ClosePCs
  <2> QED
    BY <1>t, <2>1, <2>2, Balance
<1>17. ASSUME NEW t \in Threads, Close(t) PROVE RefLedger'
  <2>1. \A u \in Threads : u # t => pc'[u] = pc[u] /\ ret'[u] = ret[u]
    BY <1>17, <1>t DEF ThreadTyping, Close, Return
  <2>2. refcount' + shorts'
          = refcount + shorts + (Fixed' - Fixed) + (Share(t)' - Share(t))
    BY <1>17, <1>t, <1>p DEF DataTyping, ThreadTyping, Close, Return, CreateInv, Share, Fixed, B2N, ClosePCs
  <2> QED
    BY <1>t, <2>1, <2>2, Balance
<1>18. ASSUME NEW t \in Threads, OnClose(t) PROVE RefLedger'
  <2>1. \A u \in Threads : u # t => pc'[u] = pc[u] /\ ret'[u] = ret[u]
    BY <1>18, <1>t DEF ThreadTyping, OnClose
  <2>2. refcount' + shorts'
          = refcount + shorts + (Fixed' - Fixed) + (Share(t)' - Share(t))
    BY <1>18, <1>t, <1>p DEF DataTyping, ThreadTyping, OnClose, Share, Fixed, B2N, ClosePCs
  <2> QED
    BY <1>t, <2>1, <2>2, Balance
<1>19. ASSUME NEW t \in Threads, CloseHandle(t) PROVE RefLedger'
  <2>1. \A u \in Threads : u # t => pc'[u] = pc[u] /\ ret'[u] = ret[u]
    BY <1>19, <1>t DEF ThreadTyping, CloseHandle
  <2>2. refcount' + shorts'
          = refcount + shorts + (Fixed' - Fixed) + (Share(t)' - Share(t))
    BY <1>19, <1>t, <1>p DEF DataTyping, ThreadTyping, CloseHandle, Share, Fixed, B2N, ClosePCs
  <2> QED
    BY <1>t, <2>1, <2>2, Balance
<1>20. ASSUME NEW t \in Threads, ReleaseHandleRef(t) PROVE RefLedger'
  <2>1. \A u \in Threads : u # t => pc'[u] = pc[u] /\ ret'[u] = ret[u]
    BY <1>20, <1>t DEF ThreadTyping, ReleaseHandleRef, Return
  <2>2. refcount' + shorts'
          = refcount + shorts + (Fixed' - Fixed) + (Share(t)' - Share(t))
    <3>1. CASE ret[t] = "idle"
      BY <1>20, <1>t, <1>p, <3>1 DEF DataTyping, ThreadTyping, ReleaseHandleRef, ReleaseRef, Return, CreateInv, Share, Fixed, B2N, ClosePCs
    <3>2. CASE ret[t] = "relIo"
      BY <1>20, <1>t, <1>p, <3>2 DEF DataTyping, ThreadTyping, ReleaseHandleRef, ReleaseRef, Return, CreateInv, Share, Fixed, B2N, ClosePCs
    <3>3. CASE ret[t] = "relCb"
      BY <1>20, <1>t, <1>p, <3>3 DEF DataTyping, ThreadTyping, ReleaseHandleRef, ReleaseRef, Return, CreateInv, Share, Fixed, B2N, ClosePCs
    <3>4. CASE ret[t] = "body"
      BY <1>20, <1>t, <1>p, <3>4 DEF DataTyping, ThreadTyping, ReleaseHandleRef, ReleaseRef, Return, CreateInv, Share, Fixed, B2N, ClosePCs
    <3> QED
      BY <1>t, <3>1, <3>2, <3>3, <3>4 DEF ThreadTyping
  <2> QED
    BY <1>t, <2>1, <2>2, Balance
<1>21. ASSUME NEW t \in Threads, ReleaseIoRef(t) PROVE RefLedger'
  <2>1. \A u \in Threads : u # t => pc'[u] = pc[u] /\ ret'[u] = ret[u]
    BY <1>21, <1>t DEF ThreadTyping, ReleaseIoRef
  <2>2. refcount' + shorts'
          = refcount + shorts + (Fixed' - Fixed) + (Share(t)' - Share(t))
    BY <1>21, <1>t, <1>p DEF DataTyping, ThreadTyping, ReleaseIoRef, ReleaseRef, CreateInv, Share, Fixed, B2N, ClosePCs
  <2> QED
    BY <1>t, <2>1, <2>2, Balance
<1>22. ASSUME NEW t \in Threads, ReleaseCallbackRef(t) PROVE RefLedger'
  <2>1. \A u \in Threads : u # t => pc'[u] = pc[u] /\ ret'[u] = ret[u]
    BY <1>22, <1>t DEF ThreadTyping, ReleaseCallbackRef
  <2>2. refcount' + shorts'
          = refcount + shorts + (Fixed' - Fixed) + (Share(t)' - Share(t))
    BY <1>22, <1>t, <1>p, SMTT(30)
    DEF DataTyping, ThreadTyping, ReleaseCallbackRef, ReleaseRef, CreateInv, Share, Fixed, B2N, ClosePCs
  <2> QED
    BY <1>t, <2>1, <2>2, Balance
<1>23. ASSUME NEW t \in Threads, FreePacket(t) PROVE RefLedger'
  <2>1. \A u \in Threads : u # t => pc'[u] = pc[u] /\ ret'[u] = ret[u]
    BY <1>23, <1>t DEF ThreadTyping, FreePacket
  <2>2. refcount' + shorts'
          = refcount + shorts + (Fixed' - Fixed) + (Share(t)' - Share(t))
    BY <1>23, <1>t, <1>p DEF DataTyping, ThreadTyping, FreePacket, CreateInv, Share, Fixed, B2N, ClosePCs
  <2> QED
    BY <1>t, <2>1, <2>2, Balance
<1>24. CASE RecvCompletes
  BY <1>24, <1>t DEF RefLedger, Holders, CallbackRefs, IoRefs, HandleRefs, B2N, RecvCompletes
<1>25. CASE SendCompletes
  BY <1>25, <1>t DEF RefLedger, Holders, CallbackRefs, IoRefs, HandleRefs, B2N, SendCompletes
<1>26. CASE UNCHANGED vars
  BY <1>26, <1>t DEF RefLedger, Holders, CallbackRefs, IoRefs, HandleRefs, B2N, vars
<1>27. ASSUME NEW t \in Threads, InitializeDeleted(t) PROVE RefLedger'
  <2>1. \A u \in Threads : u # t => pc'[u] = pc[u] /\ ret'[u] = ret[u]
    BY <1>27, <1>t DEF ThreadTyping, InitializeDeleted
  <2>2. refcount' + shorts'
          = refcount + shorts + (Fixed' - Fixed) + (Share(t)' - Share(t))
    BY <1>27, <1>t, <1>p DEF DataTyping, ThreadTyping, InitializeDeleted, Share, Fixed, B2N, ClosePCs
  <2> QED
    BY <1>t, <2>1, <2>2, Balance
<1> QED
  BY <1>1, <1>2, <1>3, <1>4, <1>5, <1>6, <1>7, <1>8, <1>9, <1>10, <1>11, <1>12, <1>13,
     <1>14, <1>15, <1>16, <1>17, <1>18, <1>19, <1>20, <1>21, <1>22, <1>23, <1>24, <1>25,
     <1>26, <1>27 DEF Next

-----------------------------------------------------------------------------
LEMMA NextCreateInv == IInv /\ [Next]_vars => CreateInv'
<1> SUFFICES ASSUME IInv, [Next]_vars PROVE CreateInv'
  OBVIOUS
<1>t. ThreadTyping /\ CreateInv
  BY DEF IInv, Typing
<1> USE DEF Goto, CallClose, Finish, AddRef, handleVars, refVars,
            bufVars, queueVars, ioVars, threadVars
<1>1. ASSUME NEW t \in Threads, Initialize(t) PROVE CreateInv'
  BY <1>1, <1>t DEF ThreadTyping, CreateInv, ClosePCs, Initialize, Enter
<1>2. ASSUME NEW t \in Threads, FindSocket(t) PROVE CreateInv'
  BY <1>2, <1>t DEF ThreadTyping, CreateInv, ClosePCs, FindSocket, Enter
<1>3. ASSUME NEW t \in Threads, TakeRead(t) PROVE CreateInv'
  BY <1>3, <1>t DEF ThreadTyping, CreateInv, ClosePCs, TakeRead, Enter
<1>4. ASSUME NEW t \in Threads, TakeWrite(t) PROVE CreateInv'
  BY <1>4, <1>t DEF ThreadTyping, CreateInv, ClosePCs, TakeWrite, Enter
<1>5. ASSUME NEW t \in Threads, NEW p \in Packets, TakePacket(t, p) PROVE CreateInv'
  BY <1>5, <1>t DEF ThreadTyping, CreateInv, ClosePCs, TakePacket, Enter
<1>6. ASSUME NEW t \in Threads, Associate(t) PROVE CreateInv'
  BY <1>6, <1>t DEF ThreadTyping, CreateInv, ClosePCs, Associate
<1>7. ASSUME NEW t \in Threads, OnReadPost(t) PROVE CreateInv'
  BY <1>7, <1>t DEF ThreadTyping, CreateInv, ClosePCs, OnReadPost
<1>8. ASSUME NEW t \in Threads, OnReadBad(t) PROVE CreateInv'
  BY <1>8, <1>t DEF ThreadTyping, CreateInv, ClosePCs, OnReadBad
<1>9. ASSUME NEW t \in Threads, Read(t) PROVE CreateInv'
  BY <1>9, <1>t DEF ThreadTyping, CreateInv, ClosePCs, Read
<1>10. ASSUME NEW t \in Threads, Recv(t) PROVE CreateInv'
  BY <1>10, <1>t DEF ThreadTyping, CreateInv, ClosePCs, Recv
<1>11. ASSUME NEW t \in Threads, Write(t) PROVE CreateInv'
  BY <1>11, <1>t DEF ThreadTyping, CreateInv, ClosePCs, Write
<1>12. ASSUME NEW t \in Threads, Send(t) PROVE CreateInv'
  BY <1>12, <1>t DEF ThreadTyping, CreateInv, ClosePCs, Send
<1>13. ASSUME NEW t \in Threads, WriteDone(t) PROVE CreateInv'
  BY <1>13, <1>t DEF ThreadTyping, CreateInv, ClosePCs, WriteDone
<1>14. ASSUME NEW t \in Threads, WriteShort(t) PROVE CreateInv'
  BY <1>14, <1>t DEF ThreadTyping, CreateInv, ClosePCs, WriteShort
<1>15. ASSUME NEW t \in Threads, BodyClose(t) PROVE CreateInv'
  BY <1>15, <1>t DEF ThreadTyping, CreateInv, ClosePCs, BodyClose
<1>16. ASSUME NEW t \in Threads, BodyEnd(t) PROVE CreateInv'
  BY <1>16, <1>t DEF ThreadTyping, CreateInv, ClosePCs, BodyEnd
<1>17. ASSUME NEW t \in Threads, Close(t) PROVE CreateInv'
  BY <1>17, <1>t DEF ThreadTyping, CreateInv, ClosePCs, Close, Return
<1>18. ASSUME NEW t \in Threads, OnClose(t) PROVE CreateInv'
  BY <1>18, <1>t DEF ThreadTyping, CreateInv, ClosePCs, OnClose
<1>19. ASSUME NEW t \in Threads, CloseHandle(t) PROVE CreateInv'
  BY <1>19, <1>t DEF ThreadTyping, CreateInv, ClosePCs, CloseHandle
<1>20. ASSUME NEW t \in Threads, ReleaseHandleRef(t) PROVE CreateInv'
  BY <1>20, <1>t DEF ThreadTyping, CreateInv, ClosePCs, ReleaseHandleRef, Return
<1>21. ASSUME NEW t \in Threads, ReleaseIoRef(t) PROVE CreateInv'
  BY <1>21, <1>t DEF ThreadTyping, CreateInv, ClosePCs, ReleaseIoRef
<1>22. ASSUME NEW t \in Threads, ReleaseCallbackRef(t) PROVE CreateInv'
  BY <1>22, <1>t DEF ThreadTyping, CreateInv, ClosePCs, ReleaseCallbackRef
<1>23. ASSUME NEW t \in Threads, FreePacket(t) PROVE CreateInv'
  BY <1>23, <1>t DEF ThreadTyping, CreateInv, ClosePCs, FreePacket
<1>24. CASE RecvCompletes
  BY <1>24, <1>t DEF ThreadTyping, CreateInv, ClosePCs, RecvCompletes
<1>25. CASE SendCompletes
  BY <1>25, <1>t DEF ThreadTyping, CreateInv, ClosePCs, SendCompletes
<1>26. CASE UNCHANGED vars
  BY <1>26, <1>t DEF ThreadTyping, CreateInv, ClosePCs, vars
<1>27. ASSUME NEW t \in Threads, InitializeDeleted(t) PROVE CreateInv'
  BY <1>27, <1>t DEF ThreadTyping, CreateInv, ClosePCs, InitializeDeleted
<1> QED
  BY <1>1, <1>2, <1>3, <1>4, <1>5, <1>6, <1>7, <1>8, <1>9, <1>10, <1>11, <1>12, <1>13,
     <1>14, <1>15, <1>16, <1>17, <1>18, <1>19, <1>20, <1>21, <1>22, <1>23, <1>24, <1>25,
     <1>26, <1>27 DEF Next

LEMMA NextReadInv == IInv /\ [Next]_vars => ReadInv'
<1> SUFFICES ASSUME IInv, [Next]_vars PROVE ReadInv'
  OBVIOUS
<1>t. ThreadTyping /\ DataTyping /\ CreateInv /\ ReadInv
  BY DEF IInv, Typing
<1> USE DEF Goto, CallClose, Finish, AddRef, handleVars, refVars,
            bufVars, queueVars, ioVars, threadVars
<1>1. ASSUME NEW t \in Threads, Initialize(t) PROVE ReadInv'
  BY <1>1, <1>t DEF ThreadTyping, DataTyping, CreateInv, ReadInv, Reading, ClosePCs, Initialize, Enter
<1>2. ASSUME NEW t \in Threads, FindSocket(t) PROVE ReadInv'
  BY <1>2, <1>t DEF ThreadTyping, DataTyping, CreateInv, ReadInv, Reading, ClosePCs, FindSocket, Enter
<1>3. ASSUME NEW t \in Threads, TakeRead(t) PROVE ReadInv'
  BY <1>3, <1>t DEF ThreadTyping, DataTyping, CreateInv, ReadInv, Reading, ClosePCs, TakeRead, Enter
<1>4. ASSUME NEW t \in Threads, TakeWrite(t) PROVE ReadInv'
  BY <1>4, <1>t DEF ThreadTyping, DataTyping, CreateInv, ReadInv, Reading, ClosePCs, TakeWrite, Enter
<1>5. ASSUME NEW t \in Threads, NEW p \in Packets, TakePacket(t, p) PROVE ReadInv'
  BY <1>5, <1>t DEF ThreadTyping, DataTyping, CreateInv, ReadInv, Reading, ClosePCs, TakePacket, Enter
<1>6. ASSUME NEW t \in Threads, Associate(t) PROVE ReadInv'
  BY <1>6, <1>t DEF ThreadTyping, DataTyping, CreateInv, ReadInv, Reading, ClosePCs, Associate
<1>7. ASSUME NEW t \in Threads, OnReadPost(t) PROVE ReadInv'
  BY <1>7, <1>t DEF ThreadTyping, DataTyping, CreateInv, ReadInv, Reading, ClosePCs, OnReadPost
<1>8. ASSUME NEW t \in Threads, OnReadBad(t) PROVE ReadInv'
  BY <1>8, <1>t DEF ThreadTyping, DataTyping, CreateInv, ReadInv, Reading, ClosePCs, OnReadBad
<1>9. ASSUME NEW t \in Threads, Read(t) PROVE ReadInv'
  BY <1>9, <1>t DEF ThreadTyping, DataTyping, CreateInv, ReadInv, Reading, ClosePCs, Read
<1>10. ASSUME NEW t \in Threads, Recv(t) PROVE ReadInv'
  BY <1>10, <1>t DEF ThreadTyping, DataTyping, CreateInv, ReadInv, Reading, ClosePCs, Recv
<1>11. ASSUME NEW t \in Threads, Write(t) PROVE ReadInv'
  BY <1>11, <1>t DEF ThreadTyping, DataTyping, CreateInv, ReadInv, Reading, ClosePCs, Write
<1>12. ASSUME NEW t \in Threads, Send(t) PROVE ReadInv'
  BY <1>12, <1>t DEF ThreadTyping, DataTyping, CreateInv, ReadInv, Reading, ClosePCs, Send
<1>13. ASSUME NEW t \in Threads, WriteDone(t) PROVE ReadInv'
  BY <1>13, <1>t DEF ThreadTyping, DataTyping, CreateInv, ReadInv, Reading, ClosePCs, WriteDone
<1>14. ASSUME NEW t \in Threads, WriteShort(t) PROVE ReadInv'
  BY <1>14, <1>t DEF ThreadTyping, DataTyping, CreateInv, ReadInv, Reading, ClosePCs, WriteShort
<1>15. ASSUME NEW t \in Threads, BodyClose(t) PROVE ReadInv'
  BY <1>15, <1>t DEF ThreadTyping, DataTyping, CreateInv, ReadInv, Reading, ClosePCs, BodyClose
<1>16. ASSUME NEW t \in Threads, BodyEnd(t) PROVE ReadInv'
  BY <1>16, <1>t DEF ThreadTyping, DataTyping, CreateInv, ReadInv, Reading, ClosePCs, BodyEnd
<1>17. ASSUME NEW t \in Threads, Close(t) PROVE ReadInv'
  BY <1>17, <1>t DEF ThreadTyping, DataTyping, CreateInv, ReadInv, Reading, ClosePCs, Close, Return
<1>18. ASSUME NEW t \in Threads, OnClose(t) PROVE ReadInv'
  BY <1>18, <1>t DEF ThreadTyping, DataTyping, CreateInv, ReadInv, Reading, ClosePCs, OnClose
<1>19. ASSUME NEW t \in Threads, CloseHandle(t) PROVE ReadInv'
  BY <1>19, <1>t DEF ThreadTyping, DataTyping, CreateInv, ReadInv, Reading, ClosePCs, CloseHandle
<1>20. ASSUME NEW t \in Threads, ReleaseHandleRef(t) PROVE ReadInv'
  BY <1>20, <1>t DEF ThreadTyping, DataTyping, CreateInv, ReadInv, Reading, ClosePCs, ReleaseHandleRef, Return
<1>21. ASSUME NEW t \in Threads, ReleaseIoRef(t) PROVE ReadInv'
  BY <1>21, <1>t DEF ThreadTyping, DataTyping, CreateInv, ReadInv, Reading, ClosePCs, ReleaseIoRef
<1>22. ASSUME NEW t \in Threads, ReleaseCallbackRef(t) PROVE ReadInv'
  BY <1>22, <1>t DEF ThreadTyping, DataTyping, CreateInv, ReadInv, Reading, ClosePCs, ReleaseCallbackRef
<1>23. ASSUME NEW t \in Threads, FreePacket(t) PROVE ReadInv'
  BY <1>23, <1>t DEF ThreadTyping, DataTyping, CreateInv, ReadInv, Reading, ClosePCs, FreePacket
<1>24. CASE RecvCompletes
  BY <1>24, <1>t DEF ThreadTyping, DataTyping, CreateInv, ReadInv, Reading, ClosePCs, RecvCompletes
<1>25. CASE SendCompletes
  BY <1>25, <1>t DEF ThreadTyping, DataTyping, CreateInv, ReadInv, Reading, ClosePCs, SendCompletes
<1>26. CASE UNCHANGED vars
  BY <1>26, <1>t DEF ThreadTyping, DataTyping, CreateInv, ReadInv, Reading, ClosePCs, vars
<1>27. ASSUME NEW t \in Threads, InitializeDeleted(t) PROVE ReadInv'
  BY <1>27, <1>t DEF ThreadTyping, DataTyping, CreateInv, ReadInv, Reading, ClosePCs, InitializeDeleted
<1> QED
  BY <1>1, <1>2, <1>3, <1>4, <1>5, <1>6, <1>7, <1>8, <1>9, <1>10, <1>11, <1>12, <1>13,
     <1>14, <1>15, <1>16, <1>17, <1>18, <1>19, <1>20, <1>21, <1>22, <1>23, <1>24, <1>25,
     <1>26, <1>27 DEF Next

LEMMA NextPacketInv == IInv /\ [Next]_vars => PacketInv'
<1> SUFFICES ASSUME IInv, [Next]_vars PROVE PacketInv'
  OBVIOUS
<1>t. ThreadTyping /\ DataTyping /\ PacketInv
  BY DEF IInv, Typing
<1> USE DEF Goto, CallClose, Finish, AddRef, handleVars, refVars,
            bufVars, queueVars, ioVars, threadVars
<1>1. ASSUME NEW t \in Threads, Initialize(t) PROVE PacketInv'
  BY <1>1, <1>t DEF ThreadTyping, DataTyping, PacketInv, Initialize, Enter
<1>2. ASSUME NEW t \in Threads, FindSocket(t) PROVE PacketInv'
  BY <1>2, <1>t DEF ThreadTyping, DataTyping, PacketInv, FindSocket, Enter
<1>3. ASSUME NEW t \in Threads, TakeRead(t) PROVE PacketInv'
  BY <1>3, <1>t DEF ThreadTyping, DataTyping, PacketInv, TakeRead, Enter
<1>4. ASSUME NEW t \in Threads, TakeWrite(t) PROVE PacketInv'
  BY <1>4, <1>t DEF ThreadTyping, DataTyping, PacketInv, TakeWrite, Enter
<1>5. ASSUME NEW t \in Threads, NEW p \in Packets, TakePacket(t, p) PROVE PacketInv'
  BY <1>5, <1>t DEF ThreadTyping, DataTyping, PacketInv, TakePacket, Enter
<1>6. ASSUME NEW t \in Threads, Associate(t) PROVE PacketInv'
  BY <1>6, <1>t DEF ThreadTyping, DataTyping, PacketInv, Associate
<1>7. ASSUME NEW t \in Threads, OnReadPost(t) PROVE PacketInv'
  <2>1. PICK p \in Packets : /\ pktBuf[p] = NoBuf
                             /\ pktBuf' = [pktBuf EXCEPT ![p] = rbuf]
                             /\ posted' = posted \cup {p}
    BY <1>7 DEF OnReadPost
  <2>2. rbuf # NoBuf /\ pktBuf \in [Packets -> Buffers \cup {NoBuf}]
    BY <1>t, SocketAssumption DEF DataTyping
  <2>3. UNCHANGED <<pc, role, pkt>>
    BY <1>7 DEF OnReadPost
  <2> QED
    BY <1>t, <2>1, <2>2, <2>3 DEF PacketInv
<1>8. ASSUME NEW t \in Threads, OnReadBad(t) PROVE PacketInv'
  BY <1>8, <1>t DEF ThreadTyping, DataTyping, PacketInv, OnReadBad
<1>9. ASSUME NEW t \in Threads, Read(t) PROVE PacketInv'
  BY <1>9, <1>t DEF ThreadTyping, DataTyping, PacketInv, Read
<1>10. ASSUME NEW t \in Threads, Recv(t) PROVE PacketInv'
  BY <1>10, <1>t DEF ThreadTyping, DataTyping, PacketInv, Recv
<1>11. ASSUME NEW t \in Threads, Write(t) PROVE PacketInv'
  BY <1>11, <1>t DEF ThreadTyping, DataTyping, PacketInv, Write
<1>12. ASSUME NEW t \in Threads, Send(t) PROVE PacketInv'
  BY <1>12, <1>t DEF ThreadTyping, DataTyping, PacketInv, Send
<1>13. ASSUME NEW t \in Threads, WriteDone(t) PROVE PacketInv'
  BY <1>13, <1>t DEF ThreadTyping, DataTyping, PacketInv, WriteDone
<1>14. ASSUME NEW t \in Threads, WriteShort(t) PROVE PacketInv'
  BY <1>14, <1>t DEF ThreadTyping, DataTyping, PacketInv, WriteShort
<1>15. ASSUME NEW t \in Threads, BodyClose(t) PROVE PacketInv'
  BY <1>15, <1>t DEF ThreadTyping, DataTyping, PacketInv, BodyClose
<1>16. ASSUME NEW t \in Threads, BodyEnd(t) PROVE PacketInv'
  BY <1>16, <1>t DEF ThreadTyping, DataTyping, PacketInv, BodyEnd
<1>17. ASSUME NEW t \in Threads, Close(t) PROVE PacketInv'
  BY <1>17, <1>t DEF ThreadTyping, DataTyping, PacketInv, Close, Return
<1>18. ASSUME NEW t \in Threads, OnClose(t) PROVE PacketInv'
  BY <1>18, <1>t DEF ThreadTyping, DataTyping, PacketInv, OnClose
<1>19. ASSUME NEW t \in Threads, CloseHandle(t) PROVE PacketInv'
  BY <1>19, <1>t DEF ThreadTyping, DataTyping, PacketInv, CloseHandle
<1>20. ASSUME NEW t \in Threads, ReleaseHandleRef(t) PROVE PacketInv'
  BY <1>20, <1>t DEF ThreadTyping, DataTyping, PacketInv, ReleaseHandleRef, Return
<1>21. ASSUME NEW t \in Threads, ReleaseIoRef(t) PROVE PacketInv'
  BY <1>21, <1>t DEF ThreadTyping, DataTyping, PacketInv, ReleaseIoRef
<1>22. ASSUME NEW t \in Threads, ReleaseCallbackRef(t) PROVE PacketInv'
  BY <1>22, <1>t DEF ThreadTyping, DataTyping, PacketInv, ReleaseCallbackRef
<1>23. ASSUME NEW t \in Threads, FreePacket(t) PROVE PacketInv'
  BY <1>23, <1>t DEF ThreadTyping, DataTyping, PacketInv, FreePacket
<1>24. CASE RecvCompletes
  BY <1>24, <1>t DEF ThreadTyping, DataTyping, PacketInv, RecvCompletes
<1>25. CASE SendCompletes
  BY <1>25, <1>t DEF ThreadTyping, DataTyping, PacketInv, SendCompletes
<1>26. CASE UNCHANGED vars
  BY <1>26, <1>t DEF ThreadTyping, DataTyping, PacketInv, vars
<1>27. ASSUME NEW t \in Threads, InitializeDeleted(t) PROVE PacketInv'
  BY <1>27, <1>t DEF ThreadTyping, DataTyping, PacketInv, InitializeDeleted
<1> QED
  BY <1>1, <1>2, <1>3, <1>4, <1>5, <1>6, <1>7, <1>8, <1>9, <1>10, <1>11, <1>12, <1>13,
     <1>14, <1>15, <1>16, <1>17, <1>18, <1>19, <1>20, <1>21, <1>22, <1>23, <1>24, <1>25,
     <1>26, <1>27 DEF Next

LEMMA NextListedInv == IInv /\ [Next]_vars => ListedInv'
<1> SUFFICES ASSUME IInv, [Next]_vars PROVE ListedInv'
  OBVIOUS
<1>t. ThreadTyping /\ ListedInv
  BY DEF IInv, Typing
<1> USE DEF Goto, CallClose, Finish, AddRef, handleVars, refVars,
            bufVars, queueVars, ioVars, threadVars
<1>1. ASSUME NEW t \in Threads, Initialize(t) PROVE ListedInv'
  BY <1>1, <1>t DEF ThreadTyping, ListedInv, Initialize, Enter
<1>2. ASSUME NEW t \in Threads, FindSocket(t) PROVE ListedInv'
  BY <1>2, <1>t DEF ThreadTyping, ListedInv, FindSocket, Enter
<1>3. ASSUME NEW t \in Threads, TakeRead(t) PROVE ListedInv'
  BY <1>3, <1>t DEF ThreadTyping, ListedInv, TakeRead, Enter
<1>4. ASSUME NEW t \in Threads, TakeWrite(t) PROVE ListedInv'
  BY <1>4, <1>t DEF ThreadTyping, ListedInv, TakeWrite, Enter
<1>5. ASSUME NEW t \in Threads, NEW p \in Packets, TakePacket(t, p) PROVE ListedInv'
  BY <1>5, <1>t DEF ThreadTyping, ListedInv, TakePacket, Enter
<1>6. ASSUME NEW t \in Threads, Associate(t) PROVE ListedInv'
  BY <1>6, <1>t DEF ThreadTyping, ListedInv, Associate
<1>7. ASSUME NEW t \in Threads, OnReadPost(t) PROVE ListedInv'
  BY <1>7, <1>t DEF ThreadTyping, ListedInv, OnReadPost
<1>8. ASSUME NEW t \in Threads, OnReadBad(t) PROVE ListedInv'
  BY <1>8, <1>t DEF ThreadTyping, ListedInv, OnReadBad
<1>9. ASSUME NEW t \in Threads, Read(t) PROVE ListedInv'
  BY <1>9, <1>t DEF ThreadTyping, ListedInv, Read
<1>10. ASSUME NEW t \in Threads, Recv(t) PROVE ListedInv'
  BY <1>10, <1>t DEF ThreadTyping, ListedInv, Recv
<1>11. ASSUME NEW t \in Threads, Write(t) PROVE ListedInv'
  BY <1>11, <1>t DEF ThreadTyping, ListedInv, Write
<1>12. ASSUME NEW t \in Threads, Send(t) PROVE ListedInv'
  BY <1>12, <1>t DEF ThreadTyping, ListedInv, Send
<1>13. ASSUME NEW t \in Threads, WriteDone(t) PROVE ListedInv'
  BY <1>13, <1>t DEF ThreadTyping, ListedInv, WriteDone
<1>14. ASSUME NEW t \in Threads, WriteShort(t) PROVE ListedInv'
  BY <1>14, <1>t DEF ThreadTyping, ListedInv, WriteShort
<1>15. ASSUME NEW t \in Threads, BodyClose(t) PROVE ListedInv'
  BY <1>15, <1>t DEF ThreadTyping, ListedInv, BodyClose
<1>16. ASSUME NEW t \in Threads, BodyEnd(t) PROVE ListedInv'
  BY <1>16, <1>t DEF ThreadTyping, ListedInv, BodyEnd
<1>17. ASSUME NEW t \in Threads, Close(t) PROVE ListedInv'
  BY <1>17, <1>t DEF ThreadTyping, ListedInv, Close, Return
<1>18. ASSUME NEW t \in Threads, OnClose(t) PROVE ListedInv'
  BY <1>18, <1>t DEF ThreadTyping, ListedInv, OnClose
<1>19. ASSUME NEW t \in Threads, CloseHandle(t) PROVE ListedInv'
  BY <1>19, <1>t DEF ThreadTyping, ListedInv, CloseHandle
<1>20. ASSUME NEW t \in Threads, ReleaseHandleRef(t) PROVE ListedInv'
  BY <1>20, <1>t DEF ThreadTyping, ListedInv, ReleaseHandleRef, Return
<1>21. ASSUME NEW t \in Threads, ReleaseIoRef(t) PROVE ListedInv'
  BY <1>21, <1>t DEF ThreadTyping, ListedInv, ReleaseIoRef
<1>22. ASSUME NEW t \in Threads, ReleaseCallbackRef(t) PROVE ListedInv'
  BY <1>22, <1>t DEF ThreadTyping, ListedInv, ReleaseCallbackRef
<1>23. ASSUME NEW t \in Threads, FreePacket(t) PROVE ListedInv'
  BY <1>23, <1>t DEF ThreadTyping, ListedInv, FreePacket
<1>24. CASE RecvCompletes
  BY <1>24, <1>t DEF ThreadTyping, ListedInv, RecvCompletes
<1>25. CASE SendCompletes
  BY <1>25, <1>t DEF ThreadTyping, ListedInv, SendCompletes
<1>26. CASE UNCHANGED vars
  BY <1>26, <1>t DEF ThreadTyping, ListedInv, vars
<1>27. ASSUME NEW t \in Threads, InitializeDeleted(t) PROVE ListedInv'
  BY <1>27, <1>t DEF ThreadTyping, ListedInv, InitializeDeleted
<1> QED
  BY <1>1, <1>2, <1>3, <1>4, <1>5, <1>6, <1>7, <1>8, <1>9, <1>10, <1>11, <1>12, <1>13,
     <1>14, <1>15, <1>16, <1>17, <1>18, <1>19, <1>20, <1>21, <1>22, <1>23, <1>24, <1>25,
     <1>26, <1>27 DEF Next

\* The count is not negative before a short write.
LEMMA CountOfHolders ==
  ASSUME IInv PROVE shorts = 0 => refcount >= 0
<1>1. Holders \in Nat
  <2>1. Cardinality(posted) \in Nat
    BY FinitePackets DEF IInv, Typing, DataTyping
  <2> QED
    BY <2>1, RefCounts DEF Holders, B2N
<1> QED
  BY <1>1 DEF IInv, Typing, DataTyping, RefLedger

\* While the handle is open or a callback runs, the object is there.
LEMMA Alive ==
  ASSUME IInv, shorts = 0, hSocket \/ CallbackRefs # {}
  PROVE  ~deleted /\ refcount > 0
<1>1. refcount = Holders /\ Cardinality(posted) \in Nat
  BY FinitePackets DEF IInv, Typing, DataTyping, RefLedger
<1>2. CallbackRefs # {} => Cardinality(CallbackRefs) # 0
  <2>1. IsFiniteSet(CallbackRefs)
    BY RefSets, FiniteThreads
  <2> QED
    BY <2>1, FS_EmptySet
<1>3. B2N(hSocket) \in Nat /\ (hSocket => B2N(hSocket) = 1)
  BY DEF B2N
<1>4. B2N(rd # "none") \in Nat /\ B2N(wr # "none") \in Nat /\ B2N(leaked) \in Nat
  BY DEF B2N
<1>5. B2N(hSocket) + Cardinality(CallbackRefs) > 0
  BY <1>2, <1>3, RefCounts
<1>6. B2N(started = "deleted") \in Nat
  BY DEF B2N
<1>7. Holders > B2N(started = "deleted")
  BY <1>1, <1>3, <1>4, <1>5, <1>6, RefCounts DEF Holders
<1> QED
  BY <1>1, <1>6, <1>7 DEF IInv, Typing, DataTyping, DeletedInv

LEMMA NextDeletedInv == IInv /\ [Next]_vars => DeletedInv'
<1> SUFFICES ASSUME IInv, [Next]_vars PROVE DeletedInv'
  OBVIOUS
<1>t. DataTyping /\ DeletedInv
  BY DEF IInv, Typing
<1> USE DEF Goto, CallClose, Finish, AddRef, handleVars, refVars,
            bufVars, queueVars, ioVars, threadVars, B2N
<1>1. ASSUME NEW t \in Threads, Initialize(t) PROVE DeletedInv'
  <2>1. shorts = 0 => refcount >= 0
    BY CountOfHolders
  <2> QED
    BY <1>1, <1>t, <2>1 DEF DeletedInv, DataTyping, Initialize
<1>2. ASSUME NEW t \in Threads, FindSocket(t) PROVE DeletedInv'
  <2>1. hSocket \/ CallbackRefs # {}
    BY <1>2 DEF IInv, ListedInv, CallbackRefs, FindSocket
  <2> QED
    BY <1>2, <1>t, <2>1, Alive DEF DeletedInv, DataTyping, FindSocket
<1>3. ASSUME NEW t \in Threads, TakeRead(t) PROVE DeletedInv'
  BY <1>3, <1>t DEF DeletedInv, TakeRead
<1>4. ASSUME NEW t \in Threads, TakeWrite(t) PROVE DeletedInv'
  BY <1>4, <1>t DEF DeletedInv, TakeWrite
<1>5. ASSUME NEW t \in Threads, NEW p \in Packets, TakePacket(t, p) PROVE DeletedInv'
  BY <1>5, <1>t DEF DeletedInv, TakePacket
<1>6. ASSUME NEW t \in Threads, Associate(t) PROVE DeletedInv'
  BY <1>6, <1>t DEF DeletedInv, Associate
<1>7. ASSUME NEW t \in Threads, OnReadPost(t) PROVE DeletedInv'
  <2>1. t \in CallbackRefs
    BY <1>7 DEF CallbackRefs, OnReadPost
  <2> QED
    BY <1>7, <1>t, <2>1, Alive DEF DeletedInv, DataTyping, OnReadPost
<1>8. ASSUME NEW t \in Threads, OnReadBad(t) PROVE DeletedInv'
  BY <1>8, <1>t DEF DeletedInv, OnReadBad
<1>9. ASSUME NEW t \in Threads, Read(t) PROVE DeletedInv'
  <2>1. t \in CallbackRefs
    BY <1>9 DEF CallbackRefs, Read
  <2> QED
    BY <1>9, <1>t, <2>1, Alive DEF DeletedInv, DataTyping, Read
<1>10. ASSUME NEW t \in Threads, Recv(t) PROVE DeletedInv'
  BY <1>10, <1>t DEF DeletedInv, Recv
<1>11. ASSUME NEW t \in Threads, Write(t) PROVE DeletedInv'
  <2>1. t \in CallbackRefs
    BY <1>11 DEF CallbackRefs, Write
  <2> QED
    BY <1>11, <1>t, <2>1, Alive DEF DeletedInv, DataTyping, Write
<1>12. ASSUME NEW t \in Threads, Send(t) PROVE DeletedInv'
  BY <1>12, <1>t DEF DeletedInv, Send
<1>13. ASSUME NEW t \in Threads, WriteDone(t) PROVE DeletedInv'
  <2>1. t \in CallbackRefs
    BY <1>13 DEF CallbackRefs, WriteDone
  <2> QED
    BY <1>13, <1>t, <2>1, Alive DEF DeletedInv, DataTyping, WriteDone
<1>14. ASSUME NEW t \in Threads, WriteShort(t) PROVE DeletedInv'
  BY <1>14, <1>t DEF DeletedInv, DataTyping, WriteShort, ReleaseRef
<1>15. ASSUME NEW t \in Threads, BodyClose(t) PROVE DeletedInv'
  BY <1>15, <1>t DEF DeletedInv, BodyClose
<1>16. ASSUME NEW t \in Threads, BodyEnd(t) PROVE DeletedInv'
  BY <1>16, <1>t DEF DeletedInv, BodyEnd
<1>17. ASSUME NEW t \in Threads, Close(t) PROVE DeletedInv'
  BY <1>17, <1>t DEF DeletedInv, Close, Return
<1>18. ASSUME NEW t \in Threads, OnClose(t) PROVE DeletedInv'
  BY <1>18, <1>t DEF DeletedInv, OnClose
<1>19. ASSUME NEW t \in Threads, CloseHandle(t) PROVE DeletedInv'
  BY <1>19, <1>t DEF DeletedInv, CloseHandle
<1>20. ASSUME NEW t \in Threads, ReleaseHandleRef(t) PROVE DeletedInv'
  <2>1. t \in CallbackRefs
    BY <1>20 DEF CallbackRefs, ReleaseHandleRef
  <2> QED
    BY <1>20, <1>t, <2>1, Alive DEF DeletedInv, DataTyping, ReleaseHandleRef, ReleaseRef
<1>21. ASSUME NEW t \in Threads, ReleaseIoRef(t) PROVE DeletedInv'
  <2>1. t \in CallbackRefs
    BY <1>21 DEF CallbackRefs, ReleaseIoRef
  <2> QED
    BY <1>21, <1>t, <2>1, Alive DEF DeletedInv, DataTyping, ReleaseIoRef, ReleaseRef
<1>22. ASSUME NEW t \in Threads, ReleaseCallbackRef(t) PROVE DeletedInv'
  <2>1. t \in CallbackRefs
    BY <1>22 DEF CallbackRefs, ReleaseCallbackRef
  <2> QED
    BY <1>22, <1>t, <2>1, Alive DEF DeletedInv, DataTyping, ReleaseCallbackRef, ReleaseRef
<1>23. ASSUME NEW t \in Threads, FreePacket(t) PROVE DeletedInv'
  BY <1>23, <1>t DEF DeletedInv, FreePacket
<1>24. CASE RecvCompletes
  BY <1>24, <1>t DEF DeletedInv, RecvCompletes
<1>25. CASE SendCompletes
  BY <1>25, <1>t DEF DeletedInv, SendCompletes
<1>26. CASE UNCHANGED vars
  BY <1>26, <1>t DEF DeletedInv, vars
<1>27. ASSUME NEW t \in Threads, InitializeDeleted(t) PROVE DeletedInv'
  BY <1>27, <1>t DEF DeletedInv, InitializeDeleted
<1> QED
  BY <1>1, <1>2, <1>3, <1>4, <1>5, <1>6, <1>7, <1>8, <1>9, <1>10, <1>11, <1>12, <1>13,
     <1>14, <1>15, <1>16, <1>17, <1>18, <1>19, <1>20, <1>21, <1>22, <1>23, <1>24, <1>25,
     <1>26, <1>27 DEF Next

\* A count of zero means that no write is outstanding, unless one came short.
LEMMA NoHolders ==
  ASSUME Typing', RefLedger', refcount' = 0, shorts' = 0
  PROVE  wr' = "none" /\ Sending' = {}
<1>1. Cardinality(posted') \in Nat /\ Holders' = 0
  BY FinitePackets DEF Typing, DataTyping, RefLedger
<1>2. /\ B2N(hSocket') \in Nat /\ B2N(rd' # "none") \in Nat /\ B2N(leaked') \in Nat
      /\ B2N(wr' # "none") \in Nat /\ (wr' # "none" => B2N(wr' # "none") = 1)
      /\ B2N(started' = "deleted") \in Nat
  BY DEF B2N
<1>3. ASSUME B2N(wr' # "none") + Cardinality(CallbackRefs') > 0 PROVE Holders' > 0
  BY <1>1, <1>2, <1>3, RefCounts DEF Holders
<1>4. ~(B2N(wr' # "none") + Cardinality(CallbackRefs') > 0)
  BY <1>1, <1>3
<1>5. wr' = "none" /\ Cardinality(CallbackRefs') = 0
  BY <1>2, <1>4, RefCounts
<1>6. CallbackRefs' = {}
  BY <1>5, RefSets, FiniteThreads, FS_EmptySet
<1> QED
  BY <1>5, <1>6 DEF Sending, CallbackRefs

LEMMA NextSendInv == IInv /\ [Next]_vars => SendInv'
<1> SUFFICES ASSUME IInv, [Next]_vars PROVE SendInv'
  OBVIOUS
<1>t. ThreadTyping /\ DataTyping /\ QueueTyping /\ SendInv
  BY DEF IInv, Typing
<1>n. Typing' /\ RefLedger'
  BY NextTyping, NextLedger DEF IInv
<1>h. refcount' = 0 /\ shorts' = 0 => wr' = "none" /\ Sending' = {}
  BY <1>n, NoHolders
<1> USE DEF Goto, CallClose, Finish, AddRef, handleVars, refVars,
            bufVars, queueVars, ioVars, threadVars
<1>1. ASSUME NEW t \in Threads, Initialize(t) PROVE SendInv'
  BY <1>1, <1>t DEF ThreadTyping, DataTyping, SendInv, Sending, Initialize, Enter
<1>2. ASSUME NEW t \in Threads, FindSocket(t) PROVE SendInv'
  BY <1>2, <1>t DEF ThreadTyping, DataTyping, SendInv, Sending, FindSocket, Enter
<1>3. ASSUME NEW t \in Threads, TakeRead(t) PROVE SendInv'
  BY <1>3, <1>t DEF ThreadTyping, DataTyping, SendInv, Sending, TakeRead, Enter
<1>4. ASSUME NEW t \in Threads, TakeWrite(t) PROVE SendInv'
  BY <1>4, <1>t DEF ThreadTyping, DataTyping, SendInv, Sending, TakeWrite, Enter
<1>5. ASSUME NEW t \in Threads, NEW p \in Packets, TakePacket(t, p) PROVE SendInv'
  BY <1>5, <1>t DEF ThreadTyping, DataTyping, SendInv, Sending, TakePacket, Enter
<1>6. ASSUME NEW t \in Threads, Associate(t) PROVE SendInv'
  BY <1>6, <1>t DEF ThreadTyping, DataTyping, SendInv, Sending, Associate
<1>7. ASSUME NEW t \in Threads, OnReadPost(t) PROVE SendInv'
  BY <1>7, <1>t DEF ThreadTyping, DataTyping, SendInv, Sending, OnReadPost
<1>8. ASSUME NEW t \in Threads, OnReadBad(t) PROVE SendInv'
  BY <1>8, <1>t DEF ThreadTyping, DataTyping, SendInv, Sending, OnReadBad
<1>9. ASSUME NEW t \in Threads, Read(t) PROVE SendInv'
  BY <1>9, <1>t DEF ThreadTyping, DataTyping, SendInv, Sending, Read
<1>10. ASSUME NEW t \in Threads, Recv(t) PROVE SendInv'
  BY <1>10, <1>t DEF ThreadTyping, DataTyping, SendInv, Sending, Recv
<1>11. ASSUME NEW t \in Threads, Write(t) PROVE SendInv'
  <2>1. wq' # <<>>
    BY <1>11, <1>t, EnqueueType DEF QueueTyping, Write
  <2>2. CASE wq = <<>>
    <3>1. Sending = {} /\ wr = "none" /\ ~(shorts > 0 /\ ~deleted)
      BY <1>t, <2>2 DEF SendInv
    <3>2. Sending' = {t} /\ UNCHANGED <<wr, shorts, deleted>>
      BY <1>11, <1>t, <2>2, <3>1 DEF ThreadTyping, Sending, Write
    <3> QED
      BY <2>1, <3>1, <3>2 DEF SendInv
  <2>3. CASE wq # <<>>
    <3>1. Sending' = Sending /\ UNCHANGED <<wr, shorts, deleted>>
      BY <1>11, <2>3 DEF Sending, Write
    <3> QED
      BY <1>t, <2>1, <3>1 DEF SendInv
  <2> QED
    BY <2>2, <2>3
<1>12. ASSUME NEW t \in Threads, Send(t) PROVE SendInv'
  BY <1>12, <1>t DEF ThreadTyping, DataTyping, SendInv, Sending, Send
<1>13. ASSUME NEW t \in Threads, WriteDone(t) PROVE SendInv'
  <2>1. t \in Sending /\ wr = "none" /\ wr' = wr
    BY <1>13, <1>t DEF SendInv, Sending, WriteDone
  <2>2. /\ Sending' = {} \/ (Sending' = {t} /\ wq' # <<>>)
        /\ UNCHANGED <<shorts, deleted>>
    BY <1>13, <1>t, <2>1 DEF ThreadTyping, SendInv, Sending, WriteDone
  <2> QED
    BY <1>t, <2>1, <2>2 DEF SendInv
<1>14. ASSUME NEW t \in Threads, WriteShort(t) PROVE SendInv'
  <2>1. t \in Sending /\ wr = "none" /\ wq # <<>> /\ wr' = wr
    BY <1>14, <1>t DEF SendInv, Sending, WriteShort
  <2>2. Sending' = {}
    BY <1>14, <1>t, <2>1 DEF ThreadTyping, SendInv, Sending, WriteShort
  <2>3. ~deleted' => wq' = wq
    BY <1>14 DEF WriteShort, ReleaseRef
  <2> QED
    BY <2>1, <2>2, <2>3 DEF SendInv
<1>15. ASSUME NEW t \in Threads, BodyClose(t) PROVE SendInv'
  BY <1>15, <1>t DEF ThreadTyping, DataTyping, SendInv, Sending, BodyClose
<1>16. ASSUME NEW t \in Threads, BodyEnd(t) PROVE SendInv'
  BY <1>16, <1>t DEF ThreadTyping, DataTyping, SendInv, Sending, BodyEnd
<1>17. ASSUME NEW t \in Threads, Close(t) PROVE SendInv'
  BY <1>17, <1>t DEF ThreadTyping, DataTyping, SendInv, Sending, Close, Return
<1>18. ASSUME NEW t \in Threads, OnClose(t) PROVE SendInv'
  BY <1>18, <1>t DEF ThreadTyping, DataTyping, SendInv, Sending, OnClose
<1>19. ASSUME NEW t \in Threads, CloseHandle(t) PROVE SendInv'
  BY <1>19, <1>t DEF ThreadTyping, DataTyping, SendInv, Sending, CloseHandle
<1>20. ASSUME NEW t \in Threads, ReleaseHandleRef(t) PROVE SendInv'
  <2>1. Sending' = Sending /\ wr' = wr /\ shorts' = shorts
    BY <1>20, <1>t DEF ThreadTyping, Sending, ReleaseHandleRef, Return
  <2>2. CASE wq' = wq /\ deleted' = deleted
    BY <1>t, <2>1, <2>2 DEF SendInv
  <2>3. CASE ~(wq' = wq /\ deleted' = deleted)
    <3>1. refcount' = 0 /\ ~deleted /\ deleted'
      BY <1>20, <1>t, <2>3 DEF DataTyping, ReleaseHandleRef, ReleaseRef
    <3>2. wr = "none" /\ Sending = {}
      BY <1>t, <2>1, <3>1, <1>h DEF SendInv, DataTyping
    <3> QED
      BY <2>1, <3>1, <3>2 DEF SendInv
  <2> QED
    BY <2>2, <2>3
<1>21. ASSUME NEW t \in Threads, ReleaseIoRef(t) PROVE SendInv'
  <2>1. Sending' = Sending /\ wr' = wr /\ shorts' = shorts
    BY <1>21, <1>t DEF ThreadTyping, Sending, ReleaseIoRef
  <2>2. CASE wq' = wq /\ deleted' = deleted
    BY <1>t, <2>1, <2>2 DEF SendInv
  <2>3. CASE ~(wq' = wq /\ deleted' = deleted)
    <3>1. refcount' = 0 /\ ~deleted /\ deleted'
      BY <1>21, <1>t, <2>3 DEF DataTyping, ReleaseIoRef, ReleaseRef
    <3>2. wr = "none" /\ Sending = {}
      BY <1>t, <2>1, <3>1, <1>h DEF SendInv, DataTyping
    <3> QED
      BY <2>1, <3>1, <3>2 DEF SendInv
  <2> QED
    BY <2>2, <2>3
<1>22. ASSUME NEW t \in Threads, ReleaseCallbackRef(t) PROVE SendInv'
  <2>1. Sending' = Sending /\ wr' = wr /\ shorts' = shorts
    BY <1>22, <1>t DEF ThreadTyping, Sending, ReleaseCallbackRef
  <2>2. CASE wq' = wq /\ deleted' = deleted
    BY <1>t, <2>1, <2>2 DEF SendInv
  <2>3. CASE ~(wq' = wq /\ deleted' = deleted)
    <3>1. refcount' = 0 /\ ~deleted /\ deleted'
      BY <1>22, <1>t, <2>3 DEF DataTyping, ReleaseCallbackRef, ReleaseRef
    <3>2. wr = "none" /\ Sending = {}
      BY <1>t, <2>1, <3>1, <1>h DEF SendInv, DataTyping
    <3> QED
      BY <2>1, <3>1, <3>2 DEF SendInv
  <2> QED
    BY <2>2, <2>3
<1>23. ASSUME NEW t \in Threads, FreePacket(t) PROVE SendInv'
  BY <1>23, <1>t DEF ThreadTyping, DataTyping, SendInv, Sending, FreePacket
<1>24. CASE RecvCompletes
  BY <1>24, <1>t DEF ThreadTyping, DataTyping, SendInv, Sending, RecvCompletes
<1>25. CASE SendCompletes
  BY <1>25, <1>t DEF ThreadTyping, DataTyping, SendInv, Sending, SendCompletes
<1>26. CASE UNCHANGED vars
  BY <1>26, <1>t DEF ThreadTyping, DataTyping, SendInv, Sending, vars
<1>27. ASSUME NEW t \in Threads, InitializeDeleted(t) PROVE SendInv'
  BY <1>27, <1>t DEF ThreadTyping, DataTyping, SendInv, Sending, InitializeDeleted
<1> QED
  BY <1>1, <1>2, <1>3, <1>4, <1>5, <1>6, <1>7, <1>8, <1>9, <1>10, <1>11, <1>12, <1>13,
     <1>14, <1>15, <1>16, <1>17, <1>18, <1>19, <1>20, <1>21, <1>22, <1>23, <1>24, <1>25,
     <1>26, <1>27 DEF Next

LEMMA EmptyQueue == <<>> \in Seq(Seq(Int))
OBVIOUS

LEMMA NextQueueTyping == IInv /\ [Next]_vars => QueueTyping'
<1> SUFFICES ASSUME IInv, [Next]_vars PROVE QueueTyping'
  OBVIOUS
<1>t. QueueTyping /\ SendInv
  BY DEF IInv, Typing
<1> USE DEF Goto, CallClose, Finish, AddRef, handleVars, refVars,
            bufVars, queueVars, ioVars, threadVars
<1>1. ASSUME NEW t \in Threads, Initialize(t) PROVE QueueTyping'
  BY <1>1, <1>t DEF QueueTyping, Initialize
<1>2. ASSUME NEW t \in Threads, FindSocket(t) PROVE QueueTyping'
  BY <1>2, <1>t DEF QueueTyping, FindSocket
<1>3. ASSUME NEW t \in Threads, TakeRead(t) PROVE QueueTyping'
  BY <1>3, <1>t DEF QueueTyping, TakeRead
<1>4. ASSUME NEW t \in Threads, TakeWrite(t) PROVE QueueTyping'
  BY <1>4, <1>t DEF QueueTyping, TakeWrite
<1>5. ASSUME NEW t \in Threads, NEW p \in Packets, TakePacket(t, p) PROVE QueueTyping'
  BY <1>5, <1>t DEF QueueTyping, TakePacket
<1>6. ASSUME NEW t \in Threads, Associate(t) PROVE QueueTyping'
  BY <1>6, <1>t DEF QueueTyping, Associate
<1>7. ASSUME NEW t \in Threads, OnReadPost(t) PROVE QueueTyping'
  BY <1>7, <1>t DEF QueueTyping, OnReadPost
<1>8. ASSUME NEW t \in Threads, OnReadBad(t) PROVE QueueTyping'
  BY <1>8, <1>t DEF QueueTyping, OnReadBad
<1>9. ASSUME NEW t \in Threads, Read(t) PROVE QueueTyping'
  BY <1>9, <1>t DEF QueueTyping, Read
<1>10. ASSUME NEW t \in Threads, Recv(t) PROVE QueueTyping'
  BY <1>10, <1>t DEF QueueTyping, Recv
<1>11. ASSUME NEW t \in Threads, Write(t) PROVE QueueTyping'
  BY <1>11, <1>t, EnqueueType DEF QueueTyping, Write
<1>12. ASSUME NEW t \in Threads, Send(t) PROVE QueueTyping'
  BY <1>12, <1>t DEF QueueTyping, Send
<1>13. ASSUME NEW t \in Threads, WriteDone(t) PROVE QueueTyping'
  <2>1. wq # <<>>
    BY <1>13, <1>t DEF SendInv, Sending, WriteDone
  <2>2. Tail(wq) \in Seq(Seq(Int))
    BY <1>t, <2>1 DEF QueueTyping
  <2> QED
    BY <1>13, <1>t, <2>2 DEF QueueTyping, WriteDone
<1>14. ASSUME NEW t \in Threads, WriteShort(t) PROVE QueueTyping'
  <2>1. wq' \in {wq, <<>>} /\ written' = written
    BY <1>14 DEF WriteShort, ReleaseRef
  <2> QED
    BY <1>t, <2>1, EmptyQueue DEF QueueTyping
<1>15. ASSUME NEW t \in Threads, BodyClose(t) PROVE QueueTyping'
  BY <1>15, <1>t DEF QueueTyping, BodyClose
<1>16. ASSUME NEW t \in Threads, BodyEnd(t) PROVE QueueTyping'
  BY <1>16, <1>t DEF QueueTyping, BodyEnd
<1>17. ASSUME NEW t \in Threads, Close(t) PROVE QueueTyping'
  BY <1>17, <1>t DEF QueueTyping, Close
<1>18. ASSUME NEW t \in Threads, OnClose(t) PROVE QueueTyping'
  BY <1>18, <1>t DEF QueueTyping, OnClose
<1>19. ASSUME NEW t \in Threads, CloseHandle(t) PROVE QueueTyping'
  BY <1>19, <1>t DEF QueueTyping, CloseHandle
<1>20. ASSUME NEW t \in Threads, ReleaseHandleRef(t) PROVE QueueTyping'
  <2>1. wq' \in {wq, <<>>} /\ written' = written
    BY <1>20 DEF ReleaseHandleRef, ReleaseRef
  <2> QED
    BY <1>t, <2>1, EmptyQueue DEF QueueTyping
<1>21. ASSUME NEW t \in Threads, ReleaseIoRef(t) PROVE QueueTyping'
  <2>1. wq' \in {wq, <<>>} /\ written' = written
    BY <1>21 DEF ReleaseIoRef, ReleaseRef
  <2> QED
    BY <1>t, <2>1, EmptyQueue DEF QueueTyping
<1>22. ASSUME NEW t \in Threads, ReleaseCallbackRef(t) PROVE QueueTyping'
  <2>1. wq' \in {wq, <<>>} /\ written' = written
    BY <1>22 DEF ReleaseCallbackRef, ReleaseRef
  <2> QED
    BY <1>t, <2>1, EmptyQueue DEF QueueTyping
<1>23. ASSUME NEW t \in Threads, FreePacket(t) PROVE QueueTyping'
  BY <1>23, <1>t DEF QueueTyping, FreePacket
<1>24. CASE RecvCompletes
  BY <1>24, <1>t DEF QueueTyping, RecvCompletes
<1>25. CASE SendCompletes
  BY <1>25, <1>t DEF QueueTyping, SendCompletes
<1>26. CASE UNCHANGED vars
  BY <1>26, <1>t DEF QueueTyping, vars
<1>27. ASSUME NEW t \in Threads, InitializeDeleted(t) PROVE QueueTyping'
  BY <1>27, <1>t DEF QueueTyping, InitializeDeleted
<1> QED
  BY <1>1, <1>2, <1>3, <1>4, <1>5, <1>6, <1>7, <1>8, <1>9, <1>10, <1>11, <1>12, <1>13,
     <1>14, <1>15, <1>16, <1>17, <1>18, <1>19, <1>20, <1>21, <1>22, <1>23, <1>24, <1>25,
     <1>26, <1>27 DEF Next

-----------------------------------------------------------------------------
(* The invariant *)

LEMMA InitIInv == Init => IInv
<1> SUFFICES ASSUME Init PROVE IInv
  OBVIOUS
<1>1. Typing
  BY InitTyping
<1>2. CallbackRefs = {} /\ IoRefs = {} /\ HandleRefs = {} /\ Sending = {} /\ Reading = {}
  BY DEF Init, CallbackRefs, IoRefs, HandleRefs, Sending, Reading, ClosePCs
<1>3. QueueTyping /\ SendInv
  BY <1>2, EmptyQueue DEF Init, QueueTyping, SendInv
<1>4. CreateInv /\ ReadInv
  BY <1>2 DEF Init, CreateInv, ReadInv, ClosePCs
<1>5. PacketInv
  BY DEF Init, PacketInv
<1>6. ListedInv /\ DeletedInv
  BY DEF Init, ListedInv, DeletedInv, B2N
<1>7. RefLedger
  <2>1. posted = {} /\ Cardinality({}) = 0
    BY FS_EmptySet DEF Init
  <2>2. Holders = 1
    BY <1>2, <2>1 DEF Init, Holders, B2N
  <2> QED
    BY <2>2 DEF Init, RefLedger
<1> QED
  BY <1>1, <1>3, <1>4, <1>5, <1>6, <1>7 DEF IInv

LEMMA NextIInv == IInv /\ [Next]_vars => IInv'
BY NextTyping, NextQueueTyping, NextCreateInv, NextReadInv, NextSendInv, NextPacketInv,
   NextListedInv, NextLedger, NextDeletedInv DEF IInv

\* IInv holds in every state a CIOSocket can reach.
THEOREM Invariance == Spec => []IInv
BY InitIInv, NextIInv, PTL DEF Spec

-----------------------------------------------------------------------------
(* What follows *)

\* Every variable keeps its type, and the count is not negative before a short write
\* (CIOObject::refcount, IOObject.cpp:21-31).
THEOREM TypeOKHolds == Spec => []TypeOK
<1>1. IInv => TypeOK
  <2> SUFFICES ASSUME IInv PROVE TypeOK
    OBVIOUS
  <2>1. shorts = 0 => refcount >= 0
    BY CountOfHolders
  <2> QED
    BY <2>1 DEF IInv, Typing, DataTyping, ThreadTyping, TypeOK
<1> QED
  BY <1>1, Invariance, PTL

\* The reference count is the number of those who hold the object, for any number
\* of threads, packets, writes and short writes (IOSocket.cpp:48-214).
THEOREM RefLedgerHolds == Spec => []RefLedger
<1>1. IInv => RefLedger
  BY DEF IInv
<1> QED
  BY <1>1, Invariance, PTL

\* The destructor of a client connection runs when the last holder is gone and not
\* before, as long as no write comes short; a creator that has not reached the AddRef
\* of Initialize is no holder, and NoUseAfterDelete excepts the Initialize of an object
\* somebody else has closed and deleted (IOObject.cpp:27-31, IOServer.cpp:400-406).
THEOREM NoUseAfterDeleteHolds == Spec => []NoUseAfterDelete
<1>1. IInv => NoUseAfterDelete
  BY DEF IInv, Typing, DataTyping, RefLedger, DeletedInv, NoUseAfterDelete, B2N
<1> QED
  BY <1>1, Invariance, PTL

\* A client connection that CIOServerEx::FindSocket can still return has not been deleted
\* (IOServer.cpp:655-666, SocketServerEx.cpp:141-161).
THEOREM ListedIsAliveHolds == Spec => []ListedIsAlive
<1>1. IInv => ListedIsAlive
  <2> SUFFICES ASSUME IInv, shorts = 0, listed PROVE ~deleted
    BY DEF ListedIsAlive
  <2>1. hSocket \/ CallbackRefs # {}
    BY DEF IInv, ListedInv, CallbackRefs
  <2> QED
    BY <2>1, Alive
<1> QED
  BY <1>1, Invariance, PTL

\* At most one WSASend is outstanding or about to be issued, although its buffer is
\* read outside the critical section (IOSocket.cpp:127-134, 186-195).
THEOREM OneSendHolds == Spec => []OneSend
<1>1. IInv => OneSend
  <2> SUFFICES ASSUME IInv PROVE OneSend
    OBVIOUS
  <2>1. CASE Sending = {}
    BY <2>1, FS_EmptySet DEF OneSend, B2N
  <2>2. CASE Sending # {}
    <3>1. PICK t \in Sending : TRUE
      BY <2>2
    <3>2. Sending = {t} /\ wr = "none"
      BY <2>2, <3>1 DEF IInv, SendInv
    <3>3. Cardinality({t}) = 1
      BY FS_Singleton
    <3> QED
      BY <3>2, <3>3 DEF OneSend, B2N
  <2> QED
    BY <2>1, <2>2
<1> QED
  BY <1>1, Invariance, PTL

-----------------------------------------------------------------------------
(* The read buffers *)

\* the packets that point into buffer b
Users(b) == {p \in Packets : pktBuf[p] = b}

\* a read goes, or is about to go, into rbuf
AtRisk == rd # "none" \/ \E t \in Threads : pc[t] = "recv"

\* BufferStable says nothing of a thread that has chosen its buffer in Read and not
\* called WSARecv yet
BufferInv == shorts = 0 =>
  /\ \A b \in Buffers : bref[b] = Cardinality(Users(b)) + B2N(b = rbuf /\ ~deleted)
  /\ AtRisk => Users(rbuf) = {}

LEMMA UsersFinite ==
  ASSUME NEW b
  PROVE  /\ IsFiniteSet(Users(b)) /\ Cardinality(Users(b)) \in Nat
         /\ (Cardinality(Users(b)) = 0 <=> Users(b) = {})
<1>1. Users(b) \in SUBSET Packets
  BY DEF Users
<1>2. IsFiniteSet(Users(b)) /\ Cardinality(Users(b)) \in Nat
  BY <1>1, FinitePackets
<1> QED
  BY <1>2, FS_EmptySet

\* A step that touches no buffer and starts no read.
LEMMA QuietBuffers ==
  ASSUME BufferInv, UNCHANGED <<rbuf, bref, pktBuf, deleted>>, shorts' = 0 => shorts = 0,
         AtRisk' => AtRisk
  PROVE  BufferInv'
BY DEF BufferInv, Users

\* The ReleaseRef of a callback: at zero the socket lets go of its buffer.
LEMMA ReleaseBuffers ==
  ASSUME IInv, BufferInv, NEW t \in CallbackRefs, ReleaseRef,
         UNCHANGED <<rbuf, pktBuf, shorts>>, AtRisk' => AtRisk
  PROVE  BufferInv'
<1> SUFFICES ASSUME shorts = 0 PROVE BufferInv'
  BY DEF BufferInv
<1>1. ~deleted /\ refcount > 0
  BY Alive
<1>2. bref \in [Buffers -> Int] /\ rbuf \in Buffers
  BY DEF IInv, Typing, DataTyping
<1>3. \A b \in Buffers : Users(b)' = Users(b)
  BY DEF Users
<1>4. CASE deleted'
  <2>1. bref' = [bref EXCEPT ![rbuf] = bref[rbuf] - 1]
    BY <1>1, <1>4 DEF ReleaseRef
  <2>2. \A b \in Buffers : bref'[b] = Cardinality(Users(b))
    <3> SUFFICES ASSUME NEW b \in Buffers PROVE bref'[b] = Cardinality(Users(b))
      OBVIOUS
    <3>1. bref[b] = Cardinality(Users(b)) + B2N(b = rbuf)
      BY <1>1 DEF BufferInv
    <3>2. bref'[b] = bref[b] - B2N(b = rbuf)
      BY <1>2, <2>1 DEF B2N
    <3> QED
      BY <3>1, <3>2, UsersFinite DEF B2N
  <2> QED
    BY <1>2, <1>3, <1>4, <2>2, UsersFinite DEF BufferInv, B2N
<1>5. CASE ~deleted'
  <2>1. bref' = bref
    BY <1>1, <1>5 DEF ReleaseRef
  <2> QED
    BY <1>1, <1>2, <1>3, <1>5, <2>1 DEF BufferInv
<1> QED
  BY <1>4, <1>5

LEMMA NextBufferInv == IInv /\ BufferInv /\ [Next]_vars => BufferInv'
<1> SUFFICES ASSUME IInv, BufferInv, [Next]_vars PROVE BufferInv'
  OBVIOUS
<1>t. /\ ThreadTyping /\ rbuf \in Buffers /\ bref \in [Buffers -> Int] /\ shorts \in Nat
      /\ pktBuf \in [Packets -> Buffers \cup {NoBuf}] /\ NoBuf \notin Buffers
  BY SocketAssumption DEF IInv, Typing, DataTyping
<1> USE DEF Goto, CallClose, Finish, AddRef, handleVars, refVars,
            bufVars, queueVars, ioVars, threadVars
<1>1. ASSUME NEW t \in Threads, Initialize(t) PROVE BufferInv'
  BY <1>1, <1>t, QuietBuffers DEF ThreadTyping, AtRisk, Initialize, Enter
<1>2. ASSUME NEW t \in Threads, FindSocket(t) PROVE BufferInv'
  BY <1>2, <1>t, QuietBuffers DEF ThreadTyping, AtRisk, FindSocket, Enter
<1>3. ASSUME NEW t \in Threads, TakeRead(t) PROVE BufferInv'
  BY <1>3, <1>t, QuietBuffers DEF ThreadTyping, AtRisk, TakeRead, Enter
<1>4. ASSUME NEW t \in Threads, TakeWrite(t) PROVE BufferInv'
  BY <1>4, <1>t, QuietBuffers DEF ThreadTyping, AtRisk, TakeWrite, Enter
<1>5. ASSUME NEW t \in Threads, NEW p \in Packets, TakePacket(t, p) PROVE BufferInv'
  BY <1>5, <1>t, QuietBuffers DEF ThreadTyping, AtRisk, TakePacket, Enter
<1>6. ASSUME NEW t \in Threads, Associate(t) PROVE BufferInv'
  BY <1>6, <1>t, QuietBuffers DEF ThreadTyping, AtRisk, Associate
<1>7. ASSUME NEW t \in Threads, OnReadPost(t) PROVE BufferInv'
  <2> SUFFICES ASSUME shorts = 0 PROVE BufferInv'
    BY <1>7 DEF BufferInv, OnReadPost
  <2>1. t \in CallbackRefs /\ t \in Reading
    BY <1>7 DEF CallbackRefs, Reading, OnReadPost
  <2>2. ~deleted /\ ~AtRisk
    <3>1. \A u \in Threads : pc[u] # "recv"
      BY <1>7, <2>1 DEF IInv, ReadInv, Reading, OnReadPost
    <3> QED
      BY <2>1, <3>1, Alive DEF IInv, ReadInv, AtRisk
  <2>3. ~AtRisk' /\ UNCHANGED <<rbuf, deleted>>
    BY <1>7, <2>2 DEF AtRisk, OnReadPost
  <2>4. PICK p \in Packets : pktBuf[p] = NoBuf /\ pktBuf' = [pktBuf EXCEPT ![p] = rbuf]
    BY <1>7 DEF OnReadPost
  <2>5. bref' = [bref EXCEPT ![rbuf] = bref[rbuf] + 1]
    BY <1>7 DEF OnReadPost
  <2>6. \A b \in Buffers : bref'[b] = Cardinality(Users(b)') + B2N(b = rbuf)
    <3> SUFFICES ASSUME NEW b \in Buffers
                 PROVE  bref'[b] = Cardinality(Users(b)') + B2N(b = rbuf)
      OBVIOUS
    <3>1. /\ Users(b)' \ {p} = Users(b) \ {p}
          /\ p \notin Users(b) /\ (p \in Users(b)' <=> b = rbuf)
      BY <1>t, <2>4 DEF Users
    <3>2. Cardinality(Users(b)') = Cardinality(Users(b)) + B2N(b = rbuf)
      BY <3>1, UsersFinite, OneElement DEF B2N
    <3>3. bref[b] = Cardinality(Users(b)) + B2N(b = rbuf)
      BY <2>2 DEF BufferInv
    <3>4. bref'[b] = bref[b] + B2N(b = rbuf)
      BY <1>t, <2>5 DEF B2N
    <3> QED
      BY <3>2, <3>3, <3>4
  <2> QED
    BY <2>2, <2>3, <2>6 DEF BufferInv
<1>8. ASSUME NEW t \in Threads, OnReadBad(t) PROVE BufferInv'
  BY <1>8, <1>t, QuietBuffers DEF ThreadTyping, AtRisk, OnReadBad
<1>9. ASSUME NEW t \in Threads, Read(t) PROVE BufferInv'
  <2> SUFFICES ASSUME shorts = 0 PROVE BufferInv'
    BY <1>9 DEF BufferInv, Read
  <2>1. ~deleted /\ UNCHANGED <<deleted, pktBuf>>
    <3>1. t \in CallbackRefs
      BY <1>9 DEF CallbackRefs, Read
    <3> QED
      BY <1>9, <3>1, Alive DEF Read
  <2>2. \A b \in Buffers : Users(b)' = Users(b)
    BY <2>1 DEF Users
  <2>3. \A b \in Buffers : /\ bref[b] = Cardinality(Users(b)) + B2N(b = rbuf)
                           /\ Cardinality(Users(b)) \in Nat
                           /\ (Cardinality(Users(b)) = 0 <=> Users(b) = {})
    BY <2>1, UsersFinite DEF BufferInv
  <2>4. CASE bref[rbuf] = 1
    <3>1. bref' = bref /\ rbuf' = rbuf
      BY <1>9, <2>4 DEF Read
    <3>2. Users(rbuf) = {}
      BY <1>t, <2>3, <2>4 DEF B2N
    <3>3. Users(rbuf)' = {}
      BY <1>t, <2>2, <3>1, <3>2
    <3> QED
      BY <2>1, <2>2, <2>3, <3>1, <3>3 DEF BufferInv
  <2>5. CASE bref[rbuf] # 1
    <3>1. PICK b \in Buffers : /\ bref[b] = 0 /\ rbuf' = b
                               /\ bref' = [bref EXCEPT ![b] = 1, ![rbuf] = @ - 1]
      BY <1>9, <2>5 DEF Read
    <3>2. b # rbuf /\ Users(b) = {}
      BY <1>t, <2>3, <3>1 DEF B2N
    <3>3. \A d \in Buffers :
            bref'[d] = IF d = b THEN 1 ELSE IF d = rbuf THEN bref[rbuf] - 1 ELSE bref[d]
      BY <1>t, <3>1, <3>2
    <3>4. \A d \in Buffers : bref'[d] = Cardinality(Users(d)) + B2N(d = b)
      BY <1>t, <2>3, <3>1, <3>2, <3>3 DEF B2N
    <3>5. Users(rbuf)' = {}
      BY <2>1, <3>1, <3>2 DEF Users
    <3> QED
      BY <2>1, <2>2, <3>1, <3>4, <3>5 DEF BufferInv
  <2> QED
    BY <2>4, <2>5
<1>10. ASSUME NEW t \in Threads, Recv(t) PROVE BufferInv'
  BY <1>10, <1>t, QuietBuffers DEF ThreadTyping, AtRisk, Recv
<1>11. ASSUME NEW t \in Threads, Write(t) PROVE BufferInv'
  BY <1>11, <1>t, QuietBuffers DEF ThreadTyping, AtRisk, Write
<1>12. ASSUME NEW t \in Threads, Send(t) PROVE BufferInv'
  BY <1>12, <1>t, QuietBuffers DEF ThreadTyping, AtRisk, Send
<1>13. ASSUME NEW t \in Threads, WriteDone(t) PROVE BufferInv'
  BY <1>13, <1>t, QuietBuffers DEF ThreadTyping, AtRisk, WriteDone
<1>14. ASSUME NEW t \in Threads, WriteShort(t) PROVE BufferInv'
  BY <1>14, <1>t DEF BufferInv, WriteShort
<1>15. ASSUME NEW t \in Threads, BodyClose(t) PROVE BufferInv'
  BY <1>15, <1>t, QuietBuffers DEF ThreadTyping, AtRisk, BodyClose
<1>16. ASSUME NEW t \in Threads, BodyEnd(t) PROVE BufferInv'
  BY <1>16, <1>t, QuietBuffers DEF ThreadTyping, AtRisk, BodyEnd
<1>17. ASSUME NEW t \in Threads, Close(t) PROVE BufferInv'
  BY <1>17, <1>t, QuietBuffers DEF ThreadTyping, AtRisk, Close, Return
<1>18. ASSUME NEW t \in Threads, OnClose(t) PROVE BufferInv'
  BY <1>18, <1>t, QuietBuffers DEF ThreadTyping, AtRisk, OnClose
<1>19. ASSUME NEW t \in Threads, CloseHandle(t) PROVE BufferInv'
  BY <1>19, <1>t, QuietBuffers DEF ThreadTyping, AtRisk, CloseHandle
<1>20. ASSUME NEW t \in Threads, ReleaseHandleRef(t) PROVE BufferInv'
  <2>1. t \in CallbackRefs /\ ReleaseRef /\ UNCHANGED <<rbuf, pktBuf, shorts>>
    BY <1>20 DEF CallbackRefs, ReleaseHandleRef
  <2>2. AtRisk' => AtRisk
    BY <1>20, <1>t DEF ThreadTyping, AtRisk, ReleaseHandleRef, Return
  <2> QED
    BY <2>1, <2>2, ReleaseBuffers
<1>21. ASSUME NEW t \in Threads, ReleaseIoRef(t) PROVE BufferInv'
  <2>1. t \in CallbackRefs /\ ReleaseRef /\ UNCHANGED <<rbuf, pktBuf, shorts>>
    BY <1>21 DEF CallbackRefs, ReleaseIoRef
  <2>2. AtRisk' => AtRisk
    BY <1>21, <1>t DEF ThreadTyping, AtRisk, ReleaseIoRef
  <2> QED
    BY <2>1, <2>2, ReleaseBuffers
<1>22. ASSUME NEW t \in Threads, ReleaseCallbackRef(t) PROVE BufferInv'
  <2>1. t \in CallbackRefs /\ ReleaseRef /\ UNCHANGED <<rbuf, pktBuf, shorts>>
    BY <1>22 DEF CallbackRefs, ReleaseCallbackRef
  <2>2. AtRisk' => AtRisk
    BY <1>22, <1>t DEF ThreadTyping, AtRisk, ReleaseCallbackRef
  <2> QED
    BY <2>1, <2>2, ReleaseBuffers
<1>23. ASSUME NEW t \in Threads, FreePacket(t) PROVE BufferInv'
  <2> SUFFICES ASSUME shorts = 0 PROVE BufferInv'
    BY <1>23 DEF BufferInv, FreePacket
  <2>1. PICK p \in Packets : p = pkt[t] /\ pktBuf[p] # NoBuf
    BY <1>23 DEF IInv, PacketInv, FreePacket
  <2>2. PICK c \in Buffers : c = pktBuf[p]
    BY <1>t, <2>1
  <2>3. /\ bref' = [bref EXCEPT ![c] = bref[c] - 1] /\ pktBuf' = [pktBuf EXCEPT ![p] = NoBuf]
        /\ UNCHANGED <<rbuf, deleted, shorts>>
    BY <1>23, <2>1, <2>2 DEF FreePacket
  <2>4. AtRisk' => AtRisk
    BY <1>23, <1>t DEF ThreadTyping, AtRisk, FreePacket
  <2>5. \A b \in Buffers :
          /\ Users(b)' = Users(b) \ {p}
          /\ bref'[b] = Cardinality(Users(b)') + B2N(b = rbuf /\ ~deleted)
    <3> SUFFICES ASSUME NEW b \in Buffers
                 PROVE  /\ Users(b)' = Users(b) \ {p}
                        /\ bref'[b] = Cardinality(Users(b)') + B2N(b = rbuf /\ ~deleted)
      OBVIOUS
    <3>1. Users(b)' = Users(b) \ {p} /\ (p \in Users(b) <=> b = c)
      BY <1>t, <2>2, <2>3 DEF Users
    <3>2. Cardinality(Users(b)') = Cardinality(Users(b)) - B2N(b = c)
      <4>1. CASE p \in Users(b)
        BY <3>1, <4>1, UsersFinite, FS_RemoveElement DEF B2N
      <4>2. CASE p \notin Users(b)
        <5>1. Users(b)' = Users(b)
          BY <3>1, <4>2
        <5> QED
          BY <3>1, <4>2, <5>1, UsersFinite DEF B2N
      <4> QED
        BY <4>1, <4>2
    <3>3. bref[b] = Cardinality(Users(b)) + B2N(b = rbuf /\ ~deleted)
      BY DEF BufferInv
    <3>4. bref'[b] = bref[b] - B2N(b = c)
      BY <1>t, <2>3 DEF B2N
    <3> QED
      BY <3>1, <3>2, <3>3, <3>4, UsersFinite DEF B2N
  <2>6. AtRisk' => Users(rbuf)' = {}
    BY <1>t, <2>3, <2>4, <2>5 DEF BufferInv
  <2> QED
    BY <2>3, <2>5, <2>6 DEF BufferInv
<1>24. CASE RecvCompletes
  BY <1>24, <1>t, QuietBuffers DEF AtRisk, RecvCompletes
<1>25. CASE SendCompletes
  BY <1>25, <1>t, QuietBuffers DEF AtRisk, SendCompletes
<1>26. CASE UNCHANGED vars
  BY <1>26, <1>t, QuietBuffers DEF AtRisk, vars
<1>27. ASSUME NEW t \in Threads, InitializeDeleted(t) PROVE BufferInv'
  BY <1>27, <1>t, QuietBuffers DEF AtRisk, InitializeDeleted
<1> QED
  BY <1>1, <1>2, <1>3, <1>4, <1>5, <1>6, <1>7, <1>8, <1>9, <1>10, <1>11, <1>12, <1>13,
     <1>14, <1>15, <1>16, <1>17, <1>18, <1>19, <1>20, <1>21, <1>22, <1>23, <1>24, <1>25,
     <1>26, <1>27 DEF Next

\* A read never goes into a buffer that a pending packet points into, and m_ref counts
\* the packets and the socket that do (CIOSocket::Read, IOSocket.cpp:148-174, and
\* CPacketServer::OnIOCallback).
THEOREM BufferStableHolds == Spec => []BufferStable
<1>1. Init => BufferInv
  <2> SUFFICES ASSUME Init PROVE BufferInv
    OBVIOUS
  <2>1. \A b \in Buffers : Users(b) = {} /\ Cardinality({}) = 0
    BY SocketAssumption, FS_EmptySet DEF Init, Users
  <2>2. ~AtRisk /\ ~deleted /\ \A b \in Buffers : bref[b] = B2N(b = rbuf)
    BY DEF Init, AtRisk, B2N
  <2> QED
    BY <2>1, <2>2 DEF BufferInv, B2N
<1>2. IInv /\ BufferInv => BufferStable
  BY DEF BufferInv, BufferStable, Users, AtRisk
<1> QED
  BY <1>1, <1>2, Invariance, NextBufferInv, PTL DEF Spec

-----------------------------------------------------------------------------
(* The write queue *)

\* The library's facts about a queue of buffers.
LEMMA QueueFacts ==
  ASSUME NEW q \in Seq(Seq(Int))
  PROVE  /\ Len(q) \in Nat /\ (q = <<>> <=> Len(q) = 0)
         /\ \A i \in 1..Len(q) : q[i] \in Seq(Int) /\ Len(q[i]) \in Nat
         /\ \A i \in 1..Len(q) : q[i] # <<>> <=> Len(q[i]) > 0
<1>1. Len(q) \in Nat /\ (q = <<>> <=> Len(q) = 0)
  BY EmptySeq, LenProperties
<1>2. \A i \in 1..Len(q) : q[i] \in Seq(Int)
  BY ElementOfSeq
<1>3. \A b \in Seq(Int) : Len(b) \in Nat /\ (b # <<>> <=> Len(b) > 0)
  BY EmptySeq, LenProperties
<1> QED
  BY <1>1, <1>2, <1>3

\* A message joins the last buffer.
LEMMA CoalesceOrder ==
  ASSUME NEW q \in Seq(Seq(Int)), NEW n \in Int, InOrder(q, n), Len(q) > 1
  PROVE  LET c == Coalesce(q, n + 1)
         IN  InOrder(c, n + 1) /\ c # <<>> /\ c[1] = q[1]
<1>1. PICK k \in Nat : k = Len(q) /\ k > 1
  BY QueueFacts
<1>2. PICK b \in Seq(Int) : b = q[k]
  BY <1>1, QueueFacts
<1>3. PICK l \in Nat : l = Len(b) /\ l > 0
  BY <1>1, <1>2, QueueFacts DEF InOrder
<1>4. PICK c : c = Coalesce(q, n + 1)
  OBVIOUS
<1>m. n + 1 \in Int
  OBVIOUS
<1>5. PICK d \in Seq(Int) : d = Append(b, n + 1)
  <2>1. Append(b, n + 1) \in Seq(Int)
    BY <1>m, AppendProperties
  <2> QED
    BY <2>1
<1>6. c = [q EXCEPT ![k] = d]
  BY <1>1, <1>2, <1>4, <1>5 DEF Coalesce
<1>7. c \in Seq(Seq(Int)) /\ Len(c) = k /\ c[k] = d /\ \A i \in 1..k : i # k => c[i] = q[i]
  BY <1>1, <1>6, ExceptSeq
<1>8. Len(d) = l + 1 /\ d[l + 1] = n + 1 /\ \A j \in 1..l : d[j] = b[j]
  BY <1>3, <1>5, AppendProperties
<1>9. b[1] + l = n + 1 /\ \A j \in 1..l : b[j] = b[1] + j - 1
  BY <1>1, <1>2, <1>3 DEF InOrder
<1>10. d[1] = b[1] /\ d # <<>> /\ \A j \in 1..l + 1 : d[j] = d[1] + j - 1
  <2>1. d # <<>>
    BY <1>3, <1>8, EmptySeq
  <2>2. d[1] = b[1] /\ b[1] \in Int
    BY <1>3, <1>8, ElementOfSeq
  <2>3. ASSUME NEW j \in 1..l + 1 PROVE d[j] = d[1] + j - 1
    <3>1. CASE j = l + 1
      BY <1>8, <1>9, <2>2, <3>1
    <3>2. CASE j # l + 1
      <4>1. j \in 1..l
        BY <3>2
      <4> QED
        BY <1>8, <1>9, <2>2, <4>1
    <3> QED
      BY <3>1, <3>2
  <2> QED
    BY <2>1, <2>2, <2>3
<1>11. \A i \in 1..k : c[i] # <<>> /\ \A j \in 1..Len(c[i]) : c[i][j] = c[i][1] + j - 1
  <2> SUFFICES ASSUME NEW i \in 1..k
               PROVE  c[i] # <<>> /\ \A j \in 1..Len(c[i]) : c[i][j] = c[i][1] + j - 1
    OBVIOUS
  <2>1. CASE i # k
    BY <1>1, <1>7, <2>1 DEF InOrder
  <2>2. CASE i = k
    BY <1>7, <1>8, <1>10, <2>2
  <2> QED
    BY <2>1, <2>2
<1>12. \A i \in 1..k - 1 : c[i + 1][1] = c[i][1] + Len(c[i])
  <2> SUFFICES ASSUME NEW i \in 1..k - 1 PROVE c[i + 1][1] = c[i][1] + Len(c[i])
    OBVIOUS
  <2>1. i \in 1..k /\ i # k /\ i + 1 \in 1..k
    BY <1>1
  <2>2. c[i] = q[i] /\ q[i + 1][1] = q[i][1] + Len(q[i])
    BY <1>1, <1>7, <2>1 DEF InOrder
  <2>3. c[i + 1][1] = q[i + 1][1]
    BY <1>2, <1>7, <1>10, <2>1
  <2> QED
    BY <2>2, <2>3
<1>13. c[k][1] + Len(c[k]) = n + 1 + 1
  BY <1>3, <1>7, <1>8, <1>9, <1>10
<1>14. c # <<>> /\ c[1] = q[1]
  BY <1>1, <1>7, EmptySeq
<1> QED
  BY <1>4, <1>7, <1>11, <1>12, <1>13, <1>14 DEF InOrder

\* A message gets a buffer of its own.
LEMMA AppendOrder ==
  ASSUME NEW q \in Seq(Seq(Int)), NEW n \in Int, InOrder(q, n)
  PROVE  LET c == Append(q, <<n + 1>>)
         IN  /\ InOrder(c, n + 1) /\ c # <<>>
             /\ c[1] = IF q = <<>> THEN <<n + 1>> ELSE q[1]
<1>1. PICK k \in Nat : k = Len(q) /\ (q = <<>> <=> k = 0)
  BY QueueFacts
<1>2. PICK d \in Seq(Int) : d = <<n + 1>>
  <2>1. n + 1 \in Int
    OBVIOUS
  <2>2. <<n + 1>> \in Seq(Int)
    BY <2>1
  <2> QED
    BY <2>2
<1>3. Len(d) = 1 /\ d[1] = n + 1 /\ d # <<>>
  BY <1>2
<1>4. PICK c \in Seq(Seq(Int)) : c = Append(q, d)
  BY AppendProperties
<1>5. Len(c) = k + 1 /\ c # <<>> /\ c[k + 1] = d /\ \A i \in 1..k : c[i] = q[i]
  BY <1>1, <1>4, AppendProperties
<1>6. \A i \in 1..k + 1 : c[i] # <<>> /\ \A j \in 1..Len(c[i]) : c[i][j] = c[i][1] + j - 1
  <2> SUFFICES ASSUME NEW i \in 1..k + 1
               PROVE  c[i] # <<>> /\ \A j \in 1..Len(c[i]) : c[i][j] = c[i][1] + j - 1
    OBVIOUS
  <2>1. CASE i \in 1..k
    BY <1>1, <1>5, <2>1 DEF InOrder
  <2>2. CASE i = k + 1
    BY <1>3, <1>5, <2>2
  <2>3. i \in 1..k \/ i = k + 1
    BY <1>1
  <2> QED
    BY <2>1, <2>2, <2>3
<1>7. \A i \in 1..k : c[i + 1][1] = c[i][1] + Len(c[i])
  <2> SUFFICES ASSUME NEW i \in 1..k PROVE c[i + 1][1] = c[i][1] + Len(c[i])
    OBVIOUS
  <2>1. CASE i = k
    <3>1. q[k][1] + Len(q[k]) = n + 1
      BY <1>1, <2>1 DEF InOrder
    <3> QED
      BY <1>3, <1>5, <2>1, <3>1
  <2>2. CASE i # k
    <3>1. i \in 1..k - 1 /\ i + 1 \in 1..k
      BY <1>1, <2>2
    <3> QED
      BY <1>1, <1>5, <3>1 DEF InOrder
  <2> QED
    BY <2>1, <2>2
<1>8. InOrder(c, n + 1)
  <2>1. Len(c) - 1 = k /\ c[Len(c)] = d
    BY <1>1, <1>5
  <2>2. d[1] + Len(d) = n + 1 + 1
    BY <1>3
  <2>3. c[Len(c)][1] + Len(c[Len(c)]) = n + 1 + 1
    BY <2>1, <2>2, Zenon
  <2> QED
    BY <1>5, <1>6, <1>7, <2>1, <2>3 DEF InOrder
<1> QED
  BY <1>1, <1>2, <1>4, <1>5, <1>8

\* Write leaves a first buffer alone.
LEMMA EnqueueOrder ==
  ASSUME NEW q \in Seq(Seq(Int)), NEW n \in Int, InOrder(q, n)
  PROVE  LET c == Enqueue(q, n + 1)
         IN  /\ InOrder(c, n + 1) /\ c # <<>>
             /\ c[1] = IF q = <<>> THEN <<n + 1>> ELSE q[1]
<1>1. CASE Len(q) > 1 /\ Len(Last(q)) < BufferSize
  <2>1. q # <<>> /\ Enqueue(q, n + 1) = Coalesce(q, n + 1)
    BY <1>1, QueueFacts DEF Enqueue
  <2> QED
    BY <1>1, <2>1, CoalesceOrder
<1>2. CASE ~(Len(q) > 1 /\ Len(Last(q)) < BufferSize)
  <2>1. PICK c : c = Append(q, <<n + 1>>)
    OBVIOUS
  <2>2. InOrder(c, n + 1) /\ c # <<>> /\ c[1] = IF q = <<>> THEN <<n + 1>> ELSE q[1]
    BY <2>1, AppendOrder
  <2>3. Enqueue(q, n + 1) = c
    BY <1>2, <2>1 DEF Enqueue
  <2> QED
    BY <2>2, <2>3
<1> QED
  BY <1>1, <1>2

\* The buffer that has been sent goes; the next one starts where it ended.
LEMMA TailOrder ==
  ASSUME NEW q \in Seq(Seq(Int)), NEW n \in Int, InOrder(q, n), q # <<>>
  PROVE  /\ InOrder(Tail(q), n)
         /\ q[1][1] + Len(q[1]) = IF Tail(q) = <<>> THEN n + 1 ELSE Tail(q)[1][1]
<1>1. PICK k \in Nat : k = Len(q) /\ k > 0
  BY QueueFacts
<1>2. PICK c \in Seq(Seq(Int)) : c = Tail(q)
  BY HeadTailProperties
<1>3. Len(c) = k - 1 /\ \A i \in 1..k - 1 : c[i] = q[i + 1]
  BY <1>1, <1>2, HeadTailProperties
<1>4. c = <<>> <=> k = 1
  <2>1. c = <<>> <=> Len(c) = 0
    BY QueueFacts
  <2> QED
    BY <1>1, <1>3, <2>1
<1>5. \A i \in 1..k - 1 : c[i] # <<>> /\ \A j \in 1..Len(c[i]) : c[i][j] = c[i][1] + j - 1
  <2> SUFFICES ASSUME NEW i \in 1..k - 1
               PROVE  c[i] # <<>> /\ \A j \in 1..Len(c[i]) : c[i][j] = c[i][1] + j - 1
    OBVIOUS
  <2>1. i + 1 \in 1..k
    BY <1>1
  <2> QED
    BY <1>1, <1>3, <2>1 DEF InOrder
<1>6. \A i \in 1..k - 2 : c[i + 1][1] = c[i][1] + Len(c[i])
  <2> SUFFICES ASSUME NEW i \in 1..k - 2 PROVE c[i + 1][1] = c[i][1] + Len(c[i])
    OBVIOUS
  <2>1. i \in 1..k - 1 /\ i + 1 \in 1..k - 1
    BY <1>1
  <2>2. c[i] = q[i + 1] /\ c[i + 1] = q[i + 1 + 1]
    BY <1>3, <2>1
  <2> QED
    BY <1>1, <2>1, <2>2 DEF InOrder
<1>7. q[k][1] + Len(q[k]) = n + 1
  BY <1>1 DEF InOrder
<1>8. c # <<>> => c[k - 1][1] + Len(c[k - 1]) = n + 1
  <2> SUFFICES ASSUME c # <<>> PROVE c[k - 1] = q[k]
    BY <1>7
  <2>1. k - 1 \in 1..k - 1 /\ k - 1 + 1 = k
    BY <1>1, <1>4
  <2> QED
    BY <1>3, <2>1
<1>9. InOrder(c, n)
  <2>1. Len(c) - 1 = k - 2
    BY <1>1, <1>3
  <2> QED
    BY <1>3, <1>5, <1>6, <1>8, <2>1 DEF InOrder
<1>10. CASE c = <<>>
  <2>1. k = 1
    BY <1>4, <1>10
  <2> QED
    BY <1>2, <1>7, <1>9, <1>10, <2>1
<1>11. CASE c # <<>>
  <2>1. 1 \in 1..k - 1 /\ 1 + 1 = 2
    BY <1>1, <1>4, <1>11
  <2>2. c[1] = q[2] /\ q[2][1] = q[1][1] + Len(q[1])
    BY <1>1, <1>3, <2>1 DEF InOrder
  <2> QED
    BY <1>2, <1>9, <1>11, <2>2
<1> QED
  BY <1>10, <1>11

LEMMA Concatenation ==
  ASSUME NEW w \in Seq(Int), NEW b \in Seq(Int)
  PROVE  /\ Len(w \o b) = Len(w) + Len(b)
         /\ \A i \in 1..Len(w) + Len(b) :
              (w \o b)[i] = IF i <= Len(w) THEN w[i] ELSE b[i - Len(w)]
BY ConcatProperties

\* The wire goes on with the first buffer.
LEMMA WireOrder ==
  ASSUME NEW q \in Seq(Seq(Int)), NEW n \in Int, InOrder(q, n), q # <<>>,
         NEW w \in Seq(Int), w = [i \in 1..Len(w) |-> i], Len(w) = q[1][1] - 1
  PROVE  /\ w \o q[1] \in Seq(Int) /\ Len(w \o q[1]) = Len(w) + Len(q[1])
         /\ w \o q[1] = [i \in 1..Len(w \o q[1]) |-> i]
<1>1. PICK b \in Seq(Int) : b = q[1]
  BY QueueFacts
<1>2. PICK l \in Nat : l = Len(b)
  BY LenProperties
<1>3. PICK m \in Nat : m = Len(w)
  BY LenProperties
<1>4. \A j \in 1..l : b[j] = m + j
  <2>1. 1 \in 1..Len(q) /\ \A j \in 1..l : b[j] = b[1] + j - 1
    BY <1>1, <1>2, QueueFacts DEF InOrder
  <2>2. l > 0 => b[1] \in Int /\ m = b[1] - 1
    BY <1>1, <1>2, <1>3, ElementOfSeq
  <2> SUFFICES ASSUME NEW j \in 1..l PROVE b[j] = m + j
    OBVIOUS
  <2>3. l > 0 /\ b[j] = b[1] + j - 1
    BY <1>2, <2>1
  <2>4. PICK x \in Int : x = b[1] /\ m = x - 1
    BY <2>2, <2>3
  <2>5. b[j] = x + j - 1 /\ j \in Int
    BY <2>3, <2>4
  <2> QED
    BY <2>4, <2>5
<1>5. PICK c \in Seq(Int) : c = w \o b
  BY ConcatProperties
<1>6. Len(c) = m + l /\ \A i \in 1..m + l : c[i] = IF i <= m THEN w[i] ELSE b[i - m]
  <2>1. /\ Len(w \o b) = Len(w) + Len(b)
        /\ \A i \in 1..Len(w) + Len(b) :
             (w \o b)[i] = IF i <= Len(w) THEN w[i] ELSE b[i - Len(w)]
    BY Concatenation
  <2> QED
    BY <1>2, <1>3, <1>5, <2>1, Zenon
<1>7. \A i \in 1..m : w[i] = i
  BY <1>3
<1>8. \A i \in 1..m + l : c[i] = i
  <2> SUFFICES ASSUME NEW i \in 1..m + l PROVE c[i] = i
    OBVIOUS
  <2>1. CASE i <= m
    BY <1>6, <1>7, <2>1
  <2>2. CASE ~(i <= m)
    <3>1. i - m \in 1..l
      BY <2>2
    <3>2. c[i] = b[i - m] /\ b[i - m] = m + (i - m)
      BY <1>4, <1>6, <2>2, <3>1
    <3> QED
      BY <3>2
  <2> QED
    BY <2>1, <2>2
<1>9. c = [i \in 1..m + l |-> i]
  BY <1>6, <1>8, LenProperties
<1> QED
  BY <1>1, <1>2, <1>3, <1>5, <1>6, <1>9

Ready    == \E t \in Threads : pc[t] = "send"
InFlight == wr # "none" \/ \E t \in Threads : pc[t] \in {"wdone", "wshort"}

\* WriteOrder only bounds what is on the wire.  A thread about to send finds it at the
\* end of what is done, and one that takes a completion at the end of the first buffer.
OrderInv ==
  /\ wire \in Seq(Int) /\ nPending \in Int /\ written \in Int
  /\ ~deleted => /\ wire = [i \in 1..Len(wire) |-> i]
                 /\ InOrder(wq, written)
                 /\ nPending = written - Done
                 /\ Len(wire) \in {Done, Done + First}
                 /\ wq = <<>> \/ Ready => Len(wire) = Done
                 /\ InFlight => Len(wire) = Done + First

\* A step that leaves the queue alone, or deletes the socket.
LEMMA QuietQueue ==
  ASSUME OrderInv, UNCHANGED <<wire, nPending, written>>,
         ~deleted' => ~deleted /\ wq' = wq,
         Ready' => Ready, InFlight' => InFlight
  PROVE  OrderInv'
BY DEF OrderInv, Done, First

\* Done is a number: the buffers of the queue hold numbered messages.
LEMMA DoneType ==
  ASSUME wq \in Seq(Seq(Int)), OrderInv, ~deleted
  PROVE  Done \in Int /\ First \in Nat /\ (wq # <<>> => wq[1][1] \in Int)
<1>1. CASE wq = <<>>
  BY <1>1 DEF Done, First, OrderInv
<1>2. CASE wq # <<>>
  <2>1. 1 \in 1..Len(wq) /\ wq[1] \in Seq(Int) /\ Len(wq[1]) \in Nat
    BY <1>2, QueueFacts
  <2>2. Len(wq[1]) > 0
    BY <2>1, QueueFacts DEF OrderInv, InOrder
  <2>3. wq[1][1] \in Int
    BY <2>1, <2>2, ElementOfSeq
  <2> QED
    BY <1>2, <2>1, <2>3 DEF Done, First
<1> QED
  BY <1>1, <1>2

LEMMA NextOrderInv == IInv /\ OrderInv /\ [Next]_vars => OrderInv'
<1> SUFFICES ASSUME IInv, OrderInv, [Next]_vars PROVE OrderInv'
  OBVIOUS
<1>t. ThreadTyping /\ wq \in Seq(Seq(Int))
  BY DEF IInv, Typing, QueueTyping
<1> USE DEF Goto, CallClose, Finish, AddRef, handleVars, refVars,
            bufVars, queueVars, ioVars, threadVars
<1>1. ASSUME NEW t \in Threads, Initialize(t) PROVE OrderInv'
  BY <1>1, <1>t, QuietQueue DEF ThreadTyping, Ready, InFlight, Initialize, Enter
<1>2. ASSUME NEW t \in Threads, FindSocket(t) PROVE OrderInv'
  BY <1>2, <1>t, QuietQueue DEF ThreadTyping, Ready, InFlight, FindSocket, Enter
<1>3. ASSUME NEW t \in Threads, TakeRead(t) PROVE OrderInv'
  BY <1>3, <1>t, QuietQueue DEF ThreadTyping, Ready, InFlight, TakeRead, Enter
<1>4. ASSUME NEW t \in Threads, TakeWrite(t) PROVE OrderInv'
  BY <1>4, <1>t, QuietQueue DEF ThreadTyping, Ready, InFlight, TakeWrite, Enter
<1>5. ASSUME NEW t \in Threads, NEW p \in Packets, TakePacket(t, p) PROVE OrderInv'
  BY <1>5, <1>t, QuietQueue DEF ThreadTyping, Ready, InFlight, TakePacket, Enter
<1>6. ASSUME NEW t \in Threads, Associate(t) PROVE OrderInv'
  BY <1>6, <1>t, QuietQueue DEF ThreadTyping, Ready, InFlight, Associate
<1>7. ASSUME NEW t \in Threads, OnReadPost(t) PROVE OrderInv'
  BY <1>7, <1>t, QuietQueue DEF ThreadTyping, Ready, InFlight, OnReadPost
<1>8. ASSUME NEW t \in Threads, OnReadBad(t) PROVE OrderInv'
  BY <1>8, <1>t, QuietQueue DEF ThreadTyping, Ready, InFlight, OnReadBad
<1>9. ASSUME NEW t \in Threads, Read(t) PROVE OrderInv'
  BY <1>9, <1>t, QuietQueue DEF ThreadTyping, Ready, InFlight, Read
<1>10. ASSUME NEW t \in Threads, Recv(t) PROVE OrderInv'
  BY <1>10, <1>t, QuietQueue DEF ThreadTyping, Ready, InFlight, Recv
<1>11. ASSUME NEW t \in Threads, Write(t) PROVE OrderInv'
  <2>1. written' = written + 1 /\ nPending' = nPending + 1 /\ wire' = wire /\ wr' = wr
    BY <1>11 DEF Write
  <2> SUFFICES ASSUME ~deleted' PROVE OrderInv'
    BY <2>1 DEF OrderInv
  <2>2. PICK q : q = Enqueue(wq, written + 1)
    OBVIOUS
  <2>3. ~deleted /\ wq' = q
    BY <1>11, <2>2 DEF Write
  <2>4. /\ InOrder(q, written + 1) /\ q # <<>>
        /\ q[1] = IF wq = <<>> THEN <<written + 1>> ELSE wq[1]
    BY <1>t, <2>2, <2>3, EnqueueOrder DEF OrderInv
  <2>5. InFlight' => InFlight
    BY <1>11, <1>t, <2>1 DEF ThreadTyping, InFlight, Write
  <2>6. CASE wq = <<>>
    <3>1. Done' = Done /\ Len(wire) = Done /\ Done = written
      <4>1. Done = written /\ written \in Int /\ Len(wire) = Done
        BY <2>3, <2>6 DEF OrderInv, Done
      <4>2. wq'[1] = <<written + 1>> /\ wq' # <<>>
        BY <2>3, <2>4, <2>6
      <4>3. wq'[1][1] = written + 1
        BY <4>2
      <4> QED
        BY <4>1, <4>2, <4>3 DEF Done
    <3>2. ~InFlight'
      BY <1>t, <2>5, <2>6 DEF IInv, SendInv, Sending, InFlight
    <3> QED
      BY <2>1, <2>3, <2>4, <3>1, <3>2 DEF OrderInv
  <2>7. CASE wq # <<>>
    <3>1. Done' = Done /\ First' = First
      BY <2>3, <2>4, <2>7 DEF Done, First
    <3>2. Ready' => Ready
      BY <1>11, <2>7 DEF Ready, Write
    <3>3. nPending' = written' - Done'
      BY <1>t, <2>1, <2>3, <3>1, DoneType DEF OrderInv
    <3> QED
      BY <2>1, <2>3, <2>4, <2>5, <2>7, <3>1, <3>2, <3>3 DEF OrderInv
  <2> QED
    BY <2>6, <2>7
<1>12. ASSUME NEW t \in Threads, Send(t) PROVE OrderInv'
  <2>1. /\ UNCHANGED <<wq, nPending, written, deleted>> /\ wq # <<>>
        /\ wr = "none" /\ Sending = {t} /\ pc[t] = "send"
    BY <1>12 DEF IInv, SendInv, Sending, Send
  <2>2. ~Ready' /\ \A u \in Threads : pc'[u] \notin {"wdone", "wshort"}
    BY <1>12, <1>t, <2>1 DEF ThreadTyping, Sending, Ready, Send
  <2>3. CASE wire' = wire /\ wr' = wr
    <3>1. ~InFlight'
      BY <2>1, <2>2, <2>3 DEF InFlight
    <3> QED
      BY <2>1, <2>2, <2>3, <3>1, QuietQueue
  <2>4. CASE deleted /\ wire' = wire \o <<>>
    <3>1. wire' = wire
      BY <2>4, ConcatEmptySeq DEF OrderInv
    <3> QED
      BY <2>1, <2>4, <3>1 DEF OrderInv
  <2>5. CASE ~deleted /\ wire' = wire \o wq[1]
    <3>1. /\ wire \in Seq(Int) /\ wire = [i \in 1..Len(wire) |-> i] /\ InOrder(wq, written)
          /\ written \in Int /\ Len(wire) = Done /\ Done = wq[1][1] - 1
      BY <2>1, <2>5 DEF OrderInv, Ready, Done
    <3>2. /\ wire' \in Seq(Int) /\ Len(wire') = Len(wire) + Len(wq[1])
          /\ wire' = [i \in 1..Len(wire') |-> i]
      BY <1>t, <2>1, <2>5, <3>1, WireOrder
    <3>3. Len(wire') = Done' + First' /\ Done' = Done
      BY <2>1, <3>1, <3>2 DEF Done, First
    <3> QED
      BY <2>1, <2>2, <2>5, <3>2, <3>3 DEF OrderInv
  <2>6. Head(wq) = wq[1]
    BY <1>t, <2>1
  <2>7. \/ wire' = wire /\ wr' = wr
        \/ wire' = wire \o (IF deleted THEN <<>> ELSE wq[1])
    BY <1>12, <2>6 DEF Send
  <2> QED
    BY <2>3, <2>4, <2>5, <2>7
<1>13. ASSUME NEW t \in Threads, WriteDone(t) PROVE OrderInv'
  <2>1. /\ UNCHANGED <<wire, written>> /\ wq # <<>> /\ wr = "none" /\ wr' = wr
        /\ Sending = {t} /\ pc[t] = "wdone"
    BY <1>13 DEF IInv, SendInv, Sending, WriteDone
  <2>2. ~InFlight'
    BY <1>13, <1>t, <2>1 DEF ThreadTyping, Sending, InFlight, WriteDone
  <2>3. CASE deleted
    BY <1>13, <2>1, <2>3 DEF OrderInv, WriteDone
  <2>4. CASE ~deleted
    <3>1. PICK l \in Nat : l = Len(wq[1])
      BY <1>t, <2>1, QueueFacts
    <3>2. PICK d \in Int : d = wq[1][1]
      BY <1>t, <2>1, <2>4, DoneType
    <3>3. PICK q : q = Tail(wq)
      OBVIOUS
    <3>4. ~deleted' /\ wq' = q /\ nPending' = nPending - l
      BY <1>13, <2>1, <2>4, <3>1, <3>3 DEF WriteDone
    <3>5. InOrder(q, written) /\ d + l = IF q = <<>> THEN written + 1 ELSE q[1][1]
      BY <1>t, <2>1, <2>4, <3>1, <3>2, <3>3, TailOrder DEF OrderInv
    <3>6. Done = d - 1 /\ First = l /\ Done' = d + l - 1
      <4>1. Done = d - 1 /\ First = l
        BY <2>1, <3>1, <3>2 DEF Done, First
      <4>2. CASE q = <<>>
        BY <2>1, <3>4, <3>5, <4>1, <4>2 DEF Done, OrderInv
      <4>3. CASE q # <<>>
        BY <3>4, <3>5, <4>1, <4>3 DEF Done
      <4> QED
        BY <4>2, <4>3, <4>1
    <3>7. InFlight
      BY <2>1 DEF InFlight
    <3>8. Len(wire') = Done' /\ nPending' = written' - Done' /\ nPending' \in Int
      BY <2>1, <2>4, <3>4, <3>6, <3>7 DEF OrderInv
    <3> QED
      BY <2>1, <2>2, <2>4, <3>4, <3>5, <3>8 DEF OrderInv
  <2> QED
    BY <2>3, <2>4
<1>14. ASSUME NEW t \in Threads, WriteShort(t) PROVE OrderInv'
  BY <1>14, <1>t, QuietQueue DEF ThreadTyping, Ready, InFlight, WriteShort, ReleaseRef
<1>15. ASSUME NEW t \in Threads, BodyClose(t) PROVE OrderInv'
  BY <1>15, <1>t, QuietQueue DEF ThreadTyping, Ready, InFlight, BodyClose
<1>16. ASSUME NEW t \in Threads, BodyEnd(t) PROVE OrderInv'
  BY <1>16, <1>t, QuietQueue DEF ThreadTyping, Ready, InFlight, BodyEnd
<1>17. ASSUME NEW t \in Threads, Close(t) PROVE OrderInv'
  BY <1>17, <1>t, QuietQueue DEF ThreadTyping, Ready, InFlight, Close, Return
<1>18. ASSUME NEW t \in Threads, OnClose(t) PROVE OrderInv'
  BY <1>18, <1>t, QuietQueue DEF ThreadTyping, Ready, InFlight, OnClose
<1>19. ASSUME NEW t \in Threads, CloseHandle(t) PROVE OrderInv'
  BY <1>19, <1>t, QuietQueue DEF ThreadTyping, Ready, InFlight, CloseHandle
<1>20. ASSUME NEW t \in Threads, ReleaseHandleRef(t) PROVE OrderInv'
  BY <1>20, <1>t, QuietQueue DEF ThreadTyping, Ready, InFlight, ReleaseHandleRef, ReleaseRef, Return
<1>21. ASSUME NEW t \in Threads, ReleaseIoRef(t) PROVE OrderInv'
  BY <1>21, <1>t, QuietQueue DEF ThreadTyping, Ready, InFlight, ReleaseIoRef, ReleaseRef
<1>22. ASSUME NEW t \in Threads, ReleaseCallbackRef(t) PROVE OrderInv'
  BY <1>22, <1>t, QuietQueue DEF ThreadTyping, Ready, InFlight, ReleaseCallbackRef, ReleaseRef
<1>23. ASSUME NEW t \in Threads, FreePacket(t) PROVE OrderInv'
  BY <1>23, <1>t, QuietQueue DEF ThreadTyping, Ready, InFlight, FreePacket
<1>24. CASE RecvCompletes
  BY <1>24, <1>t, QuietQueue DEF Ready, InFlight, RecvCompletes
<1>25. CASE SendCompletes
  BY <1>25, <1>t, QuietQueue DEF Ready, InFlight, SendCompletes
<1>26. CASE UNCHANGED vars
  BY <1>26, <1>t, QuietQueue DEF Ready, InFlight, vars
<1>27. ASSUME NEW t \in Threads, InitializeDeleted(t) PROVE OrderInv'
  BY <1>27, <1>t, QuietQueue DEF Ready, InFlight, InitializeDeleted
<1> QED
  BY <1>1, <1>2, <1>3, <1>4, <1>5, <1>6, <1>7, <1>8, <1>9, <1>10, <1>11, <1>12, <1>13,
     <1>14, <1>15, <1>16, <1>17, <1>18, <1>19, <1>20, <1>21, <1>22, <1>23, <1>24, <1>25,
     <1>26, <1>27 DEF Next

\* What reached the network is what Write accepted, in order and without a gap, for any
\* number of writers and buffer size (CIOSocket::Write and OnWriteCallback,
\* IOSocket.cpp:116-146, 177-214).
THEOREM WriteOrderHolds == Spec => []WriteOrder
<1>1. Init => OrderInv
  <2> SUFFICES ASSUME Init PROVE OrderInv
    OBVIOUS
  <2>1. wq = <<>> /\ wire = <<>> /\ written = 0 /\ nPending = 0 /\ wr = "none"
    BY DEF Init
  <2>2. Done = 0 /\ First = 0 /\ Len(wire) = 0 /\ ~InFlight
    BY <2>1 DEF Init, Done, First, InFlight
  <2>3. InOrder(wq, written)
    BY <2>1 DEF InOrder
  <2>4. wire \in Seq(Int) /\ wire = [i \in 1..Len(wire) |-> i]
    BY <2>1
  <2> QED
    BY <2>1, <2>2, <2>3, <2>4 DEF OrderInv
<1>2. IInv /\ OrderInv => WriteOrder
  <2> SUFFICES ASSUME IInv, OrderInv, ~deleted PROVE WriteOrder
    BY DEF WriteOrder
  <2>1. Done \in Int /\ First \in Nat
    BY DoneType DEF IInv, QueueTyping
  <2>2. Len(wire) \in {Done, Done + First}
    BY DEF OrderInv
  <2>3. Done <= Len(wire) /\ Len(wire) <= Done + First
    BY <2>1, <2>2
  <2> QED
    BY <2>3, Zenon DEF OrderInv, WriteOrder
<1> QED
  BY <1>1, <1>2, Invariance, NextOrderInv, PTL DEF Spec
=============================================================================
