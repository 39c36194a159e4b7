# AuthServer in TLA+

This directory holds a formal model of the authentication server of `game_login`
(`src/src/AuthServer`, about 13 000 lines of C++ for Windows): TLA+ modules, the TLC
configurations that check them on small instances, and proofs that TLAPS checks for instances
of any size. Line numbers refer to files of `src/src/AuthServer` unless a path is given.

- [1. The system](#1-the-system)
- [2. The modules](#2-the-modules)
- [3. The runs](#3-the-runs)
- [4. The proofs](#4-the-proofs)
- [5. Disagreements between code and comments](#5-disagreements-between-code-and-comments)
- [6. What is not modelled](#6-what-is-not-modelled)
- [7. Plan](#7-plan)

## 1. The system

The server is one process around a Windows I/O completion port. It listens on three ports and
keeps a few outgoing connections. Worker threads (`IOThreadServer`, Thread.cpp:48-74) take
completions from the port; the completions of one connection may be taken by any worker, so
everything that happens to a connection may overlap with everything else that happens to it.
`_USE_ACCEPTEX` is not defined: connections are accepted by listening events, in
`OnIOCallback` of the listener.

### 1.1 Inventory

| Component | State | Operations | Interacts with |
|---|---|---|---|
| `CRWLock` (Lock.cpp) | critical section, `readerCount`, semaphore | `ReadLock`, `ReadUnlock`, `WriteLock`, `WriteTryLock`, `WriteUnlock` | server list, IP lists, IP sessions, pointers of the outgoing sockets |
| `CLock` (Lock.cpp) | spin variable or critical section | `Enter`, `TryEnter`, `Leave`, `Wait` | buffer and packet pools |
| `CIOObject`, `CIOSocket`, `CPacketServer` (IOObject.cpp, IOSocket.cpp) | `refcount`, `m_hSocket`, read buffer, queue of write buffers, `m_nPendingWrite` | `Initialize`, `Read`, `Write`, completions, packet handlers, `CloseSocket`, `AddRef`, `ReleaseRef` | every connection is one; completion port; Winsock; pools |
| Client gate: `CIOServerEx`, `CSocketServerEx`, `CIPAccessLimit` (IOServer.cpp, SocketServerEx.cpp, IPList.cpp) | map from handles to connections, number of sockets, connections per address, timers | accept, refuse, look up, close, change the limit | `CIOSocket`, idle timer, GM port |
| Idle timer (SocketServerEx.cpp) | `m_lastIO`, a timer-queue timer per client | `OnTimerCallback`, renewing `m_lastIO` in reads and sends | gate, configuration |
| World servers: `CServer`, `CSocketServer`, `CServerList` (IOServer.cpp, CSocketServer.cpp, ServerList.cpp) | list of servers with a connection each, map from addresses to connections | register a connection, choose an id, drop the old connection, ask for user counts | `CRWLock`, `CIOSocket`, window |
| GM port: `CServerInt`, `CSocketInt` (CSocketInt.cpp) | configuration values | text commands that set a limit, an address, a mode | gate, configuration |
| Worker and listener threads (Thread.cpp) | completion port, `g_bTerminating` | take a completion, call the object | all connections |
| Outgoing connections: `CLogSocket`, `CIPSocket`, `CWantedSocket`, with `CIPSessionDB` | a global pointer per connection, its `CRWLock`, a reconnect timer; map of sessions | connect, reconnect, send, charge a session | timers, `CIOSocket` |
| `DBEnv`, `CDBConn`, `CMySQLConenction` (DBConn.cpp, MySQLConnection.cpp) | array of connections, free list, MySQL handles | `Login`, `AllocSQLPool`, take and give back a connection, query, execute | packet handlers, `CServerList::UpdateDB` |
| `CIPList` (IPList.cpp) | sorted table of address ranges | `Load`, `IpExists` | gate |
| `CJob` (Job.cpp) | priority queue of timers, queue of events | `PushTimer`, `PushEvent`, `RunTimer`, `RunEvent`, `SetTerminate` | objects, reconnect timers |
| Buffer and packet pools (IOBuffer.cpp, IOSocket.cpp, and four copies of the packet pool) | 16 free lists and two counters each | allocate, free | sockets |
| Framing and assembly (`OnRead`, util.cpp) | `packetLen`, `mode` | split a stream into packets, build a packet | sockets, handlers |
| Packet handlers | mostly stubs that return `false` | answer, close | sockets |
| Configuration (Config.cpp) | parsed values | load, compare dates | everything |
| Logging, window, reporter, GM dialogs; cryptography; exception reports; Runespy; SQL schema; vendored libraries | - | - | - |

### 1.2 What is hard, and what makes it correct

- **Lifetime of a connection.** Reads, writes, parsed packets, timers and threads that found a
  connection in a map all hold it, and it deletes itself with the last `ReleaseRef`. Correct
  means: the count is the number of holders, nobody touches a deleted connection, a closed one
  is deleted in the end. The thread that accepts is late to become a holder: the connection is in
  the map, and its idle timer runs, before `Initialize` takes a reference.
- **The write queue.** Any thread appends; one overlapped send is under way; the first buffer
  is read outside the critical section. Correct means: one send at a time, every message once
  and in order, no send forgotten.
- **The read buffer.** Parsed packets point into it while they wait for a worker. Correct
  means: the next read goes elsewhere as long as they do.
- **Four registries of client connections** (map, count, addresses, timers), updated one after
  the other in accept and in close, and keyed by handles that the kernel reuses. Correct means:
  they agree, whatever the order; limits are kept as far as the code keeps them.
- **Ticks that wrap** and are read by one thread while another writes them.
- **A lock given up in the middle** of registering a world server, and ids in an unsigned char.
- **Locks that are not recursive**, one of which waits for a semaphore with a mutex held.
- **Reconnection.** A chain of timers and new objects keeps an outgoing connection alive; a
  global pointer is swapped under a lock that not all its users take, while its references pass
  from the old object to the new. Correct means: exactly one attempt is under way, the pointer
  leads to a live object, and an object that nobody knows any more has been deleted.
- **Waiting for a database connection** with the server list locked. Correct means: everybody
  who polls is served, and the list is always let go.
- **Lists shared by many threads** with two counters that choose the slot. Correct means: an
  object is in one place, and the pool stops growing.
- **A stream cut anywhere.** Correct means: the packets handed on do not depend on the cuts.
- **Events that are reset by one thread and set by another**, and threads that only an event
  wakes. Correct means: nobody waits for ever to be accepted, unless a completion could not be
  posted or the ports served first are busy without end; and a stop reaches `ListenThread` and the
  timer thread (the workers are not waited for).
- **An hour read before the lock is taken.** Correct means: every change of the log file closes
  one and leaves one to write to.
- **A sorted table of ranges that is merged line by line.** Correct means: a search finds exactly
  the addresses of the file, unless a line ends at the top address or begins at 0 after others.

`PROJECT.json` lists the hazards, each at its line and with the properties that cover it. One is
without a property: a tick that is read before another thread renews `m_lastIO`
(SocketServerEx.cpp:358), which closes an active connection, is what `OnlySilentIsClosed` has to
admit.

## 2. The modules

| Module | Models | Level |
|---|---|---|
| `AbstractRWLock` | what `CRWLock` promises | specification |
| `RWLock` | `CRWLock`, one step per synchronisation call | implementation |
| `RWLockProofs` | invariant and refinement of `RWLock` | proofs |
| `IOSocket` | the `CIOSocket` of one client, with the workers, other threads and Winsock | implementation |
| `MCIOSocket` | symmetry for `IOSocket` | TLC |
| `IOSocketProofs` | invariant of `IOSocket` | proofs |
| `Gate` | the client gate: accept, refuse, timers, close, four registries | composition of the gate's parts |
| `MCGate` | symmetry for `Gate` | TLC |
| `GateProofs` | invariant of `Gate` | proofs |
| `IdleTimer` | the idle timer of one client connection and the clock | implementation |
| `IdleTimerProofs` | remainders, and what the timer closes and when | proofs |
| `WorldReg` | registration of world servers, over `AbstractRWLock` | composition |
| `WorldRegProofs` | invariant of `WorldReg` | proofs |
| `ConnQueue` | what the pool of database connections promises | specification |
| `DBPool` | the pool, its users and the lock of the server list, over `AbstractRWLock` | implementation and composition |
| `DBPoolProofs` | the free list and the refinement of `ConnQueue` | proofs |
| `Reconnect` | the three outgoing connections: pointer, lock, timer, sockets, shutdown, over `AbstractRWLock` | composition |
| `ReconnectProofs` | invariant of `Reconnect` | proofs |
| `Pools` | the pools of buffers and packets with `CLock` | implementation |
| `IPRanges` | `CIPList` | implementation |
| `Framing` | `OnRead` of five classes | implementation |
| `EventLoop` | `CJob`, `ListenThread`, the listeners, shutdown | composition |
| `LogFiles` | the files of `CFileLog` and `CLogdFilelog` | implementation |
| `MCParts` | `IdleTimer`, `Pools`, `IPRanges`, `Framing` and `LogFiles` together | TLC |
| `PartsProofs` | invariants of `EventLoop`, `LogFiles`, `IPRanges`, `Pools` and `Framing` | proofs |

Each thread has a control point `pc[t]`; a step is one interlocked operation, one critical
section, one call into the kernel, or a local decision that another thread can influence. An
operator whose comment begins "the bug of" is not part of the specification: it is a wrong
variant of the definition after it, against which the properties are tried out (`mutants` in
`PROJECT.json`).

### 2.1 RWLock and AbstractRWLock

`mutex` is the owner of the critical section, `readerCount` the member, `dataLock` the count of
the semaphore. `ReadEnter`, `ReadWait`, `ReadLeave` are `ReadLock`; `ReadUnlockEnter`,
`ReadUnlockLeave` are `ReadUnlock`; `WriteWait` is `WriteLock`, and so on. The abstract lock has
a set of readers and a set of writers and acquires in one step. The refinement mapping counts a
thread as reader from the moment it need not wait any more (`r_leave`) to the moment it has
counted itself out (`ru_enter`).

### 2.2 IOSocket

The object is a `CSocketServerEx`; its `FindSocket` is `CIOServerEx::FindSocket`, whose map
`OnClose` cleans. (`CServer::FindSocket`, of the world servers, has a map nobody cleans; their
connections are in `WorldReg`.) The socket has a count (`refcount`), a handle (`hSocket` for the member, `kernelOpen` for the
kernel's side), the read in flight (`rd`), the write in flight (`wr`), the read buffer with its
own count (`rbuf`, `bref`), packets in the completion queue (`posted`, `pktBuf`) and the write
queue (`wq`). `Workers` take completions (`TakeRead`, `TakeWrite`, `TakePacket`), `Others` create
the socket (`Initialize`) or find it in the map and write to it or close it (`FindSocket`). A
message is its number; a buffer holds `BufferSize` messages.

A behaviour begins when the socket is in the map and its idle timer runs, which is before
`Initialize` (IOServer.cpp:641-650, 400-406). Its creator holds no reference until then, so somebody
who finds and closes the socket may be the last to let go of it. `InitializeDeleted` is the
creator that comes after that: it adds itself to the count of a deleted object, and the model
says nothing of what it does next.

What the code does and the model keeps although it looks wrong:

- `WriteShort` gives back a reference of its own when a write completes with a smaller count
  (IOSocket.cpp:122), besides the one of `OnIOCallback`; the history variable `shorts` counts
  these, and the ledger is stated with it.
- `Initialize` returns without its `ReleaseRef` when the completion port refuses the handle
  (IOSocket.cpp:72); `leaked` records it.
- A `WSASend` that fails leaves its buffer first in the queue; `sendFailed` records it.
- A send before `Initialize` has associated the handle is never completed (`wr = "lost"`): the
  socket is in the map before `Initialize` is called.

Abstractions: an `AddRef` is taken with the step of the same thread that precedes the call it
protects; parsing is a choice between a packet, a bad packet, and no more packets; a handler is
any number of writes followed by a close or not.

### 2.3 Gate

`kernelOpen` is the set of open handles, `socketmap` the map of `CIOServerEx`, `socketCount` the
counter of the reporter, `accessmap` the counts of `CIPAccessLimit`, `timers` the timers with the
handle each was created with; a timer that cannot be created is only logged (SocketServerEx.cpp:118),
and `untimed` remembers the connection that goes without. A connection is accepted in the steps `Accept`, `CheckLimit`,
`SetAccessIP`, `Allocate`, `Insert`, `Initialize`, and closed in `Close` (the handle is taken from
the object), `Uncount`, `RemoveSocket`, `DelAccessIP`, `CloseHandle`, in the order of
`CloseSocket` and `CSocketServerEx::OnClose`. The kernel may hand out a handle again as soon as
it is closed. A timer that has fired carries a handle (`TimerFires`), by which `FindSocket` looks
the connection up later. `Drop` and `FindSocket` abstract when a connection is closed: that is in
`IOSocket` and `IdleTimer`.

### 2.4 IdleTimer

One connection, the clock modulo `Wrap`, the timer, and the callback in three steps (look up,
read the tick, compare with `m_lastIO`), between which another thread may set `m_lastIO`. The
constants give the configured time, the ticks of a second, the default and the 500 ms that
`OnTimerCallback` subtracts.

### 2.5 WorldReg

Workers register connections with `SetServerSocketByAddress` under the write lock of
`CServerList`; the thread of the window sends a request to every server under the read lock. The
second reader is `UpdateDB`, every five minutes, which waits for a database connection with the lock
held: for ever, if the login failed (`loggedIn`). It is one call at a time here; calls that overlap
are in `DBPool`. The
lock is an instance of `AbstractRWLock`, which `RWLock` is proved to implement. `ScanTaken`
releases the lock, `Drop` closes the connection found, `Relock` takes the lock again and assigns.
The objects are counted, with the references `IOSocket` explains in detail folded into one step
each; `deleted` objects are tracked because `CSocketServer::OnClose` is empty and the list and
the map keep pointers to them. A use of a deleted object ends the process or has no effect on
the others (`Use`).

### 2.6 DBPool and ConnQueue

`first`, `last` and `next` are the pointers of `DBEnv`, as slots of its array; `cur` is the
element of every user. `TakeFirst` is the constructor of `CDBConn`, whose polling is that it
waits while the list is empty, `GiveBack` the destructor; each is one critical section. Users are
the main window and the timer callbacks of `CServerList::UpdateDB`, which take the lock of the
server list first, so they compose the pool with `AbstractRWLock` and with the world servers that
want to write. `loggedIn` says whether the login at the start succeeded. The abstract pool is a
queue; the mapping follows the links from `first` (`FreeList`).

### 2.7 Reconnect

One behaviour is about one of the three connections (`kind`). `ptr` is the global pointer,
`reconnect` and `use` the two flags, `timers` the objects whose `OnClose` armed a timer. Objects
are numbered as they are made; `refs` counts their references, `io` says which have a read under
way. The timer routine is `Fire`, `Check`, `Connect`, then `ReleaseFailed` or, with the lock
taken, the steps of `SwapOrder`, which differs between the three classes; `CloseSocket` and
`Initialize` are subroutines any thread may be in (`ret` is where they return to). The worker
closes a connection whose read fails, the user sends with or without the lock, and `Listener` is
the end of `ListenThread`. `leaked` and `noSocket` record the two kinds of references that nobody
gives back and a failed `socket()`; `stray` records the use of a deleted object or of NULL, after
which the behaviour ends.

### 2.8 Pools, IPRanges, Framing, EventLoop, LogFiles

These share no state with each other. `MCParts` lets one of `Pools`, `IPRanges`, `Framing`,
`LogFiles` and `IdleTimer` move in each behaviour; `EventLoop`, which has liveness, is run by itself.

- `Pools`: `nAlloc` and `nFree` are the low bits of the counters, `head` and `link` the lists,
  `spin` the lock of each slot. `SpinEnter` is `CLock::Enter` with `Wait`; the steps between it
  and `LeaveAlloc` or `LeaveFree` are single reads and writes.
- `IPRanges`: `table` as in the code, addresses of `Bits` bits, arithmetic that wraps; `file` is
  what the lines read say, first and last address of each, whatever the code makes of them.
  `ReadLine` is the conversion of a line, `Insert` the rest of the loop of `Load`.
- `Framing`: `received` is the stream, `buffer` the read buffer, `pi` the place in it. `Receive`
  is a read that completes with any number of bytes; `Incomplete`, `ReadLength` and `ReadBody` are
  the branches of the loop. `class` tells the connections apart where their code differs.
  `CWantedSocket` hands on every read whole and is left out.
- `EventLoop`: `event` and `armed` are Winsock's side of `WSAEventSelect`, `backlog` counts the
  connections that wait (any number may arrive over time), `tickets` the posted completions. `Wake`
  takes the first port that is set, as `WaitForMultipleObjects` does. `EndIPConn` and `EndLogConn`
  are the ends of the outgoing connections, for which `ListenThread` waits for locks that senders and
  timer routines take (`outgoing`, `held`). `AddTopRef` and `ReleaseTop` are the references of the
  24 hour timer, one for its place in the queue and one for its callback. `Listen` is `RunEvent` with `OnEventCallback` and the end of `ListenThread`,
  `RunTimer` the loop of that name. `SetTerminate` and `SetEvents` are apart because the threads
  read `m_terminating` between them.
- `LogFiles`: `opened` is the file of every handle, `openNow` the handles that are open. `Stamp`
  reads the clock before `EnterSection`; `OpenNew` and `CloseOld` change the file.

## 3. The runs

`tlc -config <cfg> <module>`; each finishes in about two minutes or less on two cores.

| Run | Module, configuration | Question | Result |
|---|---|---|---|
| `rwlock` | `RWLock`, `MCRWLock.cfg` | exclusion, no release of a free semaphore, no reader stuck behind a waiting one, refinement of the abstract lock, service of all callers except writers under endless readers | holds |
| `socket` | `MCIOSocket`, `MCIOSocket.cfg` | ledger of references, no use after delete, one send, order on the wire, stability of read buffers | holds, with the exception of finding 14 |
| `socket_live` | `IOSocket`, `MCIOSocketLive.cfg` | a closed socket is deleted; what is written is sent, save the failures named in the property | holds |
| `gate` | `MCGate`, `MCGate.cfg` | the registries agree, the map finds live connections only, the limit per address is kept, the limit of sockets is passed by at most one connection for every other worker | holds |
| `idle_zero` | `IdleTimer`, `MCIdleZero.cfg` | does 0 mean the default number of seconds | violated |
| `world` | `WorldReg`, `MCWorldReg.cfg` | one entry per server, ids name one server, entries have connections, one connection per server unless accepts overlap; every registration ends, with two readers of the list | holds, with the exception of finding 4 |
| `world_two` | `WorldReg`, `MCWorldRegTwo.cfg` | is the old connection of a server always dropped | violated |
| `world_dangling` | `WorldReg`, `MCWorldRegDangling.cfg` | does a closed connection leave the list | violated |
| `dbpool` | `DBPool`, `MCDBPool.cfg` | the pointers are a queue, every user is served, a world server waits for ever only while callbacks overlap | holds, if the login succeeded |
| `reconnect` | `Reconnect`, `MCReconnect.cfg` | one attempt at a time and always one, the pointer is live, which unlocked use goes wrong, which objects are lost, attempts end | holds, with the exceptions of findings 5 to 8 |
| `parts` | `MCParts`, `MCParts.cfg` | pools: one place per object, bounded; ranges: search finds what the file lists; framing: independent of the cuts; log files: none lost, one to write to; idle timer: silent connections are closed in time, across the wrap of the clock, and no others | holds, with the exceptions of findings 9, 10, 12 and 13 |
| `events` | `EventLoop`, `MCEventLoop.cfg` | is everybody accepted, is the 24 hour timer queued and deleted once, does a stop come to its end | holds, with the exceptions of findings 11 and 15 |

A property that holds with an exception states the exception in its formula. The type
invariants (`TypeOK`, `PoolTypeOK` and so on) belong to no run; those of `RWLock`,
`IOSocket`, `Gate`, `WorldReg`, `DBPool`, `IdleTimer` and `Reconnect` are part of the inductive invariants in
section 4.

### 3.1 Bounds, and why they are enough

- `rwlock`: three threads, so that two readers overlap while a writer waits, and a third thread
  meets a half-finished `ReadLock` or `ReadUnlock`. The proofs are for any number.
- `socket`: two workers and two other threads, so that a read callback, a write callback or a
  handler, a finder of the socket, and its creator or a second finder are inside at once; two packets and three buffers, so that
  a read buffer is left to a packet while another read fills the next; three messages in buffers
  of two, so that the queue has a first buffer in flight, a last one that takes a second
  message, and a further one; one short write. The proofs lift all of
  these bounds.
- `socket_live`: one packet, two buffers and two messages; no short write, after which the count
  is short and the object is deleted early. Symmetry is not used with liveness.
- `gate`: two workers, four connections over time on four handles, which are reused, two
  addresses, a limit per address of 2 (reached, refused and freed within four connections), and a
  limit of sockets that the GM port moves between 1 and 2, so that two accepts can pass it
  together. The proofs lift all of these bounds.
- `world`: two workers, three connections, two addresses: two connections of one server register
  while a third was there before, or while another server registers. `IdRange` is 2, so that the
  second server gets the invalid id and is refused; the two runs that find a violation have
  `IdRange` 3. Safety was also checked with three workers, four connections, and three addresses,
  and is proved for any number of them.
- `dbpool`: two connections and four users, so that two users poll while two have one, the list
  is empty, has one element or two, and callbacks of `UpdateDB` overlap; one world server. The
  refinement is proved for any number of them.
- `reconnect`: three objects: three connections in a row, or a failed attempt between two. Two
  timer threads, since a routine may still release the old object when the next timer fires; one
  worker, one sender, `WinMain` and `ListenThread`. A fourth object adds no new situation: at most
  two have references besides the leaked ones. The proofs lift these bounds.
- `parts`. Pools: two threads, two slots, three objects wanted at a time: lists hold two, and both
  threads meet in one slot on the way in and out; the proofs are for any threads, slots and number of
  objects wanted. Ranges: 16 addresses of octets of one bit, so
  that the three default lengths are 1, 2 and 4; three lines, of which the third may contain,
  touch or join the two before; the proofs are for any width and any file. Framing: three values of a byte, a buffer of four, streams of
  seven bytes: packets longer than a read, bodies as long as the buffer, lines longer than
  `LineMax`, all cuts; the proofs are for bytes, buffers, lines and streams of any size. Logs: two threads, two hours of two halves.
  Idle timer: a period of 6 ticks, a slack of 2, a delay of at most 2 and a wrap of 16: a little
  less than three periods, so that the wrap comes at every phase of the timer; the proofs are for
  any period, delay and range of the clock in which two periods fit.
- `events`: two ports on which two connections may wait, so that the second arrives between any two
  steps of accepting the first; how many arrive in all is not bounded, so that the first port can
  keep the second waiting.

### 3.2 Deadlock and fairness

`RWLock` is checked for deadlock. The other runs switch the check off because the system may
stop: the model bounds the number of connections, messages or ticks, and a connection that is
closed and deleted has no next step.

- `RWLock`: every caller releases what it has acquired; entering the critical section and
  waiting for the semaphore are strongly fair, since Windows serves the waiters of both in turn.
  Nobody is made to ask for the lock.
- `IOSocket`: a thread that has begun continues (weak fairness of `Progress`); the port delivers
  every completion, although the workers may be busy in between (strong fairness of each `Take`,
  the port is a queue); Winsock completes what it has accepted. No fairness for finding the
  socket, writing or closing: the code does not make them happen.
- `WorldReg`: a registering thread continues; waiting for the write lock is strongly fair, which
  is what `LockIsServed` of `RWLock` gives as long as readers do not overlap for ever. There are
  two readers: the window, once a minute, and `UpdateDB`, every five minutes, which lets go if there
  are database connections. That they do not hand the lock to each other for ever is `LeaveFree`:
  again and again the last of them leaves the list free.
- `DBPool`: a polling user and a thread that waits for the lock get their turn if they could have
  one again and again (`Sleep(100)` has no order, but Windows does not starve a thread), the
  statements of a user end. Nothing makes a command, a callback or a world server come.
- `Reconnect`: a pending timer fires, a thread that need not wait continues, waiting for the lock
  is strongly fair. Nothing makes a connection fail or a user send.
- `EventLoop`: `ListenThread` and the timer thread run, a worker takes what is posted. Whoever has
  the lock of an outgoing connection lets it go (which is `AttemptEnds` of `Reconnect` for the timer
  routines), and `ListenThread` gets it if it is free again and again. Nothing makes a connection
  arrive or the window be destroyed, and nothing is assumed of the order of the ports.
- `Pools`, `IPRanges`, `Framing` and `LogFiles` are checked for safety only.
- `Gate` and `IdleTimer` state no fairness. That silent connections are closed is a safety
  property there: the number of silent ticks is bounded.

## 4. The proofs

`tlapm <module>` for `RWLockProofs`, `IOSocketProofs`, `GateProofs`, `WorldRegProofs`,
`DBPoolProofs`, `IdleTimerProofs`, `ReconnectProofs` and `PartsProofs`. The safety properties that the runs of these
models check are theorems for every value of the constants. All are proved from the named
assumptions on the constants, which TLC evaluates in every run:

- the sets of threads, connections and packets are finite, threads of different kinds are
  different, and the values for "none" are not members of the sets they complement;
- numbers that are sizes, limits or bounds are natural numbers, of the sign the code gives them;
- 2^Bits and 2^OctetBits are positive, and 2^Bits is a multiple of the square of 2^OctetBits: true
  of every width that has two octets, but the prover has no facts on `^`;
- the gate has at least one worker (`Workers # {}`): `config.numServerThread` of them
  are started (Thread.cpp:172), and without one nobody accepts.

Two theorems about the idle timer have a hypothesis of their own, named in the theorem. Of the
model: `Horizon`, up to which the history variable counts silent ticks, is not smaller than what
is to be counted. Of the code (`Roomy`): the time-out is more than the 500 ms that
`OnTimerCallback` subtracts, which any number of seconds is, and twice the time-out fits into
`GetTickCount`, which up to 24 days does. Finding 3 is the case in which the first of these fails.

**RWLock** (`RWLockProofs`). `MutualExclusion` is not inductive: `ReadEnter` lets a second reader
in without looking at the semaphore, which is right only because the count is right. `IInv` adds
that `readerCount` is the number of counted threads, that `mutex` is held exactly in the three
control points between enter and leave, that nobody holds the lock for reading while a reader
waits, and that the semaphore is taken exactly when somebody is in. From it follow
`MutualExclusion`, `NoOverRelease` and `WaitingReaderBlocksNoReader`, and that each step maps to
a step of `AbstractRWLock` or a stutter (`Refinement`).

**IOSocket** (`IOSocketProofs`), the references. The ledger (`RefLedger`) says that the count plus
the short writes is the number of holders. A step that takes or gives back a reference changes the
number of holders by one only if there is at most one read, one write and one creator: so `IInv`
also states who can be on the way to a read (`ReadInv`), that a non-empty queue keeps a second
send away (`SendInv`), that one thread creates the socket (`CreateInv`), that a packet is pending
once (`PacketInv`), that the map forgets the socket before its reference to the handle goes
(`ListedInv`), and that a deleted object has no holder but a creator that came too late
(`DeletedInv`), which is the exception of `NoUseAfterDelete`. The
circle closes in the destructor: it empties the queue, which would free the way for a second
send; that the object is not deleted while a send is possible follows from the ledger itself.
Lemmas: `OneElement` (a set that changes in one element), `RefSets` and `RefCounts` (the sets of
holders are finite), `ThreadStep` (a step of one thread changes only its share of the sum),
`Balance` (the arithmetic of one step). Proved from it: `TypeOK`, `RefLedger`,
`NoUseAfterDelete`, `ListedIsAlive`, `OneSend`, for any number of threads, packets, buffers,
messages and short writes.

**IOSocket**, the data. `BufferStable` speaks of reads under way; it needs (`BufferInv`) that a
buffer's count is the number of packets that point into it, plus one for the socket that reads
into it, and that a thread on its way from choosing the buffer to `WSARecv` already has it for
itself. `WriteOrder` speaks of the network; it needs (`OrderInv`) that the queue holds the
messages that follow on what is done, in order, without a gap and over all buffers, and that the
network ends at what is done, or, while a send is outstanding, at the end of the first buffer.
Both rest on `IInv`: on one read, one send, and the destructor not running under them.

**Gate** (`GateProofs`). `RegistriesAgree` speaks of moments at which nobody accepts or closes.
The invariant says who answers for what in between: an open handle belongs to one object or to
one thread (`HandleInv`), an object is closed by one thread (`CloseInv`), an entry of the map that
leads to a closed object is about to be removed by the thread that closed it (`MapInv`), the count
of sockets is the number of objects between the constructor and `Uncount` (`CountInv`), and an
address counts its connections up to `DelAccessIP` and the threads that have passed `SetAccessIP`
(`AccessInv`). `LimitOvershoot` needs the threads that have passed the check and not counted their
socket (`PassInv`): they and the count together exceed some value the limit had by at most one
for every other worker.

`RegistriesAgree` asks for a timer of every connection but those in `untimed`.

**WorldReg** (`WorldRegProofs`). `OneEntryPerAddress` rests on what a scan knows of the entries it
has passed (`ScanInv`). The lock is given up during the scan, but the thread assigns to the entry
it stopped at, and entries do not go away; and the ids wrap to entry 0 once only (`WrapInv`).
That a connection with an id has the entry of its server is kept because the window and the
other threads cannot reach it before it is in the map (`EarlyInv`). `ServerHasOneConnection`
needs, besides, that a thread alone with its address finds the entry as it left it (`KeepInv`) and
that a connection that is open is in the list or in the hands of a thread (`CoverInv`).

**DBPool** (`DBPoolProofs`). `PoolInv`: the links from the first pointer on pass different
elements that nobody uses, and end at the end pointer; a user has a connection exactly between
constructor and destructor of `CDBConn`. Taking the first element is `Take` of `ConnQueue` since the last
link is null; giving back is `Put` since the end pointer is the last element and the one appended
is not in the list. `FreeList` is defined by choice among the lists that follow the links;
`TheList` says there is one only. That `Init` gives every connection once is a counting argument
(`OntoAll`). `Refinement` is the whole of `Spec => ImplementsQueue`.

**IdleTimer** (`IdleTimerProofs`). The code only sees differences of readings modulo the range of a
DWORD; `ClockInv` says that each is congruent to the true distance. A decision to close stays
right while the callback goes on, or the connection has become active since (`DecidedInv`), which gives
`OnlySilentIsClosed`. For `SilentIsClosed` the invariant (`PeriodInv`) bounds the silence by the
distance to the next time the timer is due: a connection that the last callback let live had been
silent for less than the limit.

**Reconnect** (`ReconnectProofs`). The invariant has one part per question. `PlaceInv`: where each
thread can be and where its `CloseSocket` returns to. `ChainInv`: an open connection, a pending
timer or one thread carries the chain, always at the object made last; `RetryChain` follows.
`LockInv` and `PtrInv`: only the thread with the lock swaps the pointer, so what a routine swapped in is
still there when it goes on. `OwnInv`: one thread makes an object, and nobody closes it before
`Initialize`, since the lock or the pointer is between. `ReadInv`: an object has one read, or one
completion of it. `RoleInv`: the object of the pointer, those a routine will still swap in and those
it has swapped out are different. `RefInv` counts: until ListenThread ends the connection or a
deleted object was used, the count of an object is the number of its holders, which are the pointer (or
the routine that answers for its reference), a `CloseSocket` after `OnClose`, `Initialize`, a read,
a sender, and whoever leaked one. From it follow `PointerIsLive`, `UnlockedUse` and
`OnlyTheseLeak`. For every action there is a lemma that says what it does (`...Effect`) and one
that it keeps the invariant (`...Keeps`); the `...Step` lemmas say which changes leave a part alone. The
three kinds are proved together: `AfterTable` turns their order of the swap into a table.

**EventLoop** (`PartsProofs`). `TopTimerStays`: the 24 hour timer has one reference for its
place in the queue; only between the `AddRef` for a new place and the `ReleaseRef` for the old one
are there two (`TimerInv`). `WaitingIsSeen` is
what the liveness property `EveryoneAccepted` of the run rests on, and is only proved. It is not inductive, since it says nothing of
a port with an empty backlog; `ArmInv` says that every port that Winsock will not signal by itself
is seen by somebody, whether a connection waits or not.

**LogFiles** (`PartsProofs`). `LogInv`: the handles that are open are the member and those that
threads have in hand, only the owner of the section has one, and the member of a `CFileLog` is
open on the file of the hour noted last, so that the file opened next is another one.

**IPRanges** (`PartsProofs`). `RangesInv`: every record covers something, between two records there is
a gap, and together they cover the addresses of the lines read so far (`InFile`), except lines that
end at the top address, which the code skips (finding 13). `DefaultLast` says that a line with one
address does not reach beyond the top. `Insert` is right because
in such a table the records that a line swallows are those that begin at or before the line's own
end, whatever those swallowed before reach to (`SwallowedIs`), because a record that ends right
before the line is joined, so that the gap before it stays, and because the last one swallowed
gives the end (`Reaches`). A range from address 0 into a table that is not empty is the exception
the formula states (finding 10). `SearchFinds`: in such a table the first record that ends above an
address covers it if any does.

**Pools** (`PartsProofs`). `PoolsInv` says that there is a list for every slot which its links lead to
(`ListInv`), that each object is in one list, in one hand or with a caller, and that the owner
of a slot's lock is alone with its list (`LockInv`, `HandInv`). `PoolOnce` follows, since `Nth` walks
along that list (`NthIs`). `PoolBounded` is a question of counting (`CountInv`): the length of a list
is what was made for its slot, plus the tickets of `Free`, minus those of `Alloc`, corrected by the
calls still under way. Since the two counters run in opposite directions around the slots, the
tickets of `Alloc` for one slot exceed those of `Free` by no more than the objects that callers
want at that moment (`AheadBound`), and an `Alloc` that finds its list empty is one of them. The names of
the objects fit into `Objects` because each has a number of its own below the number made
for its slot (`MakerInv`, `Fits`).

**Framing** (`PartsProofs`). `Whole` reads a stream at once and is defined recursively, from each place
on by what a later place has. `SolutionExists` builds such a function place by place from the end,
as the least place from which one exists can only be 0, and `SolutionUnique` finds no last place
where two differ; so `Whole` is the result of any function that fits (`WholeIs`). `FrameInv` looks at every stream that
begins with the bytes received so far: what it contains is `posted`, followed by what it contains
from `Reached` on, the start of the first packet or line not yet handed on (`HandedOnInv`).
Receiving more bytes only leaves fewer such streams, so this conjunct needs no induction over the
packets; handing one on moves the first packet at `Reached` to `posted` (`HandedOnGrows`). For the
steps the invariant also says that the buffer is the end of the stream (`BufferInv`), that a
length kept from one read to the next is the one in front of the body, and that the code asks for
more bytes or closes the connection only when the packet is short or bad (`PacketInv`), and that the
line being read has no end in the buffer yet (`LineInv`). Between two reads the stream so far
therefore contains nothing more (`NothingMore`).

**Only model-checked.** All liveness
(`LockIsServed`, `Reclaimed`, `WritesDrain`, `AcceptReturns`, `PoolServes`, `UpdateLetsGo`,
`AttemptEnds`, `EveryoneAccepted`, `StopEnds`), since the prover handles neither fairness nor
`ENABLED`.
That `LockInv` of `WorldReg` and the users of the list's lock in `DBPool` may use
the abstract lock is the refinement proved of `RWLock`.

## 5. Disagreements and defects

The first three are runs that end with a counterexample. The others are the exceptions that
properties of passing runs have to state; without the exception TLC finds the counterexample.

1. `world_two`: the comment at ServerList.cpp:67 says the old connection of a server is dropped.
   While the lock is given up for that (ServerList.cpp:72-76), another connection of the same
   server may put itself into the entry; it is then overwritten and stays open, outside the list.
   `ServerHasOneConnection` shows that this needs two accepts of that server under way at once.
2. `world_dangling`: the comment at ServerList.cpp:72 says that `CloseSocket` calls back into the
   list. `CSocketServer::OnClose` is empty (CSocketServer.cpp:229); a connection that closed is
   deleted and its entry keeps the pointer, which the next connection of that server uses.
3. `idle_zero`: the default of `SocketTimeOut` is set in GlobalAuth.cpp:410 as 180, after
   Config.cpp:141 has converted to milliseconds. 180 less 500 is a large unsigned number, so no
   connection is ever idle for that long.
4. `UpdateLetsGo` (ServerList.cpp:298): after a failed login `UpdateDB` polls an empty pool for
   ever with the server list locked, so that no world server can register any more: the exception
   of `AcceptReturns`. It uses the connection for nothing.
5. `RetryChain` (LogSocket.cpp:45): the comment above it says that any error leads to another
   attempt; a failed `socket()` does not, as `OnClose` is only called for a valid handle.
6. `OnlyTheseLeak` (IPSessionDB.cpp:448, WantedSocket.cpp:200): `OnCreate` takes a reference that
   nothing gives back, so every established billing or wanted connection leaves an object behind.
7. `UnlockedUse` (GameTelnet.cpp:15): the window uses `pWantedSocket` without lock or test. That
   the object is seldom deleted under it is due to the leak of 6.
8. `PointerIsLive` (Thread.cpp:131): at shutdown the reference of the pointer is given back, the
   pointer stays, and the timer routine releases the object again.
9. `PacketsAsSent` (LogSocket.cpp:207): `CLogSocket` refuses every packet, since it compares an
   unsigned byte with zero.
10. `SearchMatchesFile` (IPList.cpp:154): a range from 0.0.0.0 that is not the first is put at the
    end of the sorted table.
11. `TopTimerStays` (Job.cpp:40): the top of an empty queue is read if the 24 hour timer is due
    during the stop.
12. `LogGoesOn` (Log.cpp:136): a `CLogdFilelog` whose file two threads change at the half hour
    loses it for good; a `CFileLog` that goes back to the last hour writes over the start of that
    file, since only `SetDirectoryEx` moves to its end.
13. `SearchMatchesFile` (IPList.cpp:141): a range is kept with the address after its last. For a line
    that ends at 255.255.255.255 that is 0, and the line is skipped as if it were empty; its
    addresses are never found.
14. `NoUseAfterDelete` (IOServer.cpp:406): a client connection is in the map, with its idle timer
    running, before the thread that accepts it holds a reference. If that thread is held up for the
    time-out, the timer closes the connection and its last reference goes; `Initialize` runs on a
    deleted object.
15. `EveryoneAccepted` (Job.cpp:71): of several ports that are signalled the wait returns the first.
    World servers or clients that arrive fast enough keep the ports after theirs waiting.

## 6. What is not modelled

- `lib/`: about 70 000 of the 83 000 lines of the repository, headers of MySQL and the libraries
  arda2 and cryptLib. The server keeps no state in them and its behaviour does not depend on
  them beyond single calls; MySQL statements are one step of `DBPool`.
- `src/Runespy` (a separate service that polls a web page), cryptography, the exception report,
  the resources and the SQL schema: pure input and output or algorithms over bytes without state
  that other components see.
- The window, its ring of lines, the dialogs and the reporter: user interface. Their commands that
  reach the rest are threads of `WorldReg`, `DBPool` and `Reconnect`.
- A timer that cannot be created is modelled for client connections only (`untimed` of `Gate`). The
  calls of `CreateTimerQueueTimer` in LogSocket.cpp:408, IPSessionDB.cpp:390 and
  WantedSocket.cpp:185 do not look at the result either; a failure would end the chain of
  reconnections, which `RetryChain` does not cover.
- Parsing of the configuration and of GM commands, assembly of packets: text and layout.
- The session map of `CIPSessionDB`: its handlers answer packets of the billing server, and the
  client handlers that would start sessions are stubs in this tree.
- The end of the process after `WinMain` has left its loop: destructors of globals, `FreeAll`,
  `DBEnv::Destroy`. (After a failed login `~DBEnv` deletes an array that `Init` has deleted:
  DBConn.cpp:52 and 31.)
- Code under `_USE_ACCEPTEX` is not compiled. Of the compiled code the following has no caller:
  `SetServerSocketById`, `CServerList::RemoveSocket`, `CServer::RemoveSocket`, `GetServerStatus`,
  the setters of status, VIP flag, user counts and queue sizes of `CServerList`, `CLock::TryEnter`,
  the recovery timer of `DBEnv`, and `WriteLogD`, the only user of `CLogdFilelog`.
  `CServerList::Load` is empty, so the list starts empty.

## 7. Plan

The modules are complete in the sense of section 6, and every safety property that a passing run
checks is a theorem. What can still be proved is the safety part of the liveness properties: the
invariant that says who takes the next step, of which fairness then makes progress.

| Module | Theorem | Argument |
|---|---|---|
| `PartsProofs` | while `ListenThread` or the timer thread still runs after the end was asked for, what it waits for is signalled (`StopEnds`) | a conjunct of the kind of `ArmInv`: `SetEvents` comes after `SetTerminate`, and only a thread that has seen the end takes the signal |
| `DBPoolProofs` | a user that waits finds a connection in the queue or with another user (`PoolServes`) | the count of connections behind the refinement of `ConnQueue` |
| `ReconnectProofs` | whoever holds the lock of the pointer can go on (`AttemptEnds`) | the owner is never at a step that waits for another lock |
