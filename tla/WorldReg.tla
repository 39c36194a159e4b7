------------------------------ MODULE WorldReg ------------------------------
(***************************************************************************)
(* World servers connecting to the server (CServer, CSocketServer,         *)
(* CServerList): the list of servers with a pointer to the connection of   *)
(* each, the map from addresses to connections, and the reference counts   *)
(* that decide when a connection object is deleted.  A second connection   *)
(* from a server closes the first one, with the lock of the list released  *)
(* for the time of the call.  CSocketServer::OnClose is empty, and nothing *)
(* else takes a closed connection out of the list or the map.              *)
(*                                                                         *)
(* The lock is the AbstractRWLock that RWLock implements.  Besides the     *)
(* accepts, the main window has it while it asks for user counts, and the  *)
(* timer of UpdateDB while it polls for a database connection, which a     *)
(* pool whose login failed never has (DBPool).  CloseSocket and Initialize *)
(* are in IOSocket; here a step of them is one reference taken or given    *)
(* back.  A call through a pointer to a deleted object crashes the server  *)
(* or goes on without effect on the other connections.                     *)
(***************************************************************************)
EXTENDS Integers, FiniteSets, FiniteSetsExt

CONSTANTS
  Workers,  \* threads of the completion port
  UI,       \* the thread of the main window, which asks for user counts
  Timer,    \* the thread of the timer queue that runs CServerList::UpdateDB
  Conns,    \* CSocketServer objects, each constructed once: bounds the history
  Addrs,    \* addresses of world servers
  None,     \* no address, object
  IdRange   \* the range of ServerId, an unsigned char; 0 is the invalid id

ASSUME WorldAssumption ==
  /\ IsFiniteSet(Workers) /\ IsFiniteSet(Conns)
  /\ UI \notin Workers /\ Timer \notin Workers \cup {UI}
  /\ None \notin Conns \cup Addrs /\ IdRange \in Nat /\ IdRange > 1

VARIABLES
  allowUnknown, specifiesId,  \* config.allowUnknownServers, config.gameServerSpecifiesId
  loggedIn,                   \* DBEnv::Login has filled the pool of connections
  readers, writers,           \* CServerList::mylock
  srvAddr, srvSock,           \* m_serverList: inner_addr (None for no entry) and s per id
  socketmap,                  \* CServer::socketmap, None where there is no entry
  addr,                       \* the peer of every object, None before construction
  serverid,                   \* CSocketServer::serverid
  open,                       \* the objects whose m_hSocket is valid
  refs,                       \* CIOObject::refcount
  deleted,                    \* the objects whose destructor has run
  io,                         \* the objects with an overlapped read outstanding
  crashed,                    \* a deleted object was used and the process is gone
  overlap,                    \* history: addresses with two accepts under way at once
  pc, c, id, at, old          \* per thread: control point, object in hand, the id found,
                              \* the place in the list, and oldSocket

config  == <<allowUnknown, specifiesId, loggedIn>>
lock    == <<readers, writers>>
list    == <<srvAddr, srvSock>>
objects == <<addr, serverid, open, refs, deleted, io>>
vars == <<config, lock, list, socketmap, objects, crashed, overlap, pc, c, id, at, old>>

Threads == Workers \cup {UI}
Ids == 0..IdRange - 1
PCs == {"idle", "lock", "scan", "drop", "relock", "registered", "insert", "init", "read",
        "each", "send"}

Lock == INSTANCE AbstractRWLock

\* a thread of a process that still runs
At(t, label) == ~crashed /\ pc[t] = label

Goto(t, label) == pc' = [pc EXCEPT ![t] = label]

Init ==
  /\ allowUnknown \in BOOLEAN /\ specifiesId \in BOOLEAN /\ loggedIn \in BOOLEAN
  /\ Lock!Init
  /\ srvAddr = [i \in Ids |-> None] /\ srvSock = [i \in Ids |-> None]
  /\ socketmap = [a \in Addrs |-> None]
  /\ addr = [x \in Conns |-> None] /\ serverid = [x \in Conns |-> 0]
  /\ open = {} /\ refs = [x \in Conns |-> 0] /\ deleted = {} /\ io = {}
  /\ crashed = FALSE /\ overlap = {}
  /\ pc = [t \in Threads |-> "idle"] /\ c = [t \in Threads |-> None]
  /\ id = [t \in Threads |-> 0] /\ at = [t \in Threads |-> 0]
  /\ old = [t \in Threads |-> None]

\* a call through a pointer to x
Use(x) == IF x \in deleted THEN crashed' \in BOOLEAN ELSE UNCHANGED crashed

AddRef(x) == refs' = [refs EXCEPT ![x] = @ + 1] /\ UNCHANGED deleted

\* n ReleaseRefs; the last one deletes
Release(x, n) ==
  /\ refs' = [refs EXCEPT ![x] = @ - n]
  /\ deleted' = IF refs[x] = n THEN deleted \cup {x} ELSE deleted

Done(t) ==
  /\ Goto(t, "idle")
  /\ c' = [c EXCEPT ![t] = None] /\ id' = [id EXCEPT ![t] = 0]
  /\ at' = [at EXCEPT ![t] = 0] /\ old' = [old EXCEPT ![t] = None]

-----------------------------------------------------------------------------
(* CServer::OnIOCallback and CreateSocket *)

Accept(t) ==
  /\ At(t, "idle")
  /\ \E x \in Conns, a \in Addrs :
       /\ addr[x] = None
       /\ addr' = [addr EXCEPT ![x] = a]
       /\ refs' = [refs EXCEPT ![x] = 1]
       /\ open' = open \cup {x}
       /\ c' = [c EXCEPT ![t] = x]
       /\ overlap' = IF \E u \in Workers : c[u] # None /\ addr[c[u]] = a
                     THEN overlap \cup {a} ELSE overlap
  /\ Goto(t, IF specifiesId THEN "insert" ELSE "lock")
  /\ UNCHANGED <<config, lock, list, socketmap, serverid, deleted, io, crashed, id, at, old>>

-----------------------------------------------------------------------------
(* CServerList::SetServerSocketByAddress *)

WriteLock(t) ==
  /\ At(t, "lock")
  /\ Lock!AcquireWrite(t)
  /\ Goto(t, "scan")
  /\ UNCHANGED <<config, list, socketmap, objects, crashed, overlap, c, id, at, old>>

Entries == {i \in Ids : srvAddr[i] # None}

\* the entries for the address of the connection that the scan has still to visit
Matches(t) == {i \in Entries : i >= at[t] /\ srvAddr[i] = addr[c[t]]}

\* the entry gets the connection, and the scan goes on
Assign(t, i) ==
  /\ srvSock' = [srvSock EXCEPT ![i] = c[t]]
  /\ id' = [id EXCEPT ![t] = i]
  /\ at' = [at EXCEPT ![t] = i + 1]

ScanFree(t) ==
  /\ At(t, "scan") /\ Matches(t) # {}
  /\ LET i == Min(Matches(t)) IN srvSock[i] = None /\ Assign(t, i)
  /\ UNCHANGED <<config, lock, srvAddr, socketmap, objects, crashed, overlap, pc, c, old>>

\* the bug of a scan that overwrites the first connection
ScanTakenOverwrites(t) ==
  /\ At(t, "scan") /\ Matches(t) # {}
  /\ LET i == Min(Matches(t)) IN srvSock[i] # None /\ Assign(t, i)
  /\ UNCHANGED <<config, lock, srvAddr, socketmap, objects, crashed, overlap, pc, c, old>>

\* the bug of closing the first connection under the lock, which is not recursive
ScanTakenLocked(t) ==
  /\ At(t, "scan") /\ Matches(t) # {}
  /\ LET i == Min(Matches(t)) IN
     /\ srvSock[i] # None
     /\ old' = [old EXCEPT ![t] = srvSock[i]]
     /\ srvSock' = [srvSock EXCEPT ![i] = None]
     /\ at' = [at EXCEPT ![t] = i]
  /\ Goto(t, "drop")
  /\ UNCHANGED <<config, lock, srvAddr, socketmap, objects, crashed, overlap, c, id>>

\* a second connection: the entry is emptied, and the lock given up for CloseSocket
ScanTaken(t) ==
  /\ At(t, "scan") /\ Matches(t) # {}
  /\ LET i == Min(Matches(t)) IN
     /\ srvSock[i] # None
     /\ old' = [old EXCEPT ![t] = srvSock[i]]
     /\ srvSock' = [srvSock EXCEPT ![i] = None]
     /\ at' = [at EXCEPT ![t] = i]
  /\ Lock!ReleaseWrite(t)
  /\ Goto(t, "drop")
  /\ UNCHANGED <<config, srvAddr, socketmap, objects, crashed, overlap, c, id>>

\* oldSocket->CloseSocket(), whatever has become of it
Drop(t) ==
  /\ At(t, "drop")
  /\ Use(old[t])
  /\ open' = open \ {old[t]}
  /\ IF old[t] \in open \ deleted THEN Release(old[t], 1) ELSE UNCHANGED <<refs, deleted>>
  /\ Goto(t, "relock")
  /\ UNCHANGED <<config, lock, list, socketmap, addr, serverid, io, overlap, c, id, at, old>>

\* the bug of a scan that goes on without the connection
RelockForgets(t) ==
  /\ At(t, "relock")
  /\ Lock!AcquireWrite(t)
  /\ id' = [id EXCEPT ![t] = at[t]] /\ at' = [at EXCEPT ![t] = @ + 1]
  /\ Goto(t, "scan")
  /\ UNCHANGED <<config, list, socketmap, objects, crashed, overlap, c, old>>

\* the entry gets the connection, whatever another thread has put there meanwhile
Relock(t) ==
  /\ At(t, "relock")
  /\ Lock!AcquireWrite(t)
  /\ Assign(t, at[t])
  /\ Goto(t, "scan")
  /\ UNCHANGED <<config, srvAddr, socketmap, objects, crashed, overlap, c, old>>

\* the bug of an id that stays at the largest one
FreeServerIdStays == IF Entries = {} THEN 1 ELSE Min({Max(Entries) + 1, IdRange - 1})

\* GetFreeServerId: one more than the largest id, in an unsigned char
FreeServerId == IF Entries = {} THEN 1 ELSE (Max(Entries) + 1) % IdRange

\* the bug of an entry made for a server that has one
ScanEndAlways(t) ==
  /\ At(t, "scan") /\ Matches(t) = {}
  /\ IF allowUnknown
     THEN /\ id' = [id EXCEPT ![t] = FreeServerId]
          /\ srvAddr' = [srvAddr EXCEPT ![FreeServerId] = addr[c[t]]]
          /\ srvSock' = [srvSock EXCEPT ![FreeServerId] = c[t]]
     ELSE UNCHANGED <<list, id>>
  /\ Lock!ReleaseWrite(t)
  /\ Goto(t, "registered")
  /\ UNCHANGED <<config, socketmap, objects, crashed, overlap, c, at, old>>

\* the scan is over: an unknown server gets an entry, unless its id has one already
ScanEnd(t) ==
  /\ At(t, "scan") /\ Matches(t) = {}
  /\ IF allowUnknown /\ id[t] = 0
     THEN /\ id' = [id EXCEPT ![t] = FreeServerId]
          /\ IF FreeServerId \in Entries THEN UNCHANGED list
             ELSE /\ srvAddr' = [srvAddr EXCEPT ![FreeServerId] = addr[c[t]]]
                  /\ srvSock' = [srvSock EXCEPT ![FreeServerId] = c[t]]
     ELSE UNCHANGED <<list, id>>
  /\ Lock!ReleaseWrite(t)
  /\ Goto(t, "registered")
  /\ UNCHANGED <<config, socketmap, objects, crashed, overlap, c, at, old>>

-----------------------------------------------------------------------------
(* The rest of CreateSocket, and Initialize *)

\* an invalid id: `delete mysocket' with its reference count as it is
Refuse(t) ==
  /\ At(t, "registered") /\ id[t] = 0
  /\ Use(c[t])
  /\ deleted' = deleted \cup {c[t]}
  /\ Done(t)
  /\ UNCHANGED <<config, lock, list, socketmap, addr, serverid, open, refs, io, overlap>>

Register(t) ==
  /\ At(t, "registered") /\ id[t] # 0
  /\ Use(c[t])
  /\ serverid' = [serverid EXCEPT ![c[t]] = id[t]]
  /\ Goto(t, "insert")
  /\ UNCHANGED <<config, lock, list, socketmap, addr, open, refs, deleted, io, overlap,
                 c, id, at, old>>

\* map::insert leaves an entry that is already there
Insert(t) ==
  /\ At(t, "insert")
  /\ socketmap' = [socketmap EXCEPT ![addr[c[t]]] = IF @ = None THEN c[t] ELSE @]
  /\ Goto(t, "init")
  /\ UNCHANGED <<config, lock, list, objects, crashed, overlap, c, id, at, old>>

\* Initialize: its reference
Initialize(t) ==
  /\ At(t, "init")
  /\ Use(c[t])
  /\ IF c[t] \in deleted
     THEN Done(t) /\ UNCHANGED <<refs, deleted>>
     ELSE AddRef(c[t]) /\ Goto(t, "read") /\ UNCHANGED <<c, id, at, old>>
  /\ UNCHANGED <<config, lock, list, socketmap, addr, serverid, open, io, overlap>>

\* OnCreate issues a read, which needs the handle, and Initialize ends; when the read
\* fails the connection is closed
Read(t) ==
  /\ At(t, "read")
  /\ LET x == c[t] IN
     \/ /\ x \in open
        /\ io' = io \cup {x}     \* the reference of Initialize goes, one for the read comes
        /\ UNCHANGED <<open, refs, deleted>>
     \/ /\ open' = open \ {x}
        /\ Release(x, IF x \in open THEN 2 ELSE 1)
        /\ UNCHANGED io
  /\ Done(t)
  /\ UNCHANGED <<config, lock, list, socketmap, addr, serverid, crashed, overlap>>

\* the outstanding read fails, as the peer is gone or the handle was closed
Disconnect(t) ==
  /\ At(t, "idle")
  /\ \E x \in io :
       /\ io' = io \ {x} /\ open' = open \ {x}
       /\ Release(x, IF x \in open THEN 2 ELSE 1)
  /\ UNCHANGED <<config, lock, list, socketmap, addr, serverid, crashed, overlap, pc, c, id,
                 at, old>>

-----------------------------------------------------------------------------
(* CServerList::RequestUserCounts, on the thread of the window *)

ReadLock ==
  /\ At(UI, "idle")
  /\ Lock!AcquireRead(UI)
  /\ Goto(UI, "each")
  /\ UNCHANGED <<config, list, socketmap, objects, crashed, overlap, c, id, at, old>>

\* SendSocket to the next entry: FindSocket takes a reference under sockSect
SendSocket ==
  /\ At(UI, "each")
  /\ \E i \in Entries :
       /\ i >= at[UI] /\ \A j \in Entries : j >= at[UI] => i <= j
       /\ at' = [at EXCEPT ![UI] = i + 1]
       /\ LET x == socketmap[srvAddr[i]] IN
          IF x = None
          THEN UNCHANGED <<crashed, refs, deleted, pc, c>>
          ELSE /\ Use(x)
               /\ IF x \in deleted
                  THEN UNCHANGED <<refs, deleted, pc, c>>
                  ELSE AddRef(x) /\ Goto(UI, "send") /\ c' = [c EXCEPT ![UI] = x]
  /\ UNCHANGED <<config, lock, list, socketmap, addr, serverid, open, io, overlap, id, old>>

\* Write, whose own references are in IOSocket, then ReleaseRef
EndSend ==
  /\ At(UI, "send")
  /\ Release(c[UI], 1)
  /\ Goto(UI, "each") /\ c' = [c EXCEPT ![UI] = None]
  /\ UNCHANGED <<config, lock, list, socketmap, addr, serverid, open, io, crashed, overlap,
                 id, at, old>>

ReadUnlock ==
  /\ At(UI, "each") /\ {i \in Entries : i >= at[UI]} = {}
  /\ Lock!ReleaseRead(UI)
  /\ Done(UI)
  /\ UNCHANGED <<config, list, socketmap, objects, crashed, overlap>>

-----------------------------------------------------------------------------
(* CServerList::UpdateDB, on a timer *)

allButLock == <<config, list, socketmap, objects, crashed, overlap, pc, c, id, at, old>>

\* the timer is due, and CDBConn begins to poll for a connection
UpdateDBLock ==
  /\ ~crashed
  /\ Lock!AcquireRead(Timer)
  /\ UNCHANGED allButLock

\* the connection was had and the row written
UpdateDBUnlock ==
  /\ ~crashed /\ loggedIn
  /\ Lock!ReleaseRead(Timer)
  /\ UNCHANGED allButLock

-----------------------------------------------------------------------------
Registering(t) ==
  \/ ScanFree(t) \/ ScanTaken(t) \/ Drop(t) \/ ScanEnd(t)
  \/ Refuse(t) \/ Register(t) \/ Insert(t) \/ Initialize(t) \/ Read(t)

Next ==
  \/ \E t \in Workers :
       \/ Accept(t) \/ WriteLock(t) \/ Relock(t) \/ Disconnect(t)
       \/ ScanFree(t) \/ ScanTaken(t) \/ Drop(t) \/ ScanEnd(t)
       \/ Refuse(t) \/ Register(t) \/ Insert(t) \/ Initialize(t) \/ Read(t)
  \/ ReadLock \/ SendSocket \/ EndSend \/ ReadUnlock
  \/ UpdateDBLock \/ UpdateDBUnlock

Spec == Init /\ [][Next]_vars

\* the last reader lets go of the list
LeaveFree == (ReadUnlock \/ UpdateDBUnlock) /\ readers' = {}

(***************************************************************************)
(* A thread that is registering a connection, or asking for user counts,   *)
(* goes on, and so does UpdateDB when there are database connections.  The *)
(* window asks once a minute and the timer is due every five, so the two   *)
(* do not hand the lock to each other for ever, and a writer that waits    *)
(* gets a lock that is free again and again.                               *)
(***************************************************************************)
Fairness ==
  /\ \A t \in Workers : WF_vars(Registering(t))
  /\ \A t \in Workers : SF_vars(WriteLock(t) \/ Relock(t))
  /\ WF_vars(SendSocket \/ EndSend \/ ReadUnlock) /\ WF_vars(UpdateDBUnlock)
  /\ SF_vars(LeaveFree)

FairSpec == Spec /\ Fairness

-----------------------------------------------------------------------------
(* Properties *)

TypeOK ==
  /\ readers \subseteq {UI, Timer} /\ writers \subseteq Workers
  /\ srvAddr \in [Ids -> Addrs \cup {None}] /\ srvSock \in [Ids -> Conns \cup {None}]
  /\ socketmap \in [Addrs -> Conns \cup {None}]
  /\ addr \in [Conns -> Addrs \cup {None}] /\ serverid \in [Conns -> Ids]
  /\ open \subseteq Conns /\ refs \in [Conns -> Nat] /\ deleted \subseteq Conns
  /\ io \subseteq Conns /\ crashed \in BOOLEAN /\ overlap \subseteq Addrs
  /\ pc \in [Threads -> PCs] /\ c \in [Threads -> Conns \cup {None}]
  /\ id \in [Threads -> Ids] /\ at \in [Threads -> 0..IdRange]
  /\ old \in [Threads -> Conns \cup {None}]

\* A server has one entry, although the lock is given up in the middle of the scan
\* that looks for it, and although the ids wrap (ServerList.cpp:60-100).
OneEntryPerAddress ==
  \A i, j \in Entries : srvAddr[i] = srvAddr[j] => i = j

\* The id a connection is given is the one of the entry of its server: no two
\* servers ever have the same id, when the ids have wrapped included.
IdNamesServer ==
  \A x \in Conns : serverid[x] # 0 => srvAddr[serverid[x]] = addr[x]

\* An entry is without a connection only while the first one is being dropped, and
\* the connection it has is one from its own address.
EntryHasConnection ==
  \A i \in Entries :
    \/ srvSock[i] # None /\ addr[srvSock[i]] = srvAddr[i]
    \/ \E t \in Workers : pc[t] \in {"drop", "relock"} /\ at[t] = i

Creating(a) == {t \in Workers : c[t] # None /\ addr[c[t]] = a}
Connected(a) == {x \in open \ deleted : addr[x] = a}

\* While the accepts from a server do not overlap, a server has one connection, and
\* none of them is deleted before Initialize is done with it.
ServerHasOneConnection ==
  ~specifiesId => \A a \in Addrs \ overlap :
    /\ Creating(a) = {} => Cardinality(Connected(a)) <= 1
    /\ \A t \in Creating(a) : c[t] \notin deleted

\* Every connection that is accepted is registered or refused: no lock is waited for
\* by its owner, and none is left locked.  The exception is UpdateDB in a pool without
\* connections (ServerList.cpp:296-298): it never lets go of the list, and whoever
\* accepts after that, for as long as a game server does not give its id, waits for ever.
AcceptReturns ==
  \A t \in Workers :
    pc[t] # "idle" ~> (pc[t] = "idle" \/ crashed \/ (~loggedIn /\ Timer \in readers))

\* "Two connections from the same server.  Drop the old connection" (comment,
\* ServerList.cpp:67): once nobody is registering there is one.
OldIsDropped ==
  ~specifiesId => \A a \in Addrs : Creating(a) = {} => Cardinality(Connected(a)) <= 1

\* "CloseSocket() calls back into CServerList::RemoveServer" (comment,
\* ServerList.cpp:72): an entry does not keep a connection that has been deleted.
ClosedIsRemoved == \A i \in Entries : srvSock[i] \notin deleted
=============================================================================
