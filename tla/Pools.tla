------------------------------- MODULE Pools -------------------------------
(***************************************************************************)
(* The pools that buffers and packets are taken from and given back to     *)
(* (CIOBuffer, CPacketServer and the four copies of it): a number of slots *)
(* with a list and a lock each.  Alloc draws the number of its slot from   *)
(* one counter, Free from another that counts the other way round, and an  *)
(* Alloc that finds its slot empty makes a new object.                     *)
(*                                                                         *)
(* The lock of a slot is CLock's spin lock, an exchange that is repeated   *)
(* until it finds 0; the slots of the buffers have a critical section in   *)
(* its place.  An object may be freed by any thread.  The counters wrap at *)
(* 2^32, a multiple of the number of slots, so their low bits are enough.  *)
(* FreeAll, which runs when the process exits, is left out.                *)
(***************************************************************************)
EXTENDS Integers, Sequences, FiniteSets

CONSTANTS
  PoolThreads,  \* the threads that call Alloc and Free
  SlotCount,    \* 16 in the code
  MaxInUse,     \* how many objects are wanted at a time: a bound on the callers
  NoObject      \* NULL

ASSUME PoolAssumption ==
  /\ SlotCount \in Nat \ {0} /\ MaxInUse \in Nat \ {0} /\ NoObject \notin Nat
  /\ IsFiniteSet(PoolThreads)

VARIABLES
  nAlloc, nFree,  \* the low bits of the two counters
  head,           \* m_pBuffer or m_pPacket of every slot
  link,           \* m_pNext of a buffer, m_pSocket of a packet
  spin,           \* CLock::m_customLock of every slot
  created,        \* how many objects `new` has made; their names are 0, 1, ...
  inUse,          \* the objects callers have
  plc, slot, obj  \* per thread: control point, slot, object in hand

poolVars == <<nAlloc, nFree, head, link, spin, created, inUse, plc, slot, obj>>

Slots   == 0..SlotCount - 1
Objects == 0..MaxInUse * SlotCount
PoolPCs == {"idle", "enterA", "read", "pop", "leaveA", "new", "enterF", "link", "push", "leaveF"}

PoolInit ==
  /\ nAlloc = SlotCount - 1 /\ nFree = 0
  /\ head = [s \in Slots |-> NoObject] /\ link = [o \in Objects |-> NoObject]
  /\ spin = [s \in Slots |-> 0]
  /\ created = 0 /\ inUse = {}
  /\ plc = [t \in PoolThreads |-> "idle"]
  /\ slot = [t \in PoolThreads |-> 0] /\ obj = [t \in PoolThreads |-> NoObject]

PoolGoto(t, label) == plc' = [plc EXCEPT ![t] = label]

-----------------------------------------------------------------------------
(* Alloc *)

\* InterlockedIncrement; the caller's bound counts the calls under way
AllocTicket(t) ==
  /\ plc[t] = "idle"
  /\ Cardinality(inUse) + Cardinality({u \in PoolThreads : plc[u] # "idle"}) < MaxInUse
  /\ nAlloc' = (nAlloc + 1) % SlotCount
  /\ slot' = [slot EXCEPT ![t] = nAlloc']
  /\ PoolGoto(t, "enterA")
  /\ UNCHANGED <<nFree, head, link, spin, created, inUse, obj>>

\* the bug of a lock that is entered whatever the exchange returns
SpinEnter_Always(t, from, inside) ==
  /\ plc[t] = from
  /\ spin' = [spin EXCEPT ![slot[t]] = 1]
  /\ PoolGoto(t, inside)
  /\ UNCHANGED <<nAlloc, nFree, head, link, created, inUse, slot, obj>>

\* Enter and Wait: only an exchange that finds 0 changes anything
SpinEnter(t, from, inside) ==
  /\ plc[t] = from
  /\ spin[slot[t]] = 0
  /\ spin' = [spin EXCEPT ![slot[t]] = 1]
  /\ PoolGoto(t, inside)
  /\ UNCHANGED <<nAlloc, nFree, head, link, created, inUse, slot, obj>>

ReadHead(t) ==
  /\ plc[t] = "read"
  /\ obj' = [obj EXCEPT ![t] = head[slot[t]]]
  /\ PoolGoto(t, IF head[slot[t]] = NoObject THEN "leaveA" ELSE "pop")
  /\ UNCHANGED <<nAlloc, nFree, head, link, spin, created, inUse, slot>>

Pop(t) ==
  /\ plc[t] = "pop"
  /\ head' = [head EXCEPT ![slot[t]] = link[obj[t]]]
  /\ PoolGoto(t, "leaveA")
  /\ UNCHANGED <<nAlloc, nFree, link, spin, created, inUse, slot, obj>>

\* the object goes to the caller, with its link cleared
HandOut(t, o) ==
  /\ inUse' = inUse \cup {o}
  /\ link' = [link EXCEPT ![o] = NoObject]
  /\ obj' = [obj EXCEPT ![t] = NoObject]

LeaveAlloc(t) ==
  /\ plc[t] = "leaveA"
  /\ spin' = [spin EXCEPT ![slot[t]] = 0]
  /\ IF obj[t] = NoObject THEN PoolGoto(t, "new") /\ UNCHANGED <<inUse, link, obj>>
                          ELSE PoolGoto(t, "idle") /\ HandOut(t, obj[t])
  /\ UNCHANGED <<nAlloc, nFree, head, created, slot>>

New(t) ==
  /\ plc[t] = "new"
  /\ created' = created + 1
  /\ HandOut(t, created)
  /\ PoolGoto(t, "idle")
  /\ UNCHANGED <<nAlloc, nFree, head, spin, slot>>

-----------------------------------------------------------------------------
(* Free *)

\* the bug of a Free that does not draw a slot of its own
FreeSlot_Fixed == nFree
FreeSlot == (nFree + SlotCount - 1) % SlotCount

FreeTicket(t) ==
  /\ plc[t] = "idle"
  /\ \E o \in inUse : inUse' = inUse \ {o} /\ obj' = [obj EXCEPT ![t] = o]
  /\ nFree' = FreeSlot
  /\ slot' = [slot EXCEPT ![t] = nFree']
  /\ PoolGoto(t, "enterF")
  /\ UNCHANGED <<nAlloc, head, link, spin, created>>

LinkObject(t) ==
  /\ plc[t] = "link"
  /\ link' = [link EXCEPT ![obj[t]] = head[slot[t]]]
  /\ PoolGoto(t, "push")
  /\ UNCHANGED <<nAlloc, nFree, head, spin, created, inUse, slot, obj>>

Push(t) ==
  /\ plc[t] = "push"
  /\ head' = [head EXCEPT ![slot[t]] = obj[t]]
  /\ obj' = [obj EXCEPT ![t] = NoObject]
  /\ PoolGoto(t, "leaveF")
  /\ UNCHANGED <<nAlloc, nFree, link, spin, created, inUse, slot>>

LeaveFree(t) ==
  /\ plc[t] = "leaveF"
  /\ spin' = [spin EXCEPT ![slot[t]] = 0]
  /\ PoolGoto(t, "idle")
  /\ UNCHANGED <<nAlloc, nFree, head, link, created, inUse, slot, obj>>

-----------------------------------------------------------------------------
PoolNext == \E t \in PoolThreads :
  \/ AllocTicket(t) \/ SpinEnter(t, "enterA", "read") \/ ReadHead(t) \/ Pop(t)
  \/ LeaveAlloc(t) \/ New(t)
  \/ FreeTicket(t) \/ SpinEnter(t, "enterF", "link") \/ LinkObject(t) \/ Push(t)
  \/ LeaveFree(t)

PoolSpec == PoolInit /\ [][PoolNext]_poolVars

-----------------------------------------------------------------------------
(* Properties *)

PoolTypeOK ==
  /\ nAlloc \in Slots /\ nFree \in Slots /\ spin \in [Slots -> {0, 1}]
  /\ head \in [Slots -> Objects \cup {NoObject}]
  /\ link \in [Objects -> Objects \cup {NoObject}]
  /\ created \in Nat /\ inUse \subseteq Objects
  /\ plc \in [PoolThreads -> PoolPCs] /\ slot \in [PoolThreads -> Slots]
  /\ obj \in [PoolThreads -> Objects \cup {NoObject}]

\* the n-th object in the list of slot s, NoObject past its end; an object that is
\* being popped is no longer counted
Nth(s) ==
  LET popping == {obj[t] : t \in {u \in PoolThreads : plc[u] = "pop" /\ slot[u] = s}}
      f[n \in Objects] ==
        IF n = 0 THEN IF head[s] \in popping THEN link[head[s]] ELSE head[s]
        ELSE IF f[n - 1] = NoObject THEN NoObject ELSE link[f[n - 1]]
  IN  f

\* Every object the pool has made is in one place and once: with a caller, in the
\* hand of one Alloc or Free, or in one list.  A buffer is never handed to two
\* callers and never lost, and no list turns into a cycle, however the calls of
\* several threads on one slot interleave.
PoolOnce ==
  \A o \in 0..created - 1 :
    LET lists == {p \in Slots \X Objects : Nth(p[1])[p[2]] = o}
        hands == {t \in PoolThreads : obj[t] = o}
    IN  Cardinality(lists) + Cardinality(hands) + (IF o \in inUse THEN 1 ELSE 0) = 1

\* The pool stops growing: however far threads fall behind the slots they have
\* drawn, it never holds more objects than callers have wanted at a time in every
\* slot.  The two counters, though they run in opposite directions, see to that.
PoolBounded == created <= MaxInUse * SlotCount
=============================================================================
