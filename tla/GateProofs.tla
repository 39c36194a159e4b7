----------------------------- MODULE GateProofs -----------------------------
(***************************************************************************)
(* Proofs about Gate for any finite sets of workers and connections, any   *)
(* handles and addresses, and any limits.                                  *)
(***************************************************************************)
EXTENDS Gate, FiniteSetTheorems, TLAPS

\* the control points at which a thread alone answers for the handle in its hand
AcceptPCs == {"limit", "access", "allocate", "reject"}
ClosePCs  == {"uncount", "remove", "release", "closesocket"}
OwnPCs    == AcceptPCs \cup ClosePCs

\* the control points at which a thread has an object in hand
ObjectPCs == ClosePCs \cup {"insert", "init", "close"}

\* TypeOK without the range of socketCount, which only the count gives
Typing ==
  /\ kernelOpen \subseteq Handles /\ socketmap \in [Handles -> Conns \cup {None}]
  /\ socketCount \in Int /\ socketLimit \in Limits
  /\ accessmap \in [IPs -> Nat]
  /\ hSocket \in [Conns -> Handles \cup {None}] /\ addr \in [Conns -> IPs \cup {None}]
  /\ timers \subseteq Conns \X Handles /\ untimed \subseteq Conns /\ started \subseteq Conns
  /\ pc \in [Workers -> PCs] /\ h \in [Workers -> Handles \cup {None}]
  /\ c \in [Workers -> Conns \cup {None}] /\ ip \in [Workers -> IPs \cup {None}]

\* what a thread has in hand at each control point
HandInv ==
  \A t \in Workers :
    /\ pc[t] \in OwnPCs \cup {"insert", "find"} => h[t] \in Handles
    /\ pc[t] \in {"limit", "access", "allocate"} => ip[t] \in IPs
    /\ pc[t] \in ObjectPCs => c[t] \in Conns /\ addr[c[t]] \in IPs

\* an object that has been in use is not constructed again
ObjectInv ==
  \A x \in Conns : hSocket[x] # None \/ x \in started \cup untimed => addr[x] # None

\* an open handle has one owner: the object that has it, or the thread that has not
\* given it to an object yet or has taken it away from one
HandleInv ==
  /\ \A k \in kernelOpen : \/ \E x \in Conns : hSocket[x] = k
                           \/ \E t \in Workers : pc[t] \in OwnPCs /\ h[t] = k
  /\ \A x \in Live : hSocket[x] \in kernelOpen
  /\ \A t \in Workers : pc[t] \in OwnPCs => h[t] \in kernelOpen
  /\ \A x, y \in Live : hSocket[x] = hSocket[y] => x = y
  /\ \A t, u \in Workers : pc[t] \in OwnPCs /\ pc[u] \in OwnPCs /\ h[t] = h[u] => t = u
  /\ \A t \in Workers, x \in Conns : pc[t] \in OwnPCs => hSocket[x] # h[t]

\* one thread closes an object, and nobody can find it before Insert
CloseInv ==
  /\ \A t \in Workers : pc[t] \in ClosePCs => hSocket[c[t]] = None
  /\ \A t, u \in Workers :
       pc[t] \in ClosePCs /\ pc[u] \in ClosePCs /\ c[t] = c[u] => t = u
  /\ \A t \in Workers : pc[t] = "insert" => hSocket[c[t]] = h[t] /\ c[t] \notin started
  /\ \A t, u \in Workers :
       pc[t] = "insert" /\ pc[u] \in ObjectPCs /\ c[t] = c[u] => t = u

\* the map has the open connections that have been inserted, and the one a thread is
\* about to take out
MapInv ==
  /\ \A k \in Handles, x \in Conns : socketmap[k] = x =>
       \/ hSocket[x] = k /\ ~\E t \in Workers : pc[t] = "insert" /\ c[t] = x
       \/ \E t \in Workers : pc[t] \in {"uncount", "remove"} /\ h[t] = k /\ c[t] = x
  /\ \A x \in Live : \/ socketmap[hSocket[x]] = x
                     \/ \E t \in Workers : pc[t] = "insert" /\ c[t] = x

TimerInv ==
  \A x \in Conns, k \in Handles :
    <<x, k>> \in timers <=> hSocket[x] = k /\ x \notin untimed

\* the sockets m_SocketCount counts
Counted == {x \in Conns : x \in Live \/ \E t \in Workers : pc[t] = "uncount" /\ c[t] = x}
CountInv == socketCount = Cardinality(Counted)

\* the connections, and the threads about to construct one, CIPAccessLimit counts
Admitted(a) == {x \in Conns : addr[x] = a /\ (x \in Live
                  \/ \E t \in Workers : pc[t] \in {"uncount", "remove", "release"} /\ c[t] = x)}
Admitting(a) == {t \in Workers : pc[t] = "allocate" /\ ip[t] = a}
AccessInv ==
  IPAccessLimit > 0 => \A a \in IPs :
    /\ accessmap[a] = Cardinality(Admitted(a)) + Cardinality(Admitting(a))
    /\ accessmap[a] <= IPAccessLimit

\* the threads that have passed the limit and not counted their socket yet
Passing == {t \in Workers : pc[t] \in {"access", "allocate"}}
PassInv ==
  \E n \in Limits : socketCount + Cardinality(Passing) <= n + Cardinality(Workers) - 1

(***************************************************************************)
(* RegistriesAgree says something only when nobody accepts or closes.      *)
(* IInv says who answers for a handle, an entry of the map and each unit   *)
(* of the two counts in between.                                           *)
(***************************************************************************)
SInv == Typing /\ HandInv /\ ObjectInv /\ HandleInv /\ CloseInv /\ MapInv /\ TimerInv

IInv == SInv /\ CountInv /\ AccessInv /\ PassInv

-----------------------------------------------------------------------------
(* Who answers for a handle *)

LEMMA InitSInv == Init => SInv
<1> SUFFICES ASSUME Init PROVE SInv
  OBVIOUS
<1>1. Typing
  BY DEF Init, Typing, PCs
<1>2. HandInv /\ ObjectInv /\ CloseInv /\ TimerInv
  BY GateAssumption DEF Init, HandInv, ObjectInv, CloseInv, TimerInv, OwnPCs, AcceptPCs,
                        ClosePCs, ObjectPCs
<1>3. HandleInv /\ MapInv
  BY GateAssumption DEF Init, HandleInv, MapInv, Live, OwnPCs, AcceptPCs, ClosePCs
<1> QED
  BY <1>1, <1>2, <1>3 DEF SInv

LEMMA NextTyping == Typing /\ HandInv /\ [Next]_vars => Typing'
<1> SUFFICES ASSUME Typing, HandInv, [Next]_vars PROVE Typing'
  OBVIOUS
<1> USE GateAssumption DEF Typing, PCs, Goto, registries, objects, locals
<1>1. ASSUME NEW t \in Workers, Accept(t) \/ CheckLimit(t) \/ SetAccessIP(t) PROVE Typing'
  BY <1>1 DEF Accept, CheckLimit, SetAccessIP, HandInv
<1>2. ASSUME NEW t \in Workers, Allocate(t) PROVE Typing'
  BY <1>2 DEF Allocate, HandInv, OwnPCs, AcceptPCs
<1>3. ASSUME NEW t \in Workers, Insert(t) \/ Initialize(t) \/ Reject(t) PROVE Typing'
  BY <1>3 DEF Insert, Initialize, Reject, Done, HandInv, ObjectPCs
<1>4. ASSUME NEW t \in Workers, TimerFires(t) \/ FindSocket(t) \/ Drop(t) PROVE Typing'
  BY <1>4 DEF TimerFires, FindSocket, Drop, Done, HandInv
<1>5. ASSUME NEW t \in Workers, Close(t) PROVE Typing'
  BY <1>5 DEF Close, Done, HandInv, ObjectPCs
<1>6. ASSUME NEW t \in Workers, Uncount(t) \/ RemoveSocket(t) \/ CloseHandle(t) PROVE Typing'
  BY <1>6 DEF Uncount, RemoveSocket, CloseHandle, Done
<1>7. ASSUME NEW t \in Workers, DelAccessIP(t) PROVE Typing'
  <2>1. c[t] \in Conns /\ addr[c[t]] \in IPs
    BY <1>7 DEF DelAccessIP, HandInv, ObjectPCs, ClosePCs
  <2> DEFINE n == accessmap[addr[c[t]]]
             less == IF n > 1 THEN n - 1 ELSE 0
  <2>2. less \in Nat
    BY <2>1
  <2>3. accessmap' = accessmap \/ accessmap' = [accessmap EXCEPT ![addr[c[t]]] = less]
    BY <1>7 DEF DelAccessIP
  <2>4. accessmap' \in [IPs -> Nat]
    BY <2>2, <2>3
  <2> QED
    BY <1>7, <2>4 DEF DelAccessIP
<1>8. CASE ChangeLimitUser
  BY <1>8 DEF ChangeLimitUser
<1>9. CASE UNCHANGED vars
  BY <1>9 DEF vars
<1> QED
  BY <1>1, <1>2, <1>3, <1>4, <1>5, <1>6, <1>7, <1>8, <1>9 DEF Next

LEMMA NextSInv == SInv /\ [Next]_vars => SInv'
<1> SUFFICES ASSUME SInv, [Next]_vars PROVE SInv'
  OBVIOUS
<1> USE GateAssumption DEF SInv, Goto, AcceptPCs, ClosePCs, OwnPCs, ObjectPCs, Live
<1>t. Typing'
  BY NextTyping DEF SInv
<1>1. ASSUME NEW t \in Workers, Accept(t) PROVE SInv'
  <2> USE <1>1 DEF Accept, objects
  <2>1. HandInv'
    BY <1>t DEF Typing, HandInv
  <2>2. ObjectInv'
    BY <1>t DEF Typing, ObjectInv
  <2>3. HandleInv'
    BY <1>t DEF Typing, HandleInv
  <2>4. CloseInv'
    BY <1>t DEF Typing, CloseInv
  <2>5. MapInv'
    BY <1>t DEF Typing, MapInv
  <2>6. TimerInv'
    BY DEF TimerInv
  <2> QED
    BY <1>t, <2>1, <2>2, <2>3, <2>4, <2>5, <2>6
<1>2. ASSUME NEW t \in Workers, CheckLimit(t) PROVE SInv'
  <2> USE <1>2 DEF CheckLimit, registries, objects, locals
  <2>1. HandInv'
    BY <1>t DEF Typing, HandInv
  <2>2. ObjectInv'
    BY <1>t DEF Typing, ObjectInv
  <2>3. HandleInv'
    BY <1>t DEF Typing, HandleInv
  <2>4. CloseInv'
    BY <1>t DEF Typing, CloseInv
  <2>5. MapInv'
    BY <1>t DEF Typing, MapInv
  <2>6. TimerInv'
    BY DEF TimerInv
  <2> QED
    BY <1>t, <2>1, <2>2, <2>3, <2>4, <2>5, <2>6
<1>3. ASSUME NEW t \in Workers, SetAccessIP(t) PROVE SInv'
  <2> USE <1>3 DEF SetAccessIP, objects, locals
  <2>1. HandInv'
    BY <1>t DEF Typing, HandInv
  <2>2. ObjectInv'
    BY <1>t DEF Typing, ObjectInv
  <2>3. HandleInv'
    BY <1>t DEF Typing, HandleInv
  <2>4. CloseInv'
    BY <1>t DEF Typing, CloseInv
  <2>5. MapInv'
    BY <1>t DEF Typing, MapInv
  <2>6. TimerInv'
    BY DEF TimerInv
  <2> QED
    BY <1>t, <2>1, <2>2, <2>3, <2>4, <2>5, <2>6
<1>4. ASSUME NEW t \in Workers, Allocate(t) PROVE SInv'
  <2> USE <1>4 DEF Allocate
  <2>1. HandInv'
    BY <1>t DEF Typing, HandInv
  <2>2. ObjectInv'
    BY <1>t DEF Typing, ObjectInv, HandInv
  <2>3. HandleInv'
    BY <1>t DEF Typing, HandleInv
  <2>4. CloseInv'
    BY <1>t DEF Typing, CloseInv, HandInv, ObjectInv
  <2>5. MapInv'
    BY <1>t DEF Typing, MapInv
  <2>6. TimerInv'
    <3>1. PICK x \in Conns :
            /\ hSocket[x] = None /\ addr[x] = None
            /\ hSocket' = [hSocket EXCEPT ![x] = h[t]]
            /\ \/ timers' = timers \cup {<<x, h[t]>>} /\ untimed' = untimed
               \/ untimed' = untimed \cup {x} /\ timers' = timers
      OBVIOUS
    <3>2. h[t] \in Handles
      BY DEF HandInv
    <3>3. (\A k \in Handles : <<x, k>> \notin timers) /\ x \notin untimed
      BY <3>1 DEF TimerInv, ObjectInv
    <3>4. ASSUME NEW y \in Conns, NEW k \in Handles
          PROVE  <<y, k>> \in timers' <=> hSocket'[y] = k /\ y \notin untimed'
      <4>1. CASE y = x
        <5>1. hSocket'[y] = h[t]
          BY <3>1, <4>1 DEF Typing
        <5> QED
          BY <3>1, <3>2, <3>3, <4>1, <5>1
      <4>2. CASE y # x
        <5>1. hSocket'[y] = hSocket[y]
          BY <3>1, <4>2 DEF Typing
        <5> QED
          BY <3>1, <4>2, <5>1 DEF TimerInv
      <4> QED
        BY <4>1, <4>2
    <3> QED
      BY <3>4 DEF TimerInv
  <2> QED
    BY <1>t, <2>1, <2>2, <2>3, <2>4, <2>5, <2>6
<1>5. ASSUME NEW t \in Workers, Insert(t) PROVE SInv'
  <2> USE <1>5 DEF Insert, objects, locals
  <2>1. HandInv'
    BY <1>t DEF Typing, HandInv
  <2>2. ObjectInv'
    BY <1>t DEF Typing, ObjectInv
  <2>3. HandleInv'
    BY <1>t DEF Typing, HandleInv
  <2>4. CloseInv'
    BY <1>t DEF Typing, CloseInv
  <2>5. MapInv'
    BY <1>t DEF Typing, MapInv, HandleInv, CloseInv
  <2>6. TimerInv'
    BY DEF TimerInv
  <2> QED
    BY <1>t, <2>1, <2>2, <2>3, <2>4, <2>5, <2>6
<1>6. ASSUME NEW t \in Workers, Initialize(t) PROVE SInv'
  <2> USE <1>6 DEF Initialize, Done, registries, locals
  <2>1. HandInv'
    BY <1>t DEF Typing, HandInv
  <2>2. ObjectInv'
    BY <1>t DEF Typing, ObjectInv, HandInv
  <2>3. HandleInv'
    BY <1>t DEF Typing, HandleInv
  <2>4. CloseInv'
    BY <1>t DEF Typing, CloseInv
  <2>5. MapInv'
    BY <1>t DEF Typing, MapInv
  <2>6. TimerInv'
    BY DEF TimerInv
  <2> QED
    BY <1>t, <2>1, <2>2, <2>3, <2>4, <2>5, <2>6
<1>7. ASSUME NEW t \in Workers, Reject(t) PROVE SInv'
  <2> USE <1>7 DEF Reject, Done, objects
  <2>1. HandInv'
    BY <1>t DEF Typing, HandInv
  <2>2. ObjectInv'
    BY <1>t DEF Typing, ObjectInv
  <2>3. HandleInv'
    BY <1>t DEF Typing, HandleInv
  <2>4. CloseInv'
    BY <1>t DEF Typing, CloseInv
  <2>5. MapInv'
    BY <1>t DEF Typing, MapInv
  <2>6. TimerInv'
    BY DEF TimerInv
  <2> QED
    BY <1>t, <2>1, <2>2, <2>3, <2>4, <2>5, <2>6
<1>8. ASSUME NEW t \in Workers, TimerFires(t) PROVE SInv'
  <2> USE <1>8 DEF TimerFires, registries, objects
  <2>1. HandInv'
    BY <1>t DEF Typing, HandInv
  <2>2. ObjectInv'
    BY <1>t DEF Typing, ObjectInv
  <2>3. HandleInv'
    BY <1>t DEF Typing, HandleInv
  <2>4. CloseInv'
    BY <1>t DEF Typing, CloseInv
  <2>5. MapInv'
    BY <1>t DEF Typing, MapInv
  <2>6. TimerInv'
    BY DEF TimerInv
  <2> QED
    BY <1>t, <2>1, <2>2, <2>3, <2>4, <2>5, <2>6
<1>9. ASSUME NEW t \in Workers, FindSocket(t) PROVE SInv'
  <2> USE <1>9 DEF FindSocket, Done, registries, objects
  <2>1. HandInv'
    BY <1>t DEF Typing, HandInv, ObjectInv, MapInv
  <2>2. ObjectInv'
    BY <1>t DEF Typing, ObjectInv
  <2>3. HandleInv'
    BY <1>t DEF Typing, HandleInv
  <2>4. CloseInv'
    BY <1>t DEF Typing, CloseInv, HandInv, MapInv
  <2>5. MapInv'
    BY <1>t DEF Typing, MapInv
  <2>6. TimerInv'
    BY DEF TimerInv
  <2> QED
    BY <1>t, <2>1, <2>2, <2>3, <2>4, <2>5, <2>6
<1>10. ASSUME NEW t \in Workers, Drop(t) PROVE SInv'
  <2> USE <1>10 DEF Drop, registries, objects
  <2>1. HandInv'
    BY <1>t DEF Typing, HandInv, ObjectInv
  <2>2. ObjectInv'
    BY <1>t DEF Typing, ObjectInv
  <2>3. HandleInv'
    BY <1>t DEF Typing, HandleInv
  <2>4. CloseInv'
    BY <1>t DEF Typing, CloseInv
  <2>5. MapInv'
    BY <1>t DEF Typing, MapInv
  <2>6. TimerInv'
    BY DEF TimerInv
  <2> QED
    BY <1>t, <2>1, <2>2, <2>3, <2>4, <2>5, <2>6
<1>11. ASSUME NEW t \in Workers, Close(t) PROVE SInv'
  <2> USE <1>11 DEF Close, Done, registries
  <2>1. HandInv'
    BY <1>t DEF Typing, HandInv
  <2>2. ObjectInv'
    BY <1>t DEF Typing, ObjectInv
  <2>3. HandleInv'
    BY <1>t, SMTT(20) DEF Typing, HandleInv, HandInv
  <2>4. CloseInv'
    BY <1>t DEF Typing, CloseInv, HandInv
  <2>5. MapInv'
    BY <1>t DEF Typing, MapInv
  <2>6. TimerInv'
    <3>1. CASE hSocket[c[t]] = None
      <4>1. hSocket' = hSocket /\ timers' = timers /\ untimed' = untimed
        BY <3>1
      <4> QED
        BY <4>1 DEF TimerInv
    <3>2. CASE hSocket[c[t]] # None
      <4>0. /\ hSocket' = [hSocket EXCEPT ![c[t]] = None]
            /\ timers' = {e \in timers : e[1] # c[t]} /\ untimed' = untimed
        BY <3>2
      <4>1. ASSUME NEW y \in Conns, NEW k \in Handles
            PROVE  <<y, k>> \in timers' <=> hSocket'[y] = k /\ y \notin untimed'
        <5>1. CASE y = c[t]
          <6>1. <<y, k>> \notin timers'
            BY <4>0, <5>1
          <6>2. hSocket'[y] = None
            BY <4>0, <5>1 DEF Typing
          <6> QED
            BY <6>1, <6>2, GateAssumption
        <5>2. CASE y # c[t]
          BY <4>0, <5>2 DEF Typing, TimerInv
        <5> QED
          BY <5>1, <5>2
      <4> QED
        BY <4>1 DEF TimerInv
    <3> QED
      BY <3>1, <3>2
  <2> QED
    BY <1>t, <2>1, <2>2, <2>3, <2>4, <2>5, <2>6
<1>12. ASSUME NEW t \in Workers, Uncount(t) PROVE SInv'
  <2> USE <1>12 DEF Uncount, objects, locals
  <2>1. HandInv'
    BY <1>t DEF Typing, HandInv
  <2>2. ObjectInv'
    BY <1>t DEF Typing, ObjectInv
  <2>3. HandleInv'
    BY <1>t DEF Typing, HandleInv
  <2>4. CloseInv'
    BY <1>t DEF Typing, CloseInv
  <2>5. MapInv'
    BY <1>t DEF Typing, MapInv
  <2>6. TimerInv'
    BY DEF TimerInv
  <2> QED
    BY <1>t, <2>1, <2>2, <2>3, <2>4, <2>5, <2>6
<1>13. ASSUME NEW t \in Workers, RemoveSocket(t) PROVE SInv'
  <2> USE <1>13 DEF RemoveSocket, objects, locals
  <2>1. HandInv'
    BY <1>t DEF Typing, HandInv
  <2>2. ObjectInv'
    BY <1>t DEF Typing, ObjectInv
  <2>3. HandleInv'
    BY <1>t DEF Typing, HandleInv
  <2>4. CloseInv'
    BY <1>t DEF Typing, CloseInv
  <2>5. MapInv'
    BY <1>t DEF Typing, MapInv, HandleInv
  <2>6. TimerInv'
    BY DEF TimerInv
  <2> QED
    BY <1>t, <2>1, <2>2, <2>3, <2>4, <2>5, <2>6
<1>14. ASSUME NEW t \in Workers, DelAccessIP(t) PROVE SInv'
  <2> USE <1>14 DEF DelAccessIP, objects, locals
  <2>1. HandInv'
    BY <1>t DEF Typing, HandInv
  <2>2. ObjectInv'
    BY <1>t DEF Typing, ObjectInv
  <2>3. HandleInv'
    BY <1>t DEF Typing, HandleInv
  <2>4. CloseInv'
    BY <1>t DEF Typing, CloseInv
  <2>5. MapInv'
    BY <1>t DEF Typing, MapInv
  <2>6. TimerInv'
    BY DEF TimerInv
  <2> QED
    BY <1>t, <2>1, <2>2, <2>3, <2>4, <2>5, <2>6
<1>15. ASSUME NEW t \in Workers, CloseHandle(t) PROVE SInv'
  <2> USE <1>15 DEF CloseHandle, Done, objects
  <2>1. HandInv'
    BY <1>t DEF Typing, HandInv
  <2>2. ObjectInv'
    BY <1>t DEF Typing, ObjectInv
  <2>3. HandleInv'
    BY <1>t DEF Typing, HandleInv
  <2>4. CloseInv'
    BY <1>t DEF Typing, CloseInv
  <2>5. MapInv'
    BY <1>t DEF Typing, MapInv
  <2>6. TimerInv'
    BY DEF TimerInv
  <2> QED
    BY <1>t, <2>1, <2>2, <2>3, <2>4, <2>5, <2>6
<1>16. CASE ChangeLimitUser
  BY <1>t, <1>16 DEF ChangeLimitUser, objects, locals, Typing, HandInv, ObjectInv,
              HandleInv, CloseInv, MapInv, TimerInv
<1>17. CASE UNCHANGED vars
  BY <1>t, <1>17 DEF vars, registries, objects, locals, HandInv, ObjectInv,
              HandleInv, CloseInv, MapInv, TimerInv
<1> QED
   BY <1>1, <1>2, <1>3, <1>4, <1>5, <1>6, <1>7, <1>8, <1>9, <1>10, <1>11, <1>12, <1>13, <1>14,
     <1>15, <1>16, <1>17 DEF Next

-----------------------------------------------------------------------------
(* The counts *)

LEMMA FiniteConns ==
  ASSUME NEW S \in SUBSET Conns PROVE IsFiniteSet(S) /\ Cardinality(S) \in Nat
BY GateAssumption, FS_Subset, FS_CardinalityType

LEMMA FiniteWorkers ==
  ASSUME NEW S \in SUBSET Workers
  PROVE  IsFiniteSet(S) /\ Cardinality(S) \in Nat /\ Cardinality(S) <= Cardinality(Workers)
BY GateAssumption, FS_Subset, FS_CardinalityType

\* m_SocketCount counts an object from its constructor to the uncount of its closer.
LEMMA NextCount == SInv /\ CountInv /\ [Next]_vars => CountInv'
<1> SUFFICES ASSUME SInv, CountInv, [Next]_vars PROVE CountInv'
  OBVIOUS
<1> USE GateAssumption DEF SInv, Typing, CountInv, Live, Goto, registries, objects, locals
<1>f. IsFiniteSet(Counted)
  BY FiniteConns DEF Counted
<1>1. ASSUME NEW t \in Workers, Allocate(t) PROVE CountInv'
  <2>1. PICK x \in Conns : /\ hSocket[x] = None /\ addr[x] = None
                           /\ hSocket' = [hSocket EXCEPT ![x] = h[t]]
                           /\ c' = [c EXCEPT ![t] = x]
    BY <1>1 DEF Allocate
  <2>2. x \notin Counted
    BY <2>1 DEF Counted, HandInv, ObjectPCs, ClosePCs
  <2>3. h[t] # None
    BY <1>1 DEF Allocate, HandInv, OwnPCs, AcceptPCs
  <2>4. Counted' = Counted \cup {x}
    BY <1>1, <2>1, <2>3 DEF Allocate, Counted
  <2> QED
    BY <1>1, <2>2, <2>4, <1>f, FS_AddElement DEF Allocate
<1>2. ASSUME NEW t \in Workers, Uncount(t) PROVE CountInv'
  <2>1. c[t] \in Counted
    BY <1>2 DEF Uncount, Counted, HandInv, ObjectPCs, ClosePCs
  <2>2. Counted' = Counted \ {c[t]}
    BY <1>2 DEF Uncount, Counted, CloseInv, ClosePCs
  <2> QED
    BY <1>2, <2>1, <2>2, <1>f, FS_RemoveElement DEF Uncount
<1>3. ASSUME NEW t \in Workers, Close(t) PROVE CountInv'
  <2>1. Counted' = Counted
    BY <1>3 DEF Close, Done, Counted, HandInv, ObjectPCs
  <2> QED
    BY <1>3, <2>1 DEF Close
<1>4. ASSUME NEW t \in Workers, Accept(t) \/ CheckLimit(t) \/ SetAccessIP(t) \/ Insert(t)
                               \/ Initialize(t) \/ Reject(t)
      PROVE CountInv'
  <2>1. Counted' = Counted
    BY <1>4 DEF Accept, CheckLimit, SetAccessIP, Insert, Initialize, Reject, Done, Counted
  <2> QED
    BY <1>4, <2>1 DEF Accept, CheckLimit, SetAccessIP, Insert, Initialize, Reject
<1>5. ASSUME NEW t \in Workers, TimerFires(t) \/ FindSocket(t) \/ Drop(t)
      PROVE CountInv'
  <2>1. Counted' = Counted
    BY <1>5 DEF TimerFires, FindSocket, Drop, Done, Counted
  <2> QED
    BY <1>5, <2>1 DEF TimerFires, FindSocket, Drop
<1>6. ASSUME NEW t \in Workers, RemoveSocket(t) \/ DelAccessIP(t) \/ CloseHandle(t)
      PROVE CountInv'
  <2>1. Counted' = Counted
    BY <1>6 DEF RemoveSocket, DelAccessIP, CloseHandle, Done, Counted
  <2> QED
    BY <1>6, <2>1 DEF RemoveSocket, DelAccessIP, CloseHandle
<1>7. CASE ChangeLimitUser
  BY <1>7 DEF ChangeLimitUser, Counted
<1>8. CASE UNCHANGED vars
  BY <1>8 DEF vars, Counted
<1> QED
  BY <1>1, <1>2, <1>3, <1>4, <1>5, <1>6, <1>7, <1>8 DEF Next

\* CIPAccessLimit counts an address from SetAccessIP to DelAccessIP.
LEMMA NextAccess == SInv /\ AccessInv /\ [Next]_vars => AccessInv'
<1> SUFFICES ASSUME SInv, AccessInv, [Next]_vars, IPAccessLimit > 0, NEW a \in IPs
    PROVE  /\ accessmap'[a] = Cardinality(Admitted(a)') + Cardinality(Admitting(a)')
           /\ accessmap'[a] <= IPAccessLimit
  BY DEF AccessInv
<1> DEFINE Kept == accessmap'[a] = accessmap[a]
<1> USE GateAssumption DEF SInv, Typing, Live, Goto, registries, objects, locals
<1>a. /\ accessmap[a] \in Nat /\ accessmap[a] <= IPAccessLimit
      /\ accessmap[a] = Cardinality(Admitted(a)) + Cardinality(Admitting(a))
  BY DEF AccessInv
<1>b. /\ IsFiniteSet(Admitted(a)) /\ Cardinality(Admitted(a)) \in Nat
      /\ IsFiniteSet(Admitting(a)) /\ Cardinality(Admitting(a)) \in Nat
  BY FiniteConns, FiniteWorkers DEF Admitted, Admitting
<1>1. ASSUME NEW t \in Workers, SetAccessIP(t)
      PROVE  /\ accessmap'[a] = Cardinality(Admitted(a)') + Cardinality(Admitting(a)')
             /\ accessmap'[a] <= IPAccessLimit
  <2>1. Admitted(a)' = Admitted(a)
    BY <1>1 DEF SetAccessIP, Admitted
  <2>2. t \notin Admitting(a) /\ ip[t] \in IPs
    BY <1>1 DEF SetAccessIP, Admitting, HandInv
  <2>3. CASE pc'[t] = "allocate" /\ ip[t] = a
    <3>1. Admitting(a)' = Admitting(a) \cup {t}
      BY <1>1, <2>3 DEF SetAccessIP, Admitting
    <3>2. accessmap'[a] = accessmap[a] + 1 /\ accessmap'[a] <= IPAccessLimit
      BY <1>1, <1>a, <2>2, <2>3 DEF SetAccessIP
    <3>3. Cardinality(Admitting(a)') = Cardinality(Admitting(a)) + 1
      BY <1>b, <2>2, <3>1, FS_AddElement
    <3> QED
      BY <1>a, <1>b, <2>1, <3>2, <3>3
  <2>4. CASE ~(pc'[t] = "allocate" /\ ip[t] = a)
    <3>1. Admitting(a)' = Admitting(a)
      BY <1>1, <2>4 DEF SetAccessIP, Admitting
    <3>2. Kept
      BY <1>1, <2>2, <2>4 DEF SetAccessIP
    <3> QED
      BY <1>a, <2>1, <3>1, <3>2
  <2> QED
    BY <2>3, <2>4
<1>2. ASSUME NEW t \in Workers, Allocate(t)
      PROVE  /\ accessmap'[a] = Cardinality(Admitted(a)') + Cardinality(Admitting(a)')
             /\ accessmap'[a] <= IPAccessLimit
  <2>1. PICK x \in Conns : /\ hSocket[x] = None /\ addr[x] = None
                           /\ hSocket' = [hSocket EXCEPT ![x] = h[t]]
                           /\ addr' = [addr EXCEPT ![x] = ip[t]]
                           /\ c' = [c EXCEPT ![t] = x]
    BY <1>2 DEF Allocate
  <2>2. h[t] # None /\ ip[t] \in IPs /\ x \notin Admitted(a)
    BY <1>2, <2>1 DEF Allocate, HandInv, OwnPCs, AcceptPCs, Admitted
  <2>3. \A u \in Workers : pc[u] \in ClosePCs => c[u] # x
    BY <2>1 DEF HandInv, ObjectPCs
  <2>4. CASE ip[t] = a
    <3>1. Admitted(a)' = Admitted(a) \cup {x}
      BY <1>2, <2>1, <2>2, <2>3, <2>4 DEF Allocate, Admitted, ClosePCs
    <3>2. t \in Admitting(a) /\ Admitting(a)' = Admitting(a) \ {t}
      BY <1>2, <2>4 DEF Allocate, Admitting
    <3>3. Cardinality(Admitted(a)') = Cardinality(Admitted(a)) + 1
      BY <1>b, <2>2, <3>1, FS_AddElement
    <3>4. Cardinality(Admitting(a)') = Cardinality(Admitting(a)) - 1
      BY <1>b, <3>2, FS_RemoveElement
    <3>5. Kept
      BY <1>2 DEF Allocate
    <3> QED
      BY <1>a, <1>b, <3>3, <3>4, <3>5
  <2>5. CASE ip[t] # a
    <3>1. Admitted(a)' = Admitted(a)
      BY <1>2, <2>1, <2>2, <2>3, <2>5 DEF Allocate, Admitted, ClosePCs
    <3>2. Admitting(a)' = Admitting(a)
      BY <1>2, <2>5 DEF Allocate, Admitting
    <3> QED
      BY <1>2, <1>a, <3>1, <3>2 DEF Allocate
  <2> QED
    BY <2>4, <2>5
<1>3. ASSUME NEW t \in Workers, DelAccessIP(t)
      PROVE  /\ accessmap'[a] = Cardinality(Admitted(a)') + Cardinality(Admitting(a)')
             /\ accessmap'[a] <= IPAccessLimit
  <2>1. c[t] \in Conns /\ addr[c[t]] \in IPs /\ hSocket[c[t]] = None
    BY <1>3 DEF DelAccessIP, HandInv, CloseInv, ObjectPCs, ClosePCs
  <2>2. Admitting(a)' = Admitting(a)
    BY <1>3 DEF DelAccessIP, Admitting
  <2>3. CASE addr[c[t]] = a
    <3>1. c[t] \in Admitted(a)
      BY <1>3, <2>1, <2>3 DEF DelAccessIP, Admitted
    <3>2. Admitted(a)' = Admitted(a) \ {c[t]}
      BY <1>3, <2>1, <2>3 DEF DelAccessIP, Admitted, CloseInv, ClosePCs
    <3>3. Cardinality(Admitted(a)') = Cardinality(Admitted(a)) - 1
      BY <1>b, <3>1, <3>2, FS_RemoveElement
    <3>4. Cardinality(Admitted(a)') \in Nat
      BY FiniteConns, <3>2, <1>b, FS_RemoveElement, FS_CardinalityType
    <3>5. accessmap[a] >= 1
      BY <1>a, <1>b, <3>3, <3>4
    <3>6. accessmap'[a] = accessmap[a] - 1
      BY <1>3, <1>a, <2>3, <3>5 DEF DelAccessIP
    <3> QED
      BY <1>a, <1>b, <2>2, <3>3, <3>6
  <2>4. CASE addr[c[t]] # a
    <3>1. Admitted(a)' = Admitted(a)
      BY <1>3, <2>4 DEF DelAccessIP, Admitted
    <3> QED
      BY <1>3, <1>a, <2>1, <2>2, <2>4, <3>1 DEF DelAccessIP
  <2> QED
    BY <2>3, <2>4
<1>4. ASSUME NEW t \in Workers, Close(t)
      PROVE  Kept /\ Admitted(a)' = Admitted(a) /\ Admitting(a)' = Admitting(a)
  BY <1>4 DEF Close, Done, Admitted, Admitting, HandInv, ObjectPCs
<1>5. ASSUME NEW t \in Workers, Accept(t) \/ CheckLimit(t) \/ Insert(t)
      PROVE  Kept /\ Admitted(a)' = Admitted(a) /\ Admitting(a)' = Admitting(a)
  BY <1>5 DEF Accept, CheckLimit, Insert, Admitted, Admitting
<1>6. ASSUME NEW t \in Workers, Initialize(t) \/ Reject(t)
      PROVE  Kept /\ Admitted(a)' = Admitted(a) /\ Admitting(a)' = Admitting(a)
  BY <1>6 DEF Initialize, Reject, Done, Admitted, Admitting
<1>7. ASSUME NEW t \in Workers, TimerFires(t) \/ FindSocket(t) \/ Drop(t)
      PROVE  Kept /\ Admitted(a)' = Admitted(a) /\ Admitting(a)' = Admitting(a)
  BY <1>7 DEF TimerFires, FindSocket, Drop, Done, Admitted, Admitting
<1>8. ASSUME NEW t \in Workers, Uncount(t) \/ RemoveSocket(t) \/ CloseHandle(t)
      PROVE  Kept /\ Admitted(a)' = Admitted(a) /\ Admitting(a)' = Admitting(a)
  BY <1>8 DEF Uncount, RemoveSocket, CloseHandle, Done, Admitted, Admitting
<1>9. CASE ChangeLimitUser \/ UNCHANGED vars
  <2>1. Kept /\ Admitted(a)' = Admitted(a) /\ Admitting(a)' = Admitting(a)
    BY <1>9 DEF ChangeLimitUser, vars, Admitted, Admitting
  <2> QED
    BY <1>a, <2>1
<1> QED
  BY <1>a, <1>1, <1>2, <1>3, <1>4, <1>5, <1>6, <1>7, <1>8, <1>9 DEF Next

\* A thread that passes the limit has found the count below it, and each thread has
\* at most one socket on the way to the count.
LEMMA NextPass == SInv /\ PassInv /\ [Next]_vars => PassInv'
<1> SUFFICES ASSUME SInv, PassInv, [Next]_vars PROVE PassInv'
  OBVIOUS
<1> DEFINE Sum == socketCount + Cardinality(Passing)
<1> USE GateAssumption DEF SInv, Typing, Goto, registries, objects, locals
<1>a. /\ IsFiniteSet(Passing) /\ Cardinality(Passing) \in Nat
      /\ IsFiniteSet(Passing') /\ Cardinality(Passing') \in Nat
      /\ Cardinality(Passing') <= Cardinality(Workers) /\ Cardinality(Workers) \in Nat
  BY FiniteWorkers, FS_CardinalityType DEF Passing
<1>b. socketCount \in Int /\ socketCount' \in Int
  BY NextTyping
<1>c. ASSUME Sum' <= Sum PROVE PassInv'
  BY <1>a, <1>b, <1>c DEF PassInv
<1>1. ASSUME NEW t \in Workers, CheckLimit(t) PROVE PassInv'
  <2>1. CASE socketCount >= socketLimit
    <3>1. Passing' = Passing
      BY <1>1, <2>1 DEF CheckLimit, Passing
    <3> QED
      BY <1>1, <1>a, <1>c, <3>1 DEF CheckLimit
  <2>2. CASE socketCount < socketLimit
    BY <1>1, <1>a, <2>2 DEF CheckLimit, PassInv
  <2> QED
    BY <1>b, <2>1, <2>2
<1>2. ASSUME NEW t \in Workers, SetAccessIP(t) PROVE PassInv'
  <2>1. Passing' = Passing \/ Passing' = Passing \ {t}
    BY <1>2 DEF SetAccessIP, Passing
  <2>2. Passing' \subseteq Passing
    BY <2>1
  <2>3. Cardinality(Passing') <= Cardinality(Passing)
    BY <1>a, <2>2, FS_Subset
  <2>4. socketCount' = socketCount
    BY <1>2 DEF SetAccessIP
  <2> QED
    BY <1>a, <1>b, <1>c, <2>3, <2>4
<1>3. ASSUME NEW t \in Workers, Allocate(t) PROVE PassInv'
  <2>1. t \in Passing /\ Passing' = Passing \ {t}
    BY <1>3 DEF Allocate, Passing
  <2>2. Cardinality(Passing') = Cardinality(Passing) - 1
    BY <1>a, <2>1, FS_RemoveElement
  <2>3. socketCount' = socketCount + 1
    BY <1>3 DEF Allocate
  <2> QED
    BY <1>a, <1>b, <1>c, <2>2, <2>3
<1>4. ASSUME NEW t \in Workers, Accept(t) \/ Insert(t) \/ Initialize(t) \/ Reject(t)
                               \/ TimerFires(t) \/ FindSocket(t) \/ Drop(t)
      PROVE PassInv'
  <2>1. Passing' = Passing /\ socketCount' = socketCount
    BY <1>4 DEF Accept, Insert, Initialize, Reject, TimerFires, FindSocket, Drop, Done, Passing
  <2> QED
    BY <1>a, <1>c, <2>1
<1>5. ASSUME NEW t \in Workers, Close(t) \/ Uncount(t) \/ RemoveSocket(t)
                               \/ DelAccessIP(t) \/ CloseHandle(t)
      PROVE PassInv'
  <2>1. Passing' = Passing /\ socketCount' <= socketCount
    BY <1>5 DEF Close, Uncount, RemoveSocket, DelAccessIP, CloseHandle, Done, Passing
  <2> QED
    BY <1>a, <1>b, <1>c, <2>1
<1>6. CASE ChangeLimitUser \/ UNCHANGED vars
  <2>1. Passing' = Passing /\ socketCount' = socketCount
    BY <1>6 DEF ChangeLimitUser, vars, Passing
  <2> QED
    BY <1>a, <1>c, <2>1
<1> QED
  BY <1>1, <1>2, <1>3, <1>4, <1>5, <1>6 DEF Next

-----------------------------------------------------------------------------
LEMMA InitIInv == Init => IInv
<1> SUFFICES ASSUME Init PROVE IInv
  OBVIOUS
<1>1. SInv
  BY InitSInv
<1>2. Counted = {} /\ Passing = {} /\ \A a \in IPs : Admitted(a) = {} /\ Admitting(a) = {}
  BY GateAssumption DEF Init, Counted, Passing, Admitted, Admitting, Live
<1>3. CountInv
  BY <1>2, FS_EmptySet DEF Init, CountInv
<1>4. AccessInv
  BY <1>2, FS_EmptySet, GateAssumption DEF Init, AccessInv
<1>5. PassInv
  <2>1. Cardinality(Workers) \in Nat \ {0}
    BY GateAssumption, FS_EmptySet, FS_CardinalityType
  <2> QED
    BY <1>2, <2>1, FS_EmptySet, GateAssumption DEF Init, PassInv
<1> QED
  BY <1>1, <1>3, <1>4, <1>5 DEF IInv

\* IInv holds in every state the client side can reach.
THEOREM Invariance == Spec => []IInv
<1>1. IInv /\ [Next]_vars => IInv'
  BY NextSInv, NextCount, NextAccess, NextPass DEF IInv
<1> QED
  BY InitIInv, <1>1, PTL DEF Spec

-----------------------------------------------------------------------------
\* The variables have their types; m_SocketCount never leaves the range of the
\* objects there are (IOServer.cpp:600-680).
THEOREM TypeOKHolds == Spec => []TypeOK
<1>1. IInv => TypeOK
  <2> SUFFICES ASSUME IInv PROVE TypeOK
    OBVIOUS
  <2>1. Counted \in SUBSET Conns /\ socketCount = Cardinality(Counted)
    BY DEF IInv, CountInv, Counted
  <2>2. Cardinality(Counted) <= Cardinality(Conns) /\ Cardinality(Conns) \in Nat
    BY <2>1, GateAssumption, FS_Subset, FS_CardinalityType
  <2>3. socketCount \in 0..Cardinality(Conns)
    BY <2>1, <2>2, FiniteConns
  <2> QED
    BY <2>3 DEF IInv, SInv, Typing, TypeOK
<1> QED
  BY <1>1, Invariance, PTL

\* When no thread is accepting or closing, the socket count, the map, the counts per
\* address, the timers and the kernel agree on the connections there are.
THEOREM RegistriesAgreeHolds == Spec => []RegistriesAgree
<1>1. IInv => RegistriesAgree
  <2> SUFFICES ASSUME IInv, \A t \in Workers : pc[t] = "idle" PROVE RegistriesAgree
    BY DEF RegistriesAgree
  <2> USE DEF IInv, SInv
  <2>1. socketCount = Cardinality(Live)
    <3>1. Counted = Live
      BY DEF Counted, Live
    <3> QED
      BY <3>1 DEF CountInv
  <2>2. kernelOpen = {hSocket[x] : x \in Live}
    BY GateAssumption DEF HandleInv, Typing, Live, OwnPCs, AcceptPCs, ClosePCs
  <2>3. \A k \in Handles, x \in Conns : socketmap[k] = x <=> hSocket[x] = k
    BY GateAssumption DEF MapInv, Typing, Live
  <2>4. timers = {<<x, hSocket[x]>> : x \in Live \ untimed}
    BY GateAssumption DEF TimerInv, Typing, Live
  <2>5. ASSUME IPAccessLimit > 0, NEW a \in IPs
        PROVE  accessmap[a] = Cardinality({x \in Live : addr[x] = a})
    <3>1. Admitted(a) = {x \in Live : addr[x] = a} /\ Admitting(a) = {}
      BY DEF Admitted, Admitting, Live
    <3>2. IsFiniteSet(Admitted(a)) /\ Cardinality(Admitted(a)) \in Nat
      BY FiniteConns DEF Admitted
    <3>3. accessmap[a] = Cardinality(Admitted(a)) + Cardinality(Admitting(a))
      BY <2>5 DEF AccessInv
    <3> QED
      BY <3>1, <3>2, <3>3, FS_EmptySet
  <2> QED
    BY <2>1, <2>2, <2>3, <2>4, <2>5 DEF RegistriesAgree
<1> QED
  BY <1>1, Invariance, PTL

\* A live connection is found under its handle, and nothing under a closed handle,
\* whatever handles the kernel reuses (IOServer.cpp:641-678).
THEOREM MapFindsLiveHolds == Spec => []MapFindsLive
<1>1. IInv => MapFindsLive
  <2> SUFFICES ASSUME IInv PROVE MapFindsLive
    OBVIOUS
  <2> USE DEF IInv, SInv
  <2>1. ASSUME NEW x \in started, hSocket[x] # None PROVE socketmap[hSocket[x]] = x
    BY <2>1 DEF Typing, MapInv, CloseInv, Live
  <2>2. ASSUME NEW k \in Handles, socketmap[k] # None PROVE k \in kernelOpen
    <3>1. socketmap[k] \in Conns
      BY <2>2 DEF Typing
    <3>2. CASE hSocket[socketmap[k]] = k
      BY <3>1, <3>2, GateAssumption DEF HandleInv, Live
    <3>3. CASE \E t \in Workers : pc[t] \in {"uncount", "remove"} /\ h[t] = k
      BY <3>3 DEF HandleInv, OwnPCs, ClosePCs
    <3> QED
      BY <3>1, <3>2, <3>3 DEF MapInv
  <2> QED
    BY <2>1, <2>2 DEF MapFindsLive
<1> QED
  BY <1>1, Invariance, PTL

\* No address has more connections than config.IPAccessLimit (IPList.cpp:40-87).
THEOREM AddressLimitHolds == Spec => []AddressLimit
<1>1. IInv => AddressLimit
  <2> SUFFICES ASSUME IInv, IPAccessLimit > 0, NEW a \in IPs
      PROVE  Cardinality({x \in Conns : addr[x] = a /\ (x \in Live
                \/ \E t \in Workers : c[t] = x /\ pc[t] \in {"uncount", "remove"})})
               <= IPAccessLimit
    BY DEF AddressLimit
  <2> DEFINE S == {x \in Conns : addr[x] = a /\ (x \in Live
                    \/ \E t \in Workers : c[t] = x /\ pc[t] \in {"uncount", "remove"})}
  <2>1. S \in SUBSET Admitted(a) /\ Admitted(a) \in SUBSET Conns
        /\ Admitting(a) \in SUBSET Workers
    BY DEF Admitted, Admitting
  <2>2. Cardinality(S) \in Nat /\ Cardinality(S) <= Cardinality(Admitted(a))
    BY <2>1, FiniteConns, FS_Subset
  <2>3. /\ accessmap[a] = Cardinality(Admitted(a)) + Cardinality(Admitting(a))
        /\ accessmap[a] <= IPAccessLimit
    BY DEF IInv, AccessInv
  <2>4. Cardinality(Admitted(a)) \in Nat /\ Cardinality(Admitting(a)) \in Nat
    BY <2>1, FiniteConns, FiniteWorkers
  <2> QED
    BY <2>2, <2>3, <2>4, GateAssumption
<1> QED
  BY <1>1, Invariance, PTL

\* SocketLimit is passed by at most one connection for every other thread, for any
\* number of threads and however the limit is changed meanwhile.
THEOREM LimitOvershootHolds == Spec => []LimitOvershoot
<1>1. IInv => LimitOvershoot
  <2> SUFFICES ASSUME IInv PROVE LimitOvershoot
    OBVIOUS
  <2>1. Cardinality(Passing) \in Nat /\ Cardinality(Workers) \in Nat /\ socketCount \in Int
    BY FiniteWorkers, GateAssumption, FS_CardinalityType DEF Passing, IInv, SInv, Typing
  <2> QED
    BY <2>1, GateAssumption DEF IInv, PassInv, LimitOvershoot
<1> QED
  BY <1>1, Invariance, PTL
=============================================================================
