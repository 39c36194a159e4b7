---------------------------- MODULE PartsProofs ----------------------------
(***************************************************************************)
(* Proofs about five parts of the server that share no state: EventLoop,   *)
(* for any number of ports, LogFiles, for any threads and any *)
(* number of hours, IPRanges, for addresses and files of any size, Pools,  *)
(* for any threads, slots and number of objects wanted, and Framing, for   *)
(* bytes, buffers, lines and streams of any size.                          *)
(***************************************************************************)
EXTENDS EventLoop, LogFiles, IPRanges, Pools, Framing, FiniteSetTheorems, SequenceTheorems,
        WellFoundedInduction, TLAPS

(* EventLoop: the timer thread *)

\* topRefs follows the queue: in the callback the new entry comes before its reference,
\* and that before the old one goes; the queue is empty only at the end
TimerInv ==
  /\ tpc \in {"look", "due", "addref", "release", "top", "wait", "ended", "undefined"}
  /\ tpc \in {"look", "due", "addref", "wait"} => queued = 1 /\ topRefs = 1
  /\ tpc = "release" => queued = 1 /\ topRefs = 2
  /\ tpc = "top" => topRefs = 1 /\ (queued = 1 \/ (queued = 0 /\ terminating))
  /\ tpc = "ended" => queued = 0 /\ topRefs = 0
  /\ tpc = "undefined" => terminating /\ topRefs = 1
  /\ noTop => tpc = "undefined"

\* RunTimer reads the top of an empty queue only when the server stops, and the timer
\* is in the queue whenever the thread looks (CJob::RunTimer).
THEOREM TopTimerStaysHolds == JobSpec => []TopTimerStays
<1>1. JobInit => TimerInv
  BY DEF JobInit, TimerInv
<1>2. TimerInv /\ [JobNext]_jobVars => TimerInv'
  <2> SUFFICES ASSUME TimerInv, [JobNext]_jobVars PROVE TimerInv'
    OBVIOUS
  <2> USE DEF TimerInv
  <2>1. CASE Look
    BY <2>1 DEF Look, stopping
  <2>2. CASE RunTop
    BY <2>2 DEF RunTop, Registered, stopping
  <2>10. CASE AddTopRef \/ ReleaseTop
    BY <2>10 DEF AddTopRef, ReleaseTop, stopping
  <2>3. CASE ReadTop
    <3>1. CASE queued = 0
      BY <2>3, <3>1 DEF ReadTop, stopping
    <3>2. CASE queued # 0
      <4>1. ~noTop'
        BY <2>3, <3>2, Zenon DEF ReadTop
      <4> QED
        BY <2>3, <3>2, <4>1 DEF ReadTop, stopping
    <3> QED
      BY <3>1, <3>2
  <2>4. CASE TimerWakes
    BY <2>4 DEF TimerWakes
  <2>5. CASE SetTerminate
    BY <2>5 DEF SetTerminate, timing
  <2>6. ASSUME UNCHANGED <<terminating, timing>> PROVE TimerInv'
    BY <2>6 DEF timing
  <2>7. CASE SetEvents \/ Listen
    <3>1. CASE SetEvents
      BY <2>6, <3>1, Zenon DEF SetEvents
    <3>2. CASE Wake \/ ResetEvent \/ PostAccept \/ ClosePorts
      BY <2>6, <3>2, Zenon DEF Wake, ResetEvent, PostAccept, ClosePorts, stopping
    <3>3. CASE EndIPConn
      BY <2>6, <3>3, Zenon DEF EndIPConn, stopping
    <3>4. CASE EndLogConn
      <4>1. UNCHANGED terminating /\ UNCHANGED timing
        BY <3>4 DEF EndLogConn
      <4> QED
        BY <2>6, <4>1, Zenon
    <3> QED
      BY <2>7, <3>1, <3>2, <3>3, <3>4, Zenon DEF Listen
  <2>8. ASSUME NEW p \in Ports, Arrive(p) \/ GiveUp(p) \/ AcceptOne(p) PROVE TimerInv'
    BY <2>6, <2>8 DEF Arrive, GiveUp, AcceptOne, stopping
  <2>11. ASSUME NEW lock \in outgoing, TakeLock(lock) \/ LeaveLock(lock) PROVE TimerInv'
    BY <2>6, <2>11 DEF TakeLock, LeaveLock, stopping
  <2>9. CASE UNCHANGED jobVars
    BY <2>6, <2>9 DEF jobVars, timing
  <2> QED
    BY <2>1, <2>2, <2>3, <2>4, <2>5, <2>7, <2>8, <2>9, <2>10, <2>11 DEF JobNext, RunTimer
<1>3. TimerInv => TopTimerStays
  BY DEF TimerInv, TopTimerStays
<1> QED
  BY <1>1, <1>2, <1>3, PTL DEF JobSpec

-----------------------------------------------------------------------------
(* EventLoop: the ports *)

\* somebody will serve p
Seen(p) == p \in event \/ tickets[p] > 0 \/ (port = p /\ lpc \in {"reset", "post"})

\* WaitingIsSeen is not inductive: that a second connection, for which Winsock
\* signals nothing, is seen rests on who sees a port that is not armed.
ArmInv ==
  /\ backlog \in [Ports -> Nat] /\ tickets \in [Ports -> Nat]
  /\ lpc \in {"wait", "reset", "post", "close", "endIP", "endLog", "ended"}
  /\ \A p \in Ports : backlog[p] > 0 => p \in listening /\ p \notin armed
  /\ \A p \in listening : p \notin armed /\ ~lost => Seen(p)
  /\ listening \subseteq Ports

LEMMA NextArmInv == ArmInv /\ [JobNext]_jobVars => ArmInv'
<1> SUFFICES ASSUME ArmInv, [JobNext]_jobVars PROVE ArmInv'
  OBVIOUS
<1> USE DEF ArmInv, Seen
<1>1. ASSUME NEW p \in Ports, Arrive(p) PROVE ArmInv'
  BY <1>1 DEF Arrive, Signal
<1>2. ASSUME NEW p \in Ports, GiveUp(p) PROVE ArmInv'
  BY <1>2 DEF GiveUp
<1>3. ASSUME NEW p \in Ports, AcceptOne(p) PROVE ArmInv'
  BY <1>3 DEF AcceptOne, Signal
<1>4. CASE Wake
  BY <1>4 DEF Wake, Then, accepting
<1>5. CASE ResetEvent
  BY <1>5 DEF ResetEvent, Then
<1>6. CASE PostAccept
  BY <1>6 DEF PostAccept, Then
<1>7. CASE ClosePorts
  BY <1>7 DEF ClosePorts
<1>8. CASE RunTimer \/ SetTerminate \/ SetEvents
  BY <1>8 DEF RunTimer, Look, RunTop, AddTopRef, ReleaseTop, ReadTop, TimerWakes, SetTerminate,
     SetEvents, accepting
<1>9. CASE UNCHANGED jobVars
  BY <1>9 DEF jobVars
<1>10. CASE EndIPConn \/ EndLogConn
  <2>1. UNCHANGED <<accepting, port>> /\ lpc \notin {"reset", "post"} /\ lpc' \in {"endLog", "ended"}
    <3>1. CASE EndIPConn
      BY <3>1 DEF EndIPConn
    <3>2. CASE EndLogConn
      BY <3>2 DEF EndLogConn
    <3> QED
      BY <1>10, <3>1, <3>2, Zenon
  <2> QED
    BY <2>1 DEF accepting
<1>11. ASSUME NEW lock \in outgoing, TakeLock(lock) \/ LeaveLock(lock) PROVE ArmInv'
  BY <1>11 DEF TakeLock, LeaveLock, accepting
<1>12. CASE \E p \in Ports : Arrive(p) \/ GiveUp(p) \/ AcceptOne(p)
  BY <1>1, <1>2, <1>3, <1>12, Zenon
<1>13. CASE Listen
  <2>1. Wake \/ ResetEvent \/ PostAccept \/ ClosePorts \/ (EndIPConn \/ EndLogConn)
    BY <1>13, Zenon DEF Listen
  <2> HIDE DEF ArmInv
  <2> QED
    BY <1>4, <1>5, <1>6, <1>7, <1>10, <2>1, Zenon
<1> QED
  BY <1>8, <1>9, <1>11, <1>12, <1>13, Zenon DEF JobNext

\* No connection waits unseen, though ListenThread resets the event of a port after the
\* wait and a worker's accept may set it again at any time (CJob::RunEvent).
THEOREM WaitingIsSeenHolds == JobSpec => []WaitingIsSeen
<1>1. JobInit => ArmInv
  BY DEF JobInit, ArmInv, Seen
<1>2. ArmInv => WaitingIsSeen
  BY DEF ArmInv, WaitingIsSeen, Seen
<1> QED
  BY <1>1, <1>2, NextArmInv, PTL DEF JobSpec

-----------------------------------------------------------------------------
(* LogFiles *)

Owns(t) == gpc[t] \in {"open", "close", "leave"}

\* what the members of the class and the threads are set to
LogTyping ==
  /\ logd \in BOOLEAN /\ clock \in Nat
  /\ currFlag \in {0, 1} /\ prevFlag \in {0, 1} /\ prevHour \in Nat
  /\ gpc \in [LogThreads -> LogPCs] /\ tm \in [LogThreads -> Nat]
  /\ handle \in [LogThreads -> Nat \cup {NoFile}] /\ logFile \in Nat \cup {NoFile}

\* the handles are numbered, and the next one is new
HandlesInv ==
  /\ \E n \in Nat : DOMAIN opened = 0..n
  /\ openNow \subseteq DOMAIN opened
  /\ openNow = ({logFile} \cup {handle[t] : t \in LogThreads}) \ {NoFile}

\* the critical section, in which the old handle is in hand and not the member
SectionInv ==
  /\ \A t \in LogThreads : Owns(t) <=> section = t
  /\ \A t \in LogThreads : gpc[t] # "close" => handle[t] = NoFile
  /\ \A t \in LogThreads : gpc[t] = "close" => handle[t] # NoFile /\ handle[t] # logFile
  /\ \A t \in LogThreads : gpc[t] = "open" => logFile # NoFile

\* the file of a CFileLog is that of the hour noted last, or about to be noted
OneFileInv ==
  ~logd =>
    /\ currFlag = 0 /\ prevFlag = 0 /\ logFile # NoFile
    /\ (\A t \in LogThreads : gpc[t] # "close") => opened[logFile] = <<prevHour, 0>>
    /\ \A t \in LogThreads : gpc[t] = "close" => opened[logFile] = <<tm[t], 0>>
    /\ \A t \in LogThreads : gpc[t] = "open" => tm[t] # prevHour

LogInv == LogTyping /\ HandlesInv /\ SectionInv /\ OneFileInv

\* A thread that opens the next file finds the old one open and no other.
LEMMA OpenFiles ==
  ASSUME LogInv, NEW t \in LogThreads, gpc[t] = "open"
  PROVE  openNow = {logFile} /\ logFile # NoFile /\ \A u \in LogThreads : handle[u] = NoFile
<1>1. \A u \in LogThreads : gpc[u] # "close"
  BY DEF LogInv, SectionInv, Owns
<1> QED
  BY <1>1 DEF LogInv, HandlesInv, SectionInv

LEMMA NextHandle ==
  ASSUME LogInv
  PROVE  \E n \in Nat : DOMAIN opened = 0..n /\ Cardinality(DOMAIN opened) = n + 1
<1>1. PICK n \in Nat : DOMAIN opened = 0..n
  BY DEF LogInv, HandlesInv
<1>2. Cardinality(0..n) = n + 1
  BY FS_Interval
<1> QED
  BY <1>1, <1>2

LEMMA NextLogInv == LogInv /\ [LogNext]_logVars => LogInv'
<1> SUFFICES ASSUME LogInv, [LogNext]_logVars PROVE LogInv'
  OBVIOUS
<1> USE LogAssumption DEF LogInv, LogTyping, LogPCs, LogGoto, Owns
<1>1. CASE HalfHour
  BY <1>1 DEF HalfHour, files, marks, HandlesInv, SectionInv, OneFileInv
<1>2. ASSUME NEW t \in LogThreads, AddLog(t) PROVE LogInv'
  BY <1>2 DEF AddLog, Half, files, HandlesInv, SectionInv, OneFileInv
<1>3. ASSUME NEW t \in LogThreads, Stamp(t) PROVE LogInv'
  BY <1>3 DEF Stamp, Hour, files, marks, HandlesInv, SectionInv, OneFileInv
<1>4. ASSUME NEW t \in LogThreads, EnterSection(t) PROVE LogInv'
  BY <1>4 DEF EnterSection, MayEnter, StartNewLog, files, marks, HandlesInv, SectionInv, OneFileInv
<1>5. ASSUME NEW t \in LogThreads, OpenNew(t) PROVE LogInv'
  <2> DEFINE name == <<tm[t], currFlag>>
  <2>1. /\ openNow = {logFile} /\ logFile \in Nat /\ gpc[t] = "open"
        /\ \A u \in LogThreads : handle[u] = NoFile /\ (u # t => ~Owns(u))
    BY <1>5, OpenFiles DEF OpenNew, SectionInv
  <2>2. PICK n \in Nat : DOMAIN opened = 0..n /\ Cardinality(DOMAIN opened) = n + 1
    BY NextHandle
  <2>3. /\ handle' = [handle EXCEPT ![t] = logFile] /\ gpc' = [gpc EXCEPT ![t] = "close"]
        /\ UNCHANGED <<logd, clock, marks, section, tm>>
    BY <1>5 DEF OpenNew
  <2>4. CASE opened[logFile] = name
    <3>1. logFile' = NoFile /\ UNCHANGED <<opened, openNow>>
      BY <1>5, <2>1, <2>4 DEF OpenNew
    <3>2. logd
      BY <2>1, <2>4 DEF SectionInv, OneFileInv
    <3>3. LogTyping' /\ SectionInv' /\ OneFileInv'
      BY <2>1, <2>3, <3>1, <3>2 DEF SectionInv, OneFileInv, marks
    <3>4. HandlesInv'
      BY <2>1, <2>2, <2>3, <3>1 DEF HandlesInv
    <3> QED
      BY <3>3, <3>4
  <2>5. CASE opened[logFile] # name
    <3>1. /\ logFile' = n + 1 /\ openNow' = openNow \cup {n + 1}
          /\ opened' = [g \in 0..n + 1 |-> IF g = n + 1 THEN name ELSE opened[g]]
      <4>1. 0..n + 1 = (0..n) \cup {n + 1}
        OBVIOUS
      <4>2. ~\E g \in openNow : opened[g] = name
        BY <2>1, <2>5
      <4> QED
        BY <1>5, <2>2, <4>1, <4>2 DEF OpenNew
    <3>2. logFile \in 0..n
      BY <2>1, <2>2 DEF HandlesInv
    <3>3. LogTyping' /\ SectionInv'
      BY <2>1, <2>3, <3>1, <3>2 DEF SectionInv, marks
    <3>4. HandlesInv'
      <4>1. n + 1 \in Nat /\ DOMAIN opened' = 0..n + 1
        BY <2>2, <3>1
      <4>2. openNow' = {logFile, n + 1} /\ logFile \in 0..n + 1 /\ n + 1 \in 0..n + 1
        BY <2>1, <2>2, <3>1, <3>2
      <4>3. {handle'[u] : u \in LogThreads} \ {NoFile} = {logFile}
        <5>1. handle'[t] = logFile /\ \A u \in LogThreads : u # t => handle'[u] = NoFile
          BY <2>1, <2>3
        <5> QED
          BY <5>1, <2>1
      <4>4. logFile' # NoFile
        BY <3>1, <4>1
      <4>5. openNow' = ({logFile'} \cup {handle'[u] : u \in LogThreads}) \ {NoFile}
        BY <3>1, <4>2, <4>3, <4>4
      <4>6. openNow' \subseteq DOMAIN opened' /\ \E k \in Nat : DOMAIN opened' = 0..k
        BY <4>1, <4>2
      <4> QED
        BY <4>5, <4>6 DEF HandlesInv
    <3>5. OneFileInv'
      BY <2>1, <2>3, <3>1 DEF OneFileInv, marks
    <3> QED
      BY <3>3, <3>4, <3>5
  <2> QED
    BY <2>4, <2>5
<1>6. ASSUME NEW t \in LogThreads, CloseOld(t) PROVE LogInv'
  BY <1>6 DEF CloseOld, HandlesInv, SectionInv, OneFileInv
<1>7. ASSUME NEW t \in LogThreads, LeaveSection(t) PROVE LogInv'
  BY <1>7 DEF LeaveSection, files, marks, HandlesInv, SectionInv, OneFileInv
<1>8. ASSUME NEW t \in LogThreads, EndLog(t) PROVE LogInv'
  BY <1>8 DEF EndLog, files, HandlesInv, SectionInv, OneFileInv
<1>9. CASE UNCHANGED logVars
  BY <1>9 DEF logVars, files, marks, HandlesInv, SectionInv, OneFileInv
<1> QED
  BY <1>1, <1>2, <1>3, <1>4, <1>5, <1>6, <1>7, <1>8, <1>9 DEF LogNext

\* A changed file is closed and no handle is lost, and a CFileLog always has a file,
\* for any number of threads that log (CFileLog::AddLogEx).
THEOREM LogGoesOnHolds == LogSpec => []LogGoesOn
<1>1. LogInit => LogInv
  BY LogAssumption DEF LogInit, LogInv, LogTyping, HandlesInv, SectionInv, OneFileInv, LogPCs,
     Owns, Half
<1>2. LogInv => LogGoesOn
  BY DEF LogInv, LogGoesOn, HandlesInv, OneFileInv
<1> QED
  BY <1>1, <1>2, NextLogInv, PTL DEF LogSpec

-----------------------------------------------------------------------------
(* IPRanges: the table of CIPList *)

Records == Addresses \X Addresses

\* every record covers something, and between two there is a gap
Sorted(t) ==
  /\ \A i \in 1..Len(t) : t[i][1] < t[i][2]
  /\ \A i, j \in 1..Len(t) : i < j => t[i][2] < t[j][1]

Covers(t, a) == \E i \in 1..Len(t) : t[i][1] <= a /\ a < t[i][2]

\* a line covers a that does not end at the top address
InFile(f, a) == \E line \in f : line[1] <= a /\ a <= line[2] /\ line[2] # Size - 1

RangesInv ==
  /\ IPTypeOK
  /\ ~misfit => Sorted(table) /\ \A a \in Addresses : Covers(table, a) <=> InFile(file, a)

LEMMA Sizes == Size \in Nat \ {0} /\ Addresses = 0..Size - 1
BY IPRangesAssumption DEF Size, Addresses

\* A non-empty set of numbers up to n has a least element: the smallest of the
\* intervals from 0 to an element.
LEMMA Least ==
  ASSUME NEW n \in Nat, NEW S \in SUBSET (0..n), S # {}
  PROVE  Min(S) \in S /\ \A y \in S : Min(S) <= y
<1> DEFINE T == {0..k : k \in S}
<1>1. T \subseteq FiniteSubsetsOf(0..n)
  <2>1. FiniteSubsetsOf(0..n) = SUBSET (0..n)
    <3>1. IsFiniteSet(0..n)
      BY FS_Interval
    <3> QED
      BY <3>1, FS_FiniteSubsetsOfFinite
  <2> QED
    BY <2>1, SMT
<1>2. T # {}
  OBVIOUS
<1>3. PICK s \in T : \A u \in T : <<u, s>> \notin StrictSubsetOrdering(0..n)
  <2> HIDE DEF T
  <2> QED
    BY <1>1, <1>2, FS_StrictSubsetOrderingWellFounded, WFMin
<1>4. PICK x \in S : s = 0..x
  OBVIOUS
<1>5. ASSUME NEW y \in S, y < x PROVE FALSE
  <2>1. 0..y \in T /\ 0..y \subseteq 0..x /\ 0..y # 0..x
    BY <1>5, SMT
  <2>2. 0..y \in SUBSET (0..n) /\ 0..x \in SUBSET (0..n)
    BY SMT
  <2> QED
    BY <1>3, <1>4, <2>1, <2>2 DEF StrictSubsetOrdering
<1>6. x \in S /\ \A y \in S : x <= y
  BY <1>5, SMT
<1> QED
  BY <1>6 DEF Min

\* and a greatest one
LEMMA Greatest ==
  ASSUME NEW n \in Nat, NEW S \in SUBSET (0..n), S # {}
  PROVE  Max(S) \in S /\ \A y \in S : y <= Max(S)
<1> DEFINE T == {n - k : k \in S}
<1>1. T \in SUBSET (0..n) /\ T # {}
  <2>1. \A k \in S : n - k \in 0..n
    OBVIOUS
  <2> QED
    BY <2>1, Zenon
<1>2. Min(T) \in T /\ \A y \in T : Min(T) <= y
  <2> HIDE DEF T
  <2> QED
    BY <1>1, Least
<1>3. PICK x \in S : Min(T) = n - x
  BY <1>2
<1>4. ASSUME NEW y \in S PROVE y <= x
  <2>1. n - y \in T /\ y \in Int /\ x \in Int
    OBVIOUS
  <2>2. n - x <= n - y
    BY <1>2, <1>3, <2>1
  <2> QED
    BY <2>1, <2>2
<1>5. \A y \in S : x >= y
  BY <1>4
<1>6. \A y, z \in S : y >= z /\ z >= y => y = z
  OBVIOUS
<1> QED
  BY <1>5, <1>6 DEF Max

\* UpperBound is the first record that ends above a
LEMMA UpperBoundIs ==
  ASSUME table \in Seq(Records), NEW a \in Int
  PROVE  /\ UpperBound(a) \in 1..Len(table) + 1
         /\ \A i \in 1..Len(table) : i < UpperBound(a) => table[i][2] <= a
         /\ UpperBound(a) <= Len(table) => a < table[UpperBound(a)][2]
<1> DEFINE above == {i \in 1..Len(table) : a < table[i][2]}
<1>1. \A i \in 1..Len(table) : table[i][2] \in Int
  BY Sizes DEF Records
<1>2. above # {} => Min(above) \in above /\ \A i \in above : Min(above) <= i
  <2>1. above \in SUBSET (0..Len(table)) /\ Len(table) \in Nat
    OBVIOUS
  <2> HIDE DEF above
  <2> QED
    BY <2>1, Least
<1>3. UpperBound(a) = IF above = {} THEN Len(table) + 1 ELSE Min(above)
  BY DEF UpperBound
<1>4. CASE above = {}
  BY <1>1, <1>3, <1>4
<1>5. CASE above # {}
  <2>1. \A i \in 1..Len(table) : i < Min(above) => ~(a < table[i][2])
    BY <1>2, <1>5
  <2>2. UpperBound(a) = Min(above) /\ Min(above) \in above
    BY <1>2, <1>3, <1>5
  <2>3. Min(above) \in 1..Len(table) /\ a < table[Min(above)][2]
    BY <2>2
  <2>4. \A i \in 1..Len(table) : i < Min(above) => table[i][2] <= a
    BY <1>1, <2>1
  <2> HIDE DEF above
  <2> QED
    BY <2>2, <2>3, <2>4
<1> QED
  BY <1>4, <1>5

\* IpExists finds exactly the addresses that the records cover (CIPList::IpExists)
LEMMA SearchFinds ==
  ASSUME table \in Seq(Records), Sorted(table), NEW a \in Addresses
  PROVE  IpExists(a) <=> Covers(table, a)
<1>1. a \in Int /\ \A i \in 1..Len(table) : table[i][1] \in Int /\ table[i][2] \in Int
  BY Sizes DEF Records
<1>2. PICK u \in 1..Len(table) + 1 :
        /\ u = UpperBound(a)
        /\ \A i \in 1..Len(table) : i < u => table[i][2] <= a
        /\ u <= Len(table) => a < table[u][2]
  BY <1>1, UpperBoundIs
<1>3. IpExists(a) <=> u <= Len(table) /\ table[u][1] <= a
  BY <1>2 DEF IpExists
<1>4. ASSUME NEW i \in 1..Len(table), table[i][1] <= a, a < table[i][2]
      PROVE  u <= Len(table) /\ table[u][1] <= a
  <2>1. i >= u
    BY <1>1, <1>2, <1>4
  <2>2. CASE i = u
    BY <1>4, <2>2
  <2>3. CASE u < i
    <3>1. u \in 1..Len(table) /\ table[u][2] < table[i][1] /\ table[u][1] < table[u][2]
      BY <2>3 DEF Sorted
    <3> QED
      BY <1>1, <1>4, <3>1
  <2> QED
    BY <2>1, <2>2, <2>3
<1> QED
  BY <1>2, <1>3, <1>4 DEF Covers

\* where the record of a merge ends
LEMMA Reaches ==
  ASSUME table \in Seq(Records), NEW end \in Addresses, NEW I \in SUBSET (1..Len(table))
  PROVE  LET S == {end} \cup {table[i][2] : i \in I}
         IN  Max(S) \in S /\ Max(S) \in Addresses /\ \A y \in S : y <= Max(S)
<1> DEFINE S == {end} \cup {table[i][2] : i \in I}
<1>1. S \in SUBSET (0..Size - 1) /\ S # {} /\ Size - 1 \in Nat
  BY Sizes DEF Records
<1> HIDE DEF S
<1>2. Max(S) \in S /\ \A y \in S : y <= Max(S)
  BY <1>1, Greatest
<1> QED
  BY <1>1, <1>2, Sizes DEF S

\* In a sorted table the records that a line swallows are those that begin at or before
\* its own end: the ends of those swallowed before make no difference.
LEMMA SwallowedIs ==
  ASSUME table \in Seq(Records), Sorted(table), NEW next \in 1..Len(table) + 1,
         NEW end \in Addresses
  PROVE  \E m \in next..Len(table) + 1 :
           /\ Swallowed(next, end) = next..m - 1
           /\ \A i \in next..m - 1 : table[i][1] <= end
           /\ m <= Len(table) => end < table[m][1]
<1> DEFINE D == {i \in next..Len(table) + 1 : i = Len(table) + 1 \/ end < table[i][1]}
           Ends(j) == {end} \cup {table[k][2] : k \in next..j - 1}
<1>t. end \in Int /\ \A i \in 1..Len(table) : table[i][1] \in Int /\ table[i][2] \in Int
  BY Sizes DEF Records
<1>1. PICK m \in D : \A i \in D : m <= i
  <2>1. D \in SUBSET (0..Len(table) + 1) /\ D # {} /\ Len(table) + 1 \in Nat
    OBVIOUS
  <2> HIDE DEF D
  <2> QED
    BY <2>1, Least
<1>2. m \in next..Len(table) + 1 /\ (m <= Len(table) => end < table[m][1])
  OBVIOUS
<1>3. \A i \in next..m - 1 : i <= Len(table) /\ table[i][1] <= end
  BY <1>t, <1>1
<1>4. \A j \in next..Len(table) : Max(Ends(j)) \in Ends(j) /\ Max(Ends(j)) \in Int /\ end <= Max(Ends(j))
  <2> SUFFICES ASSUME NEW j \in next..Len(table)
               PROVE  Max(Ends(j)) \in Ends(j) /\ Max(Ends(j)) \in Int /\ end <= Max(Ends(j))
    OBVIOUS
  <2>1. next..j - 1 \in SUBSET (1..Len(table))
    OBVIOUS
  <2>2. Max(Ends(j)) \in Ends(j) /\ Max(Ends(j)) \in Addresses /\ \A y \in Ends(j) : y <= Max(Ends(j))
    BY <2>1, Reaches
  <2>3. end \in Ends(j)
    OBVIOUS
  <2> HIDE DEF Ends
  <2> QED
    BY <2>2, <2>3, Sizes
<1>5. Swallowed(next, end) = {i \in next..Len(table) : \A j \in next..i : table[j][1] <= Max(Ends(j))}
  BY DEF Swallowed
<1>6. ASSUME NEW i \in next..m - 1 PROVE i \in Swallowed(next, end)
  <2>1. \A j \in next..i : table[j][1] <= Max(Ends(j))
    <3> SUFFICES ASSUME NEW j \in next..i PROVE table[j][1] <= Max(Ends(j))
      OBVIOUS
    <3>1. j \in next..Len(table) /\ j \in next..m - 1
      BY <1>2
    <3>2. table[j][1] <= end /\ end <= Max(Ends(j)) /\ Max(Ends(j)) \in Int
      BY <1>3, <1>4, <3>1
    <3> HIDE DEF Ends
    <3> QED
      BY <1>t, <3>1, <3>2
  <2>2. i \in next..Len(table)
    BY <1>2
  <2> QED
    BY <1>5, <2>1, <2>2
<1>7. ASSUME NEW i \in Swallowed(next, end), m <= i PROVE FALSE
  <2>1. i \in next..Len(table) /\ m \in next..i /\ table[m][1] <= Max(Ends(m))
    BY <1>2, <1>5, <1>7
  <2>2. /\ m \in next..Len(table) /\ m \in 1..Len(table) /\ end < table[m][1]
        /\ Max(Ends(m)) \in Ends(m)
    <3>1. m \in next..Len(table) /\ m \in 1..Len(table) /\ end < table[m][1]
      BY <1>2, <2>1
    <3> HIDE DEF Ends
    <3> QED
      BY <1>4, <3>1
  <2>3. \A k \in next..m - 1 : k \in 1..Len(table) /\ table[k][2] < table[m][1]
    BY <2>1, <2>2 DEF Sorted
  <2>4. \A y \in Ends(m) : y < table[m][1] /\ y \in Int
    BY <1>t, <2>2, <2>3
  <2>5. table[m][1] \in Int
    BY <1>t, <2>2
  <2> HIDE DEF Ends
  <2> QED
    BY <2>1, <2>2, <2>4, <2>5
<1>8. Swallowed(next, end) \subseteq next..m - 1
  <2>1. \A i \in Swallowed(next, end) : i \in next..Len(table)
    BY <1>5
  <2> QED
    BY <1>7, <2>1, <1>2
<1> QED
  BY <1>2, <1>3, <1>6, <1>8

LEMMA Concatenation ==
  ASSUME NEW S, NEW p \in Seq(S), NEW q \in Seq(S)
  PROVE  /\ p \o q \in Seq(S) /\ Len(p \o q) = Len(p) + Len(q)
         /\ \A i \in 1..Len(p) : (p \o q)[i] = p[i]
         /\ \A i \in 1..Len(q) : (p \o q)[Len(p) + i] = q[i]
OBVIOUS

\* u has record r in the place of the records of t from place `it` up to place m
Replaces(u, t, it, m, r) ==
  /\ u \in Seq(Records) /\ Len(u) = it + (Len(t) + 1 - m)
  /\ \A i \in 1..it - 1 : u[i] = t[i]
  /\ u[it] = r
  /\ \A i \in m..Len(t) : u[it + 1 + (i - m)] = t[i]

LEMMA Spliced ==
  ASSUME NEW t \in Seq(Records), NEW it \in 1..Len(t) + 1, NEW m \in it..Len(t) + 1,
         NEW r \in Records
  PROVE  Replaces(SubSeq(t, 1, it - 1) \o <<r>> \o SubSeq(t, m, Len(t)), t, it, m, r)
<1> DEFINE p == SubSeq(t, 1, it - 1)
           q == SubSeq(t, m, Len(t))
           o == p \o <<r>>
           u == o \o q
<1>1. p \in Seq(Records) /\ Len(p) = it - 1 /\ \A i \in 1..it - 1 : p[i] = t[i]
  OBVIOUS
<1>2. /\ q \in Seq(Records) /\ Len(q) = Len(t) + 1 - m
      /\ \A i \in 1..Len(t) + 1 - m : q[i] = t[m + i - 1]
  OBVIOUS
<1>3. <<r>> \in Seq(Records) /\ Len(<<r>>) = 1 /\ <<r>>[1] = r
  OBVIOUS
<1> HIDE DEF p, q
<1>4. /\ o \in Seq(Records) /\ Len(o) = it
      /\ \A i \in 1..it - 1 : o[i] = t[i]
      /\ o[it] = r
  <2>1. /\ o \in Seq(Records) /\ Len(o) = Len(p) + 1
        /\ \A i \in 1..Len(p) : o[i] = p[i]
        /\ o[Len(p) + 1] = r
    <3>1. \A i \in 1..Len(<<r>>) : o[Len(p) + i] = <<r>>[i]
      BY <1>1, <1>3, Concatenation
    <3>2. o \in Seq(Records) /\ Len(o) = Len(p) + 1 /\ \A i \in 1..Len(p) : o[i] = p[i]
      BY <1>1, <1>3, Concatenation
    <3> HIDE DEF o
    <3> QED
      BY <1>3, <3>1, <3>2
  <2> HIDE DEF o
  <2> QED
    BY <1>1, <2>1
<1> HIDE DEF o
<1>5. /\ u \in Seq(Records) /\ Len(u) = Len(o) + Len(q)
      /\ \A i \in 1..Len(o) : u[i] = o[i]
      /\ \A i \in 1..Len(q) : u[Len(o) + i] = q[i]
  <2>1. o \in Seq(Records) /\ q \in Seq(Records)
    BY <1>2, <1>4
  <2> QED
    BY <2>1, Concatenation
<1> HIDE DEF u
<1>6. Len(u) = it + (Len(t) + 1 - m)
  BY <1>2, <1>4, <1>5
<1>7. (\A i \in 1..it - 1 : u[i] = t[i]) /\ u[it] = r
  BY <1>4, <1>5
<1>8. ASSUME NEW i \in m..Len(t) PROVE u[it + 1 + (i - m)] = t[i]
  <2>1. i - m + 1 \in 1..Len(q) /\ i - m + 1 \in 1..Len(t) + 1 - m
    BY <1>2
  <2>2. u[it + (i - m + 1)] = t[m + (i - m + 1) - 1]
    BY <1>2, <1>4, <1>5, <2>1
  <2>3. it + (i - m + 1) = it + 1 + (i - m) /\ m + (i - m + 1) - 1 = i
    OBVIOUS
  <2> QED
    BY <2>2, <2>3
<1>9. Replaces(u, t, it, m, r)
  BY <1>5, <1>6, <1>7, <1>8 DEF Replaces
<1> QED
  BY <1>9 DEF u, o, p, q

\* where the places of the new table come from
LEMMA Places ==
  ASSUME NEW t \in Seq(Records), NEW it \in 1..Len(t) + 1, NEW m \in it..Len(t) + 1,
         NEW r, NEW u, Replaces(u, t, it, m, r), NEW i \in 1..Len(u)
  PROVE  \/ i < it /\ i \in 1..Len(t) /\ u[i] = t[i]
         \/ i = it /\ u[i] = r
         \/ \E k \in m..Len(t) : k \in 1..Len(t) /\ i = it + 1 + (k - m) /\ u[i] = t[k]
<1>1. CASE i < it
  <2>1. i \in 1..it - 1 /\ i \in 1..Len(t)
    BY <1>1
  <2>2. \A k \in 1..it - 1 : u[k] = t[k]
    BY DEF Replaces
  <2> QED
    BY <1>1, <2>1, <2>2, Zenon
<1>2. CASE i = it
  BY <1>2 DEF Replaces
<1>3. CASE i > it
  <2>1. i - it + m - 1 \in m..Len(t) /\ i = it + 1 + ((i - it + m - 1) - m)
    BY <1>3 DEF Replaces
  <2>2. u[it + 1 + ((i - it + m - 1) - m)] = t[i - it + m - 1]
    BY <2>1 DEF Replaces
  <2>3. i - it + m - 1 \in 1..Len(t)
    BY <2>1
  <2> QED
    BY <2>1, <2>2, <2>3
<1> QED
  BY <1>1, <1>2, <1>3

\* the table after a merge is sorted if the record leaves a gap on both sides
LEMMA SplicedSorted ==
  ASSUME NEW t \in Seq(Records), Sorted(t), NEW it \in 1..Len(t) + 1, NEW m \in it..Len(t) + 1,
         NEW b \in Addresses, NEW e \in Addresses, b < e,
         \A i \in 1..it - 1 : t[i][2] < b,
         m <= Len(t) => e < t[m][1],
         NEW r, r = <<b, e>>, NEW u, Replaces(u, t, it, m, r)
  PROVE  /\ Sorted(u)
         /\ \A a \in Addresses :
              Covers(u, a) <=> \/ b <= a /\ a < e
                               \/ \E i \in 1..Len(t) : (i < it \/ m <= i) /\ t[i][1] <= a /\ a < t[i][2]
<1>t. /\ b \in Int /\ e \in Int /\ r[1] = b /\ r[2] = e
      /\ \A i \in 1..Len(t) : t[i][1] \in Int /\ t[i][2] \in Int /\ t[i][1] < t[i][2]
  <2>1. b \in Int /\ e \in Int /\ r[1] = b /\ r[2] = e
    BY Sizes
  <2>2. \A i \in 1..Len(t) : t[i] \in Records
    OBVIOUS
  <2>3. \A i \in 1..Len(t) : t[i][1] \in Int /\ t[i][2] \in Int
    BY <2>2, Sizes DEF Records
  <2> QED
    BY <2>1, <2>3 DEF Sorted
<1>g. \A i, j \in 1..Len(t) : i < j => t[i][2] < t[j][1]
  BY DEF Sorted
<1>2. \A i \in 1..Len(u) :
        \/ i < it /\ i \in 1..Len(t) /\ u[i] = t[i]
        \/ i = it /\ u[i] = r
        \/ \E k \in m..Len(t) : k \in 1..Len(t) /\ i = it + 1 + (k - m) /\ u[i] = t[k]
  BY Places
<1>3. \A i \in 1..Len(t) : i < it => t[i][2] < b
  OBVIOUS
<1>4. \A i \in 1..Len(t) : m <= i => e < t[i][1]
  <2> SUFFICES ASSUME NEW i \in 1..Len(t), m <= i PROVE e < t[i][1]
    OBVIOUS
  <2>1. m \in 1..Len(t) /\ e < t[m][1] /\ t[m][1] < t[m][2]
    BY <1>t
  <2>2. i = m \/ t[m][2] < t[i][1]
    BY <2>1 DEF Sorted
  <2> QED
    BY <1>t, <2>1, <2>2
<1>5. \A i \in 1..Len(u) : u[i][1] < u[i][2]
  BY <1>2, <1>t
<1>6. ASSUME NEW i \in 1..Len(u), NEW j \in 1..Len(u), i < j PROVE u[i][2] < u[j][1]
  <2>1. CASE j < it
    <3>1. i \in 1..Len(t) /\ j \in 1..Len(t) /\ u[i] = t[i] /\ u[j] = t[j]
      BY <1>2, <1>6, <2>1
    <3> QED
      BY <1>6, <1>g, <3>1
  <2>2. CASE j = it
    <3>1. i \in 1..Len(t) /\ i < it /\ u[i] = t[i] /\ u[j] = r
      BY <1>2, <1>6, <2>2
    <3> QED
      BY <1>3, <1>t, <3>1
  <2>3. CASE it < j
    <3>1. PICK l \in m..Len(t) : l \in 1..Len(t) /\ j = it + 1 + (l - m) /\ u[j] = t[l]
      BY <1>2, <2>3
    <3>2. e < u[j][1] /\ u[j][1] \in Int
      BY <1>4, <1>t, <3>1
    <3>3. CASE i = it
      BY <1>2, <1>t, <3>2, <3>3
    <3>4. CASE i < it
      <4>1. i \in 1..Len(t) /\ u[i] = t[i]
        BY <1>2, <3>4
      <4>2. t[i][2] < b /\ t[i][2] \in Int
        BY <1>3, <1>t, <3>4, <4>1
      <4> QED
        BY <1>t, <3>2, <4>1, <4>2
    <3>5. CASE i > it
      <4>1. PICK k \in m..Len(t) : k \in 1..Len(t) /\ i = it + 1 + (k - m) /\ u[i] = t[k]
        BY <1>2, <3>5, SMTT(20)
      <4>2. k < l
        BY <1>6, <3>1, <4>1
      <4> QED
        BY <1>g, <3>1, <4>1, <4>2
    <3> QED
      BY <3>3, <3>4, <3>5
  <2> QED
    BY <2>1, <2>2, <2>3
<1>7. ASSUME NEW a \in Addresses, NEW i \in 1..Len(u), u[i][1] <= a, a < u[i][2]
      PROVE  \/ b <= a /\ a < e
             \/ \E k \in 1..Len(t) : (k < it \/ m <= k) /\ t[k][1] <= a /\ a < t[k][2]
  <2>1. CASE i < it
    BY <1>2, <1>7, <2>1, SMTT(20)
  <2>2. CASE i = it
    <3>1. u[i] = r
      BY <1>2, <2>2
    <3> QED
      BY <1>t, <1>7, <3>1
  <2>3. CASE it < i
    <3>1. PICK k \in m..Len(t) : k \in 1..Len(t) /\ u[i] = t[k]
      BY <1>2, <2>3
    <3> QED
      BY <1>7, <3>1
  <2> QED
    BY <2>1, <2>2, <2>3
<1>8. ASSUME NEW a \in Addresses, b <= a, a < e PROVE Covers(u, a)
  <2>1. it \in 1..Len(u) /\ u[it] = r
    BY DEF Replaces
  <2> QED
    BY <1>8, <1>t, <2>1 DEF Covers
<1>9. ASSUME NEW a \in Addresses, NEW i \in 1..Len(t), i < it \/ m <= i, t[i][1] <= a, a < t[i][2]
      PROVE  Covers(u, a)
  <2>1. CASE i < it
    <3>1. i \in 1..Len(u) /\ u[i] = t[i]
      BY <2>1 DEF Replaces
    <3> QED
      BY <1>9, <3>1 DEF Covers
  <2>2. CASE m <= i
    <3>1. it + 1 + (i - m) \in 1..Len(u) /\ u[it + 1 + (i - m)] = t[i]
      BY <2>2 DEF Replaces
    <3> QED
      BY <1>9, <3>1 DEF Covers
  <2> QED
    BY <1>9, <2>1, <2>2
<1> QED
  BY <1>5, <1>6, <1>7, <1>8, <1>9 DEF Sorted, Covers

-----------------------------------------------------------------------------
(***************************************************************************)
(* The parts of Insert: the record it looks at first, whether the line     *)
(* begins in that record or at its end, what is swallowed after it, and    *)
(* the record it puts there.                                               *)
(***************************************************************************)
Before(begin)     == (begin - 1) % Size
First(begin)      == UpperBound(Before(begin))
Left(begin)       == First(begin) <= Len(table) /\ table[First(begin)][1] <= Before(begin)
Beyond(begin)     == IF Left(begin) THEN First(begin) + 1 ELSE First(begin)
Taken(begin, end) == Swallowed(Beyond(begin), end)
From(begin)       == IF Left(begin) THEN table[First(begin)][1] ELSE begin
Until(begin, end) == Reach(end, Taken(begin, end))
Rest(begin, end)  == Beyond(begin) + Cardinality(Taken(begin, end))

LEMMA InsertIs ==
  ASSUME NEW begin, NEW end
  PROVE  Insert(begin, end) =
           IF Left(begin) /\ table[First(begin)][2] >= end THEN table
           ELSE SubSeq(table, 1, First(begin) - 1) \o <<<<From(begin), Until(begin, end)>>>>
                  \o SubSeq(table, Rest(begin, end), Len(table))
BY Zenon DEF Insert, Before, First, Left, Beyond, Taken, From, Until, Rest

LEMMA InsertParts ==
  ASSUME table \in Seq(Records), NEW begin \in Addresses, NEW end \in Addresses
  PROVE  /\ Before(begin) \in Int
         /\ First(begin) \in 1..Len(table) + 1 /\ Beyond(begin) \in First(begin)..Len(table) + 1
         /\ From(begin) \in Addresses /\ Until(begin, end) \in Addresses
         /\ Taken(begin, end) \subseteq Beyond(begin)..Len(table)
         /\ \A y \in Taken(begin, end) : table[y][2] <= Until(begin, end)
         /\ \/ Until(begin, end) = end
            \/ end <= Until(begin, end) /\ \E y \in Taken(begin, end) : Until(begin, end) = table[y][2]
<1>1. Before(begin) \in Int
  <2>1. \A w \in Nat \ {0}, a \in Int : a % w \in Int
    OBVIOUS
  <2>2. begin - 1 \in Int /\ Size \in Nat \ {0}
    BY Sizes
  <2> QED
    BY <2>1, <2>2 DEF Before
<1>2. First(begin) \in 1..Len(table) + 1
  BY <1>1, UpperBoundIs DEF First
<1>3. /\ Beyond(begin) \in First(begin)..Len(table) + 1 /\ Beyond(begin) \in 1..Len(table) + 1
      /\ Left(begin) => First(begin) \in 1..Len(table)
  BY <1>2 DEF Beyond, Left
<1>4. Taken(begin, end) \subseteq Beyond(begin)..Len(table) /\ Taken(begin, end) \in SUBSET (1..Len(table))
  <2>1. Taken(begin, end) \subseteq Beyond(begin)..Len(table)
    BY DEF Swallowed, Taken
  <2> QED
    BY <1>3, <2>1
<1>5. /\ Until(begin, end) \in {end} \cup {table[y][2] : y \in Taken(begin, end)}
      /\ Until(begin, end) \in Addresses
      /\ \A z \in {end} \cup {table[y][2] : y \in Taken(begin, end)} : z <= Until(begin, end)
  <2>1. Until(begin, end) = Max({end} \cup {table[y][2] : y \in Taken(begin, end)})
    BY DEF Reach, Until
  <2> QED
    BY <1>4, <2>1, Reaches, Zenon
<1>6. From(begin) \in Addresses
  <2>1. Left(begin) => table[First(begin)] \in Records
    BY <1>3
  <2> QED
    BY <2>1 DEF Records, From
<1>7. end <= Until(begin, end) /\ end \in Int /\ Until(begin, end) \in Int
  BY <1>5, Sizes
<1> QED
  BY <1>1, <1>2, <1>3, <1>4, <1>5, <1>6, <1>7

LEMMA InsertTyped ==
  ASSUME table \in Seq(Records), NEW begin \in Addresses, NEW end \in Addresses
  PROVE  Insert(begin, end) \in Seq(Records)
<1>1. /\ First(begin) \in 1..Len(table) + 1 /\ Beyond(begin) \in First(begin)..Len(table) + 1
      /\ From(begin) \in Addresses /\ Until(begin, end) \in Addresses
      /\ Taken(begin, end) \subseteq Beyond(begin)..Len(table)
  BY InsertParts
<1>2. Cardinality(Taken(begin, end)) \in Nat
  <2>1. IsFiniteSet(Beyond(begin)..Len(table))
    BY <1>1, FS_Interval
  <2> QED
    BY <1>1, <2>1, FS_Subset, FS_CardinalityType
<1>3. SubSeq(table, Rest(begin, end), Len(table)) \in Seq(Records)
  <2>1. Rest(begin, end) \in Nat /\ Rest(begin, end) >= 1
    BY <1>1, <1>2 DEF Rest
  <2> QED
    BY <2>1
<1>4. SubSeq(table, 1, First(begin) - 1) \in Seq(Records)
  BY <1>1
<1>5. <<<<From(begin), Until(begin, end)>>>> \in Seq(Records)
  BY <1>1 DEF Records
<1>6. SubSeq(table, 1, First(begin) - 1) \o <<<<From(begin), Until(begin, end)>>>>
        \o SubSeq(table, Rest(begin, end), Len(table)) \in Seq(Records)
  BY <1>3, <1>4, <1>5, Concatenation, Zenon
<1> QED
  BY <1>6, InsertIs, Zenon

\* A line leaves a sorted table that covers what it covered before, and the line.
LEMMA InsertKeeps ==
  ASSUME table \in Seq(Records), Sorted(table), NEW begin \in Addresses, NEW end \in Addresses,
         begin < end, begin # 0 \/ table = <<>>
  PROVE  /\ Sorted(Insert(begin, end))
         /\ \A a \in Addresses :
              Covers(Insert(begin, end), a) <=> Covers(table, a) \/ (begin <= a /\ a < end)
<1> DEFINE before == Before(begin)
           it     == First(begin)
           left   == Left(begin)
           next   == Beyond(begin)
           after  == Taken(begin, end)
           lower  == From(begin)
           reach  == Until(begin, end)
           rest   == Rest(begin, end)
<1>t. /\ begin \in Nat /\ end \in Nat /\ Addresses \subseteq Nat
      /\ \A i \in 1..Len(table) :
           table[i][1] \in Nat /\ table[i][2] \in Nat /\ table[i][1] < table[i][2]
  <2>1. \A i \in 1..Len(table) : table[i] \in Records
    OBVIOUS
  <2> QED
    BY <2>1, Sizes DEF Records, Sorted
<1>g. \A i, j \in 1..Len(table) : i < j => table[i][2] < table[j][1]
  BY DEF Sorted
<1>1. /\ before \in Int /\ it \in 1..Len(table) + 1 /\ next \in it..Len(table) + 1
      /\ lower \in Addresses /\ reach \in Addresses
      /\ \A y \in after : table[y][2] <= reach
      /\ reach = end \/ (end <= reach /\ \E y \in after : reach = table[y][2])
  BY InsertParts
<1>i. Insert(begin, end) =
        IF left /\ table[it][2] >= end THEN table
        ELSE SubSeq(table, 1, it - 1) \o <<<<lower, reach>>>> \o SubSeq(table, rest, Len(table))
  BY InsertIs
<1>2. /\ \A i \in 1..Len(table) : i < it => table[i][2] <= before
      /\ it <= Len(table) => before < table[it][2]
  BY <1>1, UpperBoundIs DEF First
<1>3. begin # 0 => before = begin - 1
  <2>1. \A w \in Nat \ {0} : \A a \in 0..w - 1 : a % w = a
    OBVIOUS
  <2>2. begin # 0 => begin - 1 \in 0..Size - 1
    BY Sizes
  <2> QED
    BY <2>1, <2>2, Sizes DEF Before
<1>4. PICK m \in next..Len(table) + 1 :
        /\ after = next..m - 1
        /\ \A i \in next..m - 1 : table[i][1] <= end
        /\ m <= Len(table) => end < table[m][1]
  <2>1. next \in 1..Len(table) + 1
    BY <1>1
  <2> QED
    BY <2>1, SwallowedIs DEF Taken
<1>l. left <=> (it <= Len(table) /\ table[it][1] <= before)
  BY DEF Left
<1>n. next = IF left THEN it + 1 ELSE it
  BY DEF Beyond
<1>s. lower = IF left THEN table[it][1] ELSE begin
  BY DEF From
<1>r. rest = next + Cardinality(after)
  BY DEF Rest
<1> HIDE DEF before, it, left, next, after, lower, reach, rest
<1>5. rest = m
  <2>1. Cardinality(next..m - 1) = m - next
    BY <1>1, <1>4, FS_Interval
  <2> QED
    BY <1>1, <1>4, <1>r, <2>1
<1>6. \A i \in 1..Len(table) : i < it => table[i][2] < begin
  <2> SUFFICES ASSUME NEW i \in 1..Len(table), i < it PROVE table[i][2] < begin
    OBVIOUS
  <2>1. table[i][2] <= before /\ table[i][2] \in Nat /\ begin \in Nat
    BY <1>2, <1>t
  <2>2. before = begin - 1
    BY <1>1, <1>3, <1>t
  <2> QED
    BY <2>1, <2>2
<1>7. it <= Len(table) => begin <= table[it][2] /\ (left <=> table[it][1] < begin)
  <2>1. it <= Len(table) => begin # 0
    BY <1>1
  <2> QED
    BY <1>1, <1>2, <1>3, <1>l, <1>t, <2>1
<1>8. CASE left /\ table[it][2] >= end
  <2>1. Insert(begin, end) = table
    BY <1>i, <1>8
  <2>2. it \in 1..Len(table) /\ table[it][1] < begin
    BY <1>1, <1>7, <1>8, <1>l
  <2>3. ASSUME NEW a \in Addresses, begin <= a, a < end PROVE Covers(table, a)
    <3>1. table[it][1] <= a /\ a < table[it][2]
      BY <1>8, <1>t, <2>2, <2>3
    <3> QED
      BY <2>2, <3>1 DEF Covers
  <2> QED
    BY <2>1, <2>3
<1>9. CASE ~(left /\ table[it][2] >= end)
  <2> DEFINE u == SubSeq(table, 1, it - 1) \o <<<<lower, reach>>>> \o SubSeq(table, m, Len(table))
  <2>1. Insert(begin, end) = u
    BY <1>i, <1>5, <1>9, Zenon
  <2>2. m \in it..Len(table) + 1
    BY <1>1, <1>4
  <2>3. Replaces(u, table, it, m, <<lower, reach>>)
    <3> DEFINE r == <<lower, reach>>
    <3>1. r \in Records
      BY <1>1 DEF Records
    <3> HIDE DEF r
    <3>2. Replaces(SubSeq(table, 1, it - 1) \o <<r>> \o SubSeq(table, m, Len(table)), table, it, m, r)
      BY <1>1, <2>2, <3>1, Spliced
    <3> QED
      BY <3>2 DEF r
  <2> HIDE DEF u
  <2>4. reach \in Nat /\ lower \in Nat /\ end <= reach
    BY <1>1, <1>t
  <2>5. lower <= begin
    BY <1>7, <1>l, <1>s, <1>t, <1>1
  <2>6. lower < reach
    BY <1>t, <2>4, <2>5
  <2>7. \A i \in 1..it - 1 : table[i][2] < lower
    <3>1. CASE left
      <4>1. it \in 1..Len(table) /\ lower = table[it][1]
        BY <1>1, <1>l, <1>s, <3>1
      <4> QED
        BY <1>g, <4>1
    <3>2. CASE ~left
      BY <1>1, <1>6, <1>s, <3>2
    <3> QED
      BY <3>1, <3>2
  <2>8. m <= Len(table) => reach < table[m][1]
    <3> SUFFICES ASSUME m <= Len(table) PROVE reach < table[m][1]
      OBVIOUS
    <3>1. m \in 1..Len(table) /\ end < table[m][1]
      BY <1>1, <1>4
    <3>2. \A y \in after : table[y][2] < table[m][1]
      BY <1>1, <1>4, <1>g, <3>1
    <3> QED
      BY <1>1, <3>1, <3>2
  <2>9. /\ Sorted(u)
        /\ \A a \in Addresses :
             Covers(u, a) <=> \/ lower <= a /\ a < reach
                              \/ \E i \in 1..Len(table) :
                                    (i < it \/ m <= i) /\ table[i][1] <= a /\ a < table[i][2]
    BY <1>1, <2>2, <2>3, <2>6, <2>7, <2>8, SplicedSorted
  <2>10. ASSUME NEW a \in Addresses, lower <= a, a < reach
         PROVE  Covers(table, a) \/ (begin <= a /\ a < end)
    <3>1. CASE a < begin
      <4>1. left /\ it \in 1..Len(table) /\ table[it][1] <= a /\ begin <= table[it][2]
        <5>1. left /\ it <= Len(table)
          BY <1>l, <1>s, <1>t, <2>10, <3>1
        <5>2. lower = table[it][1] /\ begin <= table[it][2]
          BY <1>7, <1>s, <5>1
        <5>3. it \in 1..Len(table)
          BY <1>1, <5>1
        <5> QED
          BY <2>10, <5>1, <5>2, <5>3
      <4>2. a < table[it][2]
        BY <1>t, <3>1, <4>1
      <4> QED
        BY <4>1, <4>2 DEF Covers
    <3>2. CASE end <= a
      <4>0. reach # end
        BY <1>t, <2>4, <2>10, <3>2
      <4>1. PICK y \in after : reach = table[y][2]
        BY <1>1, <4>0
      <4>2. y \in 1..Len(table) /\ table[y][1] <= end
        BY <1>1, <1>4, <4>1
      <4>3. table[y][1] <= a /\ a < table[y][2]
        BY <1>t, <2>10, <3>2, <4>1, <4>2
      <4> QED
        BY <4>2, <4>3 DEF Covers
    <3>3. a \in Nat
      BY <1>t, <2>10
    <3>4. a < begin \/ end <= a \/ (begin <= a /\ a < end)
      BY <1>t, <3>3
    <3> QED
      BY <3>1, <3>2, <3>4, Zenon
  <2>11. ASSUME NEW a \in Addresses, NEW i \in 1..Len(table), table[i][1] <= a, a < table[i][2],
                it <= i, i < m
         PROVE  lower <= a /\ a < reach
    <3>1. lower <= table[i][1]
      <4>1. CASE i = it
        BY <1>1, <1>7, <1>s, <1>t, <4>1
      <4>2. CASE it < i
        <5>1. it \in 1..Len(table) /\ table[it][2] < table[i][1] /\ table[it][1] < table[it][2]
          BY <1>1, <1>g, <1>t, <4>2
        <5>2. begin <= table[it][2]
          BY <1>7, <5>1
        <5> QED
          BY <1>s, <1>t, <5>1, <5>2
      <4> QED
        BY <1>1, <2>11, <4>1, <4>2
    <3>2. table[i][2] <= reach
      <4>1. CASE i = it /\ left
        BY <1>9, <1>t, <1>1, <2>4, <4>1
      <4>2. CASE ~(i = it /\ left)
        <5>1. i \in next..m - 1
          BY <1>1, <1>4, <1>n, <2>11, <4>2
        <5> QED
          BY <1>1, <1>4, <5>1
      <4> QED
        BY <4>1, <4>2
    <3> QED
      BY <1>t, <2>4, <2>11, <3>1, <3>2
  <2>12. \A a \in Addresses : begin <= a /\ a < end => lower <= a /\ a < reach
    BY <1>t, <2>4, <2>5
  <2>13. ASSUME NEW a \in Addresses
         PROVE  Covers(u, a) <=> Covers(table, a) \/ (begin <= a /\ a < end)
    <3>1. ASSUME Covers(u, a) PROVE Covers(table, a) \/ (begin <= a /\ a < end)
      BY <2>9, <2>10, <3>1 DEF Covers
    <3>2. ASSUME begin <= a, a < end PROVE Covers(u, a)
      BY <2>9, <2>12, <3>2
    <3>3. ASSUME Covers(table, a) PROVE Covers(u, a)
      <4>1. PICK i \in 1..Len(table) : table[i][1] <= a /\ a < table[i][2]
        BY <3>3 DEF Covers
      <4>2. CASE i < it \/ m <= i
        BY <2>9, <4>1, <4>2
      <4>3. CASE it <= i /\ i < m
        BY <2>9, <2>11, <4>1, <4>3
      <4> QED
        BY <1>1, <2>2, <4>2, <4>3
    <3> QED
      BY <3>1, <3>2, <3>3
  <2> QED
    BY <2>1, <2>9, <2>13
<1> QED
  BY <1>8, <1>9

\* A line that gives only its first address gives a range of addresses: the zeros that
\* the length is taken from leave room for it.
LEMMA DefaultLast ==
  ASSUME NEW begin \in Addresses
  PROVE  begin + DefaultLength(begin) - 1 \in Addresses /\ begin <= begin + DefaultLength(begin) - 1
<1> DEFINE o == OctetSize
<1>1. PICK n \in 0..Size : Size = (o * o) * n
  BY IPRangesAssumption DEF OctetSize, Size
<1>2. o \in Nat \ {0} /\ begin \in 0..Size - 1 /\ Size \in Nat \ {0} /\ n \in Nat
  BY <1>1, IPRangesAssumption, Sizes DEF OctetSize
<1>3. DefaultLength(begin) = IF begin % o # 0 THEN 1
                             ELSE IF (begin \div o) % o # 0 THEN o ELSE o * o
  BY DEF DefaultLength
<1> HIDE DEF o
<1>4. \A v \in Nat \ {0} : \A q \in Nat : q % v = 0 => q = v * (q \div v) /\ q \div v \in Nat
  OBVIOUS
<1>5. \A v, k, m \in Nat : v * k < v * m => v * k + v <= v * m
  <2> SUFFICES ASSUME NEW v \in Nat, NEW k \in Nat, NEW m \in Nat, v * k < v * m
               PROVE  v * k + v <= v * m
    OBVIOUS
  <2>1. k < m
    <3>1. k >= m => v * k >= v * m
      <4> SUFFICES ASSUME k >= m PROVE v * k >= v * m
        OBVIOUS
      <4>1. PICK d \in Nat : k = m + d
        <5>1. k - m \in Nat /\ k = m + (k - m)
          OBVIOUS
        <5> QED
          BY <5>1
      <4>2. v * k = v * m + v * d /\ v * d \in Nat /\ v * m \in Nat
        BY <4>1
      <4> QED
        BY <4>2
    <3> QED
      BY <3>1
  <2>2. PICK d \in Nat : m = k + 1 + d
    <3>1. m - (k + 1) \in Nat /\ m = k + 1 + (m - (k + 1))
      BY <2>1
    <3> QED
      BY <3>1
  <2>3. v * m = v * k + v + v * d /\ v * d \in Nat /\ v * k \in Nat
    BY <2>2
  <2> QED
    BY <2>3
<1>6. CASE begin % o # 0
  BY <1>2, <1>3, <1>6
<1>7. CASE begin % o = 0
  <2>1. PICK k \in Nat : k = begin \div o /\ begin = o * k
    BY <1>2, <1>4, <1>7
  <2>2. o * n \in Nat /\ Size = o * (o * n)
    BY <1>1, <1>2
  <2>3. begin + o <= Size
    <3>1. o * k < o * (o * n)
      BY <1>2, <2>1, <2>2
    <3>2. o * k + o <= o * (o * n)
      BY <1>2, <1>5, <2>2, <3>1
    <3> QED
      BY <2>1, <2>2, <3>2
  <2>4. CASE k % o # 0
    <3>1. DefaultLength(begin) = o
      BY <1>3, <1>7, <2>1, <2>4
    <3> QED
      BY <1>2, <2>3, <3>1, Sizes
  <2>5. CASE k % o = 0
    <3>1. DefaultLength(begin) = o * o
      BY <1>3, <1>7, <2>1, <2>5
    <3>2. PICK j \in Nat : k = o * j
      BY <1>2, <1>4, <2>5
    <3>3. o * o \in Nat /\ o * o >= 1 /\ begin = (o * o) * j
      BY <1>2, <2>1, <3>2
    <3>4. begin + o * o <= Size
      BY <1>1, <1>2, <1>5, <3>3
    <3> HIDE DEF o
    <3>5. \A x, s, l \in Nat : l >= 1 /\ x + l <= s => x + l - 1 \in 0..s - 1 /\ x <= x + l - 1
      OBVIOUS
    <3> QED
      BY <1>2, <3>1, <3>3, <3>4, <3>5, Sizes
  <2> QED
    BY <2>4, <2>5
<1> QED
  BY <1>6, <1>7

\* the end of a record: the address after the last, or 0 after the top address
LEMMA EndIs ==
  ASSUME NEW last \in Addresses
  PROVE  (last + 1) % Size = IF last = Size - 1 THEN 0 ELSE last + 1
<1>1. \A s \in Nat \ {0} : \A a \in 0..s - 1 : (a + 1) % s = IF a = s - 1 THEN 0 ELSE a + 1
  OBVIOUS
<1> QED
  BY <1>1, Sizes

\* one line of the file
LEMMA ReadLineKeeps ==
  ASSUME RangesInv, NEW begin \in Addresses, NEW last \in Addresses, ReadLine(begin, last)
  PROVE  RangesInv'
<1> DEFINE end == (last + 1) % Size
<1>1. /\ table \in Seq(Records) /\ file \subseteq Addresses \X Addresses /\ lines \in 0..MaxLines
      /\ ~misfit /\ lines < MaxLines /\ lines' = lines + 1
      /\ Sorted(table) /\ \A a \in Addresses : Covers(table, a) <=> InFile(file, a)
  BY DEF RangesInv, IPTypeOK, ReadLine, Records
<1>2. lines' \in 0..MaxLines
  BY <1>1, IPRangesAssumption
<1>3. begin \in 0..Size - 1 /\ last \in 0..Size - 1 /\ Size \in Nat \ {0}
  BY Sizes
<1>4. end \in Addresses /\ end = IF last = Size - 1 THEN 0 ELSE last + 1
  BY <1>3, EndIs, Sizes
<1>5. /\ file' = IF begin <= last THEN file \cup {<<begin, last>>} ELSE file
      /\ IF begin >= end THEN UNCHANGED <<table, misfit>>
         ELSE /\ table' = Insert(begin, end)
              /\ misfit' = (begin = 0 /\ table # <<>>)
  BY DEF ReadLine
<1> HIDE DEF end
<1>6. file' \subseteq Addresses \X Addresses
  BY <1>1, <1>5
<1>7. \A a \in Addresses : InFile(file', a) <=> InFile(file, a) \/ (begin < end /\ begin <= a /\ a < end)
  <2> SUFFICES ASSUME NEW a \in Addresses
               PROVE  InFile(file', a) <=> InFile(file, a) \/ (begin < end /\ begin <= a /\ a < end)
    OBVIOUS
  <2>1. a \in 0..Size - 1
    BY Sizes
  <2>2. CASE begin <= last
    <3>1. InFile(file', a) <=> InFile(file, a) \/ (begin <= a /\ a <= last /\ last # Size - 1)
      <4>1. file' = file \cup {<<begin, last>>}
        BY <1>5, <2>2
      <4>2. \A line \in file' : line \in file \/ line = <<begin, last>>
        BY <4>1
      <4>3. \A line \in file : line \in file'
        BY <4>1
      <4>4. <<begin, last>> \in file' /\ <<begin, last>>[1] = begin /\ <<begin, last>>[2] = last
        BY <4>1
      <4>5. ASSUME InFile(file', a) PROVE InFile(file, a) \/ (begin <= a /\ a <= last /\ last # Size - 1)
        BY <4>2, <4>4, <4>5, Zenon DEF InFile
      <4>6. ASSUME InFile(file, a) \/ (begin <= a /\ a <= last /\ last # Size - 1) PROVE InFile(file', a)
        BY <4>3, <4>4, <4>6, Zenon DEF InFile
      <4> QED
        BY <4>5, <4>6
    <3> QED
      BY <1>3, <1>4, <2>1, <2>2, <3>1
  <2>3. CASE ~(begin <= last)
    BY <1>3, <1>4, <1>5, <2>3
  <2> QED
    BY <2>2, <2>3
<1>8. (Sorted(table))' = Sorted(table') /\ \A a : (Covers(table, a))' = Covers(table', a)
  BY DEF Sorted, Covers
<1>9. \A a : (InFile(file, a))' = InFile(file', a)
  BY DEF InFile
<1>10. CASE begin >= end
  <2>1. UNCHANGED <<table, misfit>> /\ ~(begin < end)
    BY <1>3, <1>4, <1>5, <1>10
  <2>2. \A a \in Addresses : Covers(table', a) <=> InFile(file', a)
    BY <1>1, <1>7, <2>1
  <2>3. Sorted(table') /\ table' \in Seq(Records) /\ misfit' \in BOOLEAN
    <3>1. misfit \in BOOLEAN
      BY DEF RangesInv, IPTypeOK
    <3> QED
      BY <1>1, <2>1, <3>1, Zenon
  <2> QED
    BY <1>2, <1>6, <1>8, <1>9, <2>2, <2>3 DEF RangesInv, IPTypeOK, Records, Addresses, Size
<1>11. CASE ~(begin >= end)
  <2>1. begin < end /\ table' = Insert(begin, end) /\ misfit' = (begin = 0 /\ table # <<>>)
    BY <1>3, <1>4, <1>5, <1>11
  <2>2. table' \in Seq(Records) /\ misfit' \in BOOLEAN
    BY <1>1, <1>4, <2>1, InsertTyped
  <2>3. ASSUME ~misfit'
        PROVE  Sorted(table') /\ \A a \in Addresses : Covers(table', a) <=> InFile(file', a)
    <3>1. begin # 0 \/ table = <<>>
      BY <2>1, <2>3
    <3>2. /\ Sorted(Insert(begin, end))
          /\ \A a \in Addresses :
               Covers(Insert(begin, end), a) <=> Covers(table, a) \/ (begin <= a /\ a < end)
      BY <1>1, <1>4, <2>1, <3>1, InsertKeeps
    <3>3. \A a \in Addresses : InFile(file', a) <=> InFile(file, a) \/ (begin <= a /\ a < end)
      BY <1>7, <2>1
    <3> QED
      BY <1>1, <2>1, <3>2, <3>3
  <2> QED
    BY <1>2, <1>6, <1>8, <1>9, <2>2, <2>3 DEF RangesInv, IPTypeOK, Records, Addresses, Size
<1> QED
  BY <1>10, <1>11

LEMMA EmptyKeeps ==
  ASSUME NEW t, NEW f, t = <<>>, f = {}
  PROVE  /\ t \in Seq(Records) /\ f \subseteq Addresses \X Addresses /\ 0 \in 0..MaxLines
         /\ Sorted(t) /\ \A a \in Addresses : Covers(t, a) <=> InFile(f, a)
BY IPRangesAssumption DEF Sorted, Covers, InFile

\* The table is sorted with gaps and covers the addresses of the lines so far, but for
\* those that end at the top address, in whatever order the lines come and however they
\* overlap (CIPList::Load).
THEOREM RangesInvariant == IPSpec => []RangesInv
<1>1. IPInit => RangesInv
  <2> SUFFICES ASSUME IPInit PROVE RangesInv
    OBVIOUS
  <2>1. table = <<>> /\ file = {} /\ lines = 0 /\ misfit = FALSE
    BY DEF IPInit
  <2> QED
    BY <2>1, EmptyKeeps DEF RangesInv, IPTypeOK, Records
<1>2. RangesInv /\ [IPNext]_ipVars => RangesInv'
  <2> SUFFICES ASSUME RangesInv, [IPNext]_ipVars PROVE RangesInv'
    OBVIOUS
  <2>1. ASSUME NEW begin \in Addresses, ReadLine(begin, begin + DefaultLength(begin) - 1)
        PROVE  RangesInv'
    BY <2>1, DefaultLast, ReadLineKeeps
  <2>2. ASSUME NEW begin \in Addresses, NEW last \in Addresses, ReadLine(begin, last)
        PROVE  RangesInv'
    BY <2>2, ReadLineKeeps
  <2>3. CASE Reload
    <3>1. table' = <<>> /\ file' = {} /\ lines' = 0 /\ misfit' = FALSE
      BY <2>3 DEF Reload
    <3>2. /\ table' \in Seq(Records) /\ file' \subseteq Addresses \X Addresses
          /\ lines' \in 0..MaxLines
          /\ Sorted(table') /\ \A a \in Addresses : Covers(table', a) <=> InFile(file', a)
      BY <3>1, EmptyKeeps
    <3>3. (Sorted(table))' = Sorted(table') /\ \A a : (Covers(table, a))' = Covers(table', a)
      BY DEF Sorted, Covers
    <3>4. \A a : (InFile(file, a))' = InFile(file', a)
      BY DEF InFile
    <3> QED
      BY <3>1, <3>2, <3>3, <3>4 DEF RangesInv, IPTypeOK, Records, Addresses, Size
  <2>4. CASE UNCHANGED ipVars
    BY <2>4 DEF ipVars, RangesInv, IPTypeOK, Sorted, Covers, InFile
  <2> QED
    BY <2>1, <2>2, <2>3, <2>4 DEF IPNext
<1> QED
  BY <1>1, <1>2, PTL DEF IPSpec

\* IpExists finds exactly the addresses that some line of the file covers, for a file of
\* any length, in any order (IPList.cpp), with two exceptions: a line that ends at the top
\* address lists nothing, and after a range from address 0 that follows other lines
\* nothing is said.
THEOREM SearchMatchesFileHolds == IPSpec => []SearchMatchesFile
<1>1. RangesInv => SearchMatchesFile
  <2> SUFFICES ASSUME RangesInv, ~misfit
               PROVE  /\ \A i \in 1..Len(table) - 1 : table[i][2] < table[i + 1][1]
                      /\ \A a \in Addresses : IpExists(a) <=> a \in Covered
    BY DEF SearchMatchesFile
  <2>1. /\ table \in Seq(Records) /\ Sorted(table)
        /\ \A a \in Addresses : Covers(table, a) <=> a \in Covered
    BY DEF RangesInv, IPTypeOK, Records, InFile, Covered
  <2>2. \A i \in 1..Len(table) - 1 : table[i][2] < table[i + 1][1]
    <3>1. \A i \in 1..Len(table) - 1 : i \in 1..Len(table) /\ i + 1 \in 1..Len(table) /\ i < i + 1
      BY <2>1
    <3> QED
      BY <2>1, <3>1 DEF Sorted
  <2>3. \A a \in Addresses : IpExists(a) <=> Covers(table, a)
    BY <2>1, SearchFinds
  <2> QED
    BY <2>1, <2>2, <2>3
<1> QED
  BY RangesInvariant, <1>1, PTL

-----------------------------------------------------------------------------
(* Pools: where an object is *)

B2N(b) == IF b THEN 1 ELSE 0

Made == 0..created - 1

\* inside the lock of a slot
Inside(t) == plc[t] \in {"read", "pop", "leaveA", "link", "push", "leaveF"}

LockInv ==
  /\ \A t \in PoolThreads : Inside(t) => spin[slot[t]] = 1
  /\ \A t, u \in PoolThreads : Inside(t) /\ Inside(u) /\ slot[t] = slot[u] => t = u

HandInv ==
  /\ inUse \subseteq Made
  /\ \A t \in PoolThreads :
       /\ plc[t] \in {"idle", "enterA", "read", "new", "leaveF"} => obj[t] = NoObject
       /\ plc[t] \in {"pop", "enterF", "link", "push"} => obj[t] # NoObject
       /\ obj[t] # NoObject => obj[t] \in Made /\ obj[t] \notin inUse
       /\ plc[t] = "pop" => obj[t] = head[slot[t]]
       /\ plc[t] = "push" => link[obj[t]] = head[slot[t]]
  /\ \A t, u \in PoolThreads : obj[t] = obj[u] /\ obj[t] # NoObject => t = u

Popping(s) == \E t \in PoolThreads : plc[t] = "pop" /\ slot[t] = s

\* the first object in the list of slot s
FirstOf(s) == IF Popping(s) THEN link[head[s]] ELSE head[s]

At(q, i) == IF i \in 1..Len(q) THEN q[i] ELSE NoObject

(***************************************************************************)
(* L gives the list of every slot: the objects its links lead to.  Each    *)
(* object is in one list, once, or with one caller, or in one hand.        *)
(***************************************************************************)
ListInv(L) ==
  /\ \A s \in Slots : FirstOf(s) = At(L[s], 1)
  /\ \A s \in Slots : \A i \in 1..Len(L[s]) :
       /\ link[L[s][i]] = At(L[s], i + 1)
       /\ L[s][i] \in Made /\ L[s][i] \notin inUse
       /\ \A t \in PoolThreads : L[s][i] # obj[t]
  /\ \A s, r \in Slots : \A i \in 1..Len(L[s]), j \in 1..Len(L[r]) :
       L[s][i] = L[r][j] => s = r /\ i = j
  /\ \A o \in Made :
       \/ o \in inUse
       \/ \E t \in PoolThreads : obj[t] = o
       \/ \E s \in Slots : \E i \in 1..Len(L[s]) : L[s][i] = o

-----------------------------------------------------------------------------
(* How many objects there are *)

Allocating == {t \in PoolThreads : plc[t] \in {"enterA", "read", "pop", "leaveA", "new"}}
Freeing    == {t \in PoolThreads : plc[t] \in {"enterF", "link", "push", "leaveF"}}

\* calls that have drawn slot s and will make an object, may still take one, will put one there
Committed(s) == {t \in PoolThreads :
  slot[t] = s /\ (plc[t] = "new" \/ (plc[t] = "leaveA" /\ obj[t] = NoObject))}
Waiting(s) == {t \in PoolThreads :
  slot[t] = s /\ (plc[t] \in {"enterA", "read", "new"} \/ (plc[t] = "leaveA" /\ obj[t] = NoObject))}
Pending(s) == {t \in PoolThreads : slot[t] = s /\ plc[t] \in {"enterF", "link", "push"}}

\* the slots the counters have passed in this round
AllocRound == IF nAlloc = SlotCount - 1 THEN 0 ELSE nAlloc + 1
FreeRound  == IF nFree = 0 THEN 0 ELSE SlotCount - nFree

\* how many more calls of Alloc than of Free have drawn slot s; d is the difference of
\* the rounds
Ahead(d, s) == d + B2N(s < AllocRound) - B2N(nFree # 0 /\ nFree <= s)

(***************************************************************************)
(* c is the number of objects made for every slot.  A list is as long as   *)
(* the objects made for the slot, and those put there, exceed those taken. *)
(***************************************************************************)
CountInv(L, c, d) ==
  /\ \A s \in Slots :
       /\ Len(L[s]) + Ahead(d, s) + Cardinality(Pending(s)) = c[s] + Cardinality(Waiting(s))
       /\ c[s] + Cardinality(Committed(s)) <= MaxInUse
  /\ Cardinality(inUse) + Cardinality(Allocating) = d * SlotCount + AllocRound - FreeRound
  /\ Cardinality(inUse) + Cardinality(Allocating) + Cardinality(Freeing) <= MaxInUse

\* m gives every object a number of its own among those of the slot it was made for
MakerInv(c, m) ==
  /\ \A o \in Made : m[o][2] < c[m[o][1]]
  /\ \A o, n \in Made : m[o] = m[n] => o = n

Lists  == [Slots -> Seq(Nat)]
Counts == [Slots -> Nat]
Makers == [Made -> Slots \X Nat]

PoolsInv ==
  /\ PoolTypeOK /\ LockInv /\ HandInv
  /\ \E L \in Lists, c \in Counts, d \in Int, m \in Makers :
       ListInv(L) /\ CountInv(L, c, d) /\ MakerInv(c, m)

-----------------------------------------------------------------------------
(* Lemmas *)

LEMMA SlotFacts ==
  /\ SlotCount \in Nat \ {0} /\ MaxInUse \in Nat \ {0} /\ NoObject \notin Nat
  /\ MaxInUse * SlotCount \in Nat /\ Slots = 0..SlotCount - 1
  /\ Objects = 0..MaxInUse * SlotCount /\ NoObject \notin Objects /\ IsFiniteSet(PoolThreads)
BY PoolAssumption DEF Slots, Objects

\* a set that changes in one element
LEMMA OneElement ==
  ASSUME NEW S, NEW T, NEW x, IsFiniteSet(S), S \ {x} = T \ {x}
  PROVE  /\ IsFiniteSet(T) /\ Cardinality(S) \in Nat /\ Cardinality(T) \in Nat
         /\ Cardinality(T) = Cardinality(S) + B2N(x \in T) - B2N(x \in S)
<1>0. Cardinality(S) \in Nat
  BY FS_CardinalityType
<1>1. CASE x \in S /\ x \in T
  <2>1. S = T
    BY <1>1
  <2> QED
    BY <1>0, <1>1, <2>1 DEF B2N
<1>2. CASE x \in S /\ x \notin T
  <2>1. T = S \ {x}
    BY <1>2
  <2>2. Cardinality(T) \in Nat
    BY <2>1, FS_RemoveElement, FS_CardinalityType
  <2> QED
    BY <1>0, <1>2, <2>1, <2>2, FS_RemoveElement DEF B2N
<1>3. CASE x \notin S /\ x \in T
  <2>1. T = S \cup {x}
    BY <1>3
  <2> QED
    BY <1>0, <1>3, <2>1, FS_AddElement DEF B2N
<1>4. CASE x \notin S /\ x \notin T
  <2>1. S = T
    BY <1>4
  <2> QED
    BY <1>0, <1>4, <2>1 DEF B2N
<1> QED
  BY <1>1, <1>2, <1>3, <1>4

LEMMA FiniteThreads ==
  ASSUME NEW S \in SUBSET PoolThreads
  PROVE  IsFiniteSet(S) /\ Cardinality(S) \in Nat
BY SlotFacts, FS_Subset, FS_CardinalityType

\* the other threads stay where they are
Others(t) ==
  \A u \in PoolThreads : u # t => plc'[u] = plc[u] /\ slot'[u] = slot[u] /\ obj'[u] = obj[u]

\* what a step of one thread changes in the numbers of calls under way
LEMMA ThreadStep ==
  ASSUME NEW t \in PoolThreads, Others(t)
  PROVE  /\ Cardinality(Allocating)' = Cardinality(Allocating) + B2N(t \in Allocating') - B2N(t \in Allocating)
         /\ Cardinality(Freeing)' = Cardinality(Freeing) + B2N(t \in Freeing') - B2N(t \in Freeing)
         /\ \A s : /\ Cardinality(Pending(s))' = Cardinality(Pending(s)) + B2N(t \in Pending(s)') - B2N(t \in Pending(s))
                   /\ Cardinality(Waiting(s))' = Cardinality(Waiting(s)) + B2N(t \in Waiting(s)') - B2N(t \in Waiting(s))
                   /\ Cardinality(Committed(s))' = Cardinality(Committed(s)) + B2N(t \in Committed(s)') - B2N(t \in Committed(s))
<1>1. ASSUME NEW S \in SUBSET PoolThreads, NEW T \in SUBSET PoolThreads, S \ {t} = T \ {t}
      PROVE  Cardinality(T) = Cardinality(S) + B2N(t \in T) - B2N(t \in S)
  BY <1>1, FiniteThreads, OneElement
<1>2. /\ Allocating \in SUBSET PoolThreads /\ Allocating' \in SUBSET PoolThreads
      /\ Allocating \ {t} = Allocating' \ {t}
  BY DEF Allocating, Others
<1>3. /\ Freeing \in SUBSET PoolThreads /\ Freeing' \in SUBSET PoolThreads
      /\ Freeing \ {t} = Freeing' \ {t}
  BY DEF Freeing, Others
<1>4. ASSUME NEW s
      PROVE  /\ Pending(s) \in SUBSET PoolThreads /\ Pending(s)' \in SUBSET PoolThreads
             /\ Pending(s) \ {t} = Pending(s)' \ {t}
             /\ Waiting(s) \in SUBSET PoolThreads /\ Waiting(s)' \in SUBSET PoolThreads
             /\ Waiting(s) \ {t} = Waiting(s)' \ {t}
             /\ Committed(s) \in SUBSET PoolThreads /\ Committed(s)' \in SUBSET PoolThreads
             /\ Committed(s) \ {t} = Committed(s)' \ {t}
  BY DEF Pending, Waiting, Committed, Others
<1> QED
  BY <1>1, <1>2, <1>3, <1>4

\* the numbers are natural
LEMMA Numbers ==
  ASSUME PoolTypeOK, HandInv
  PROVE  /\ IsFiniteSet(inUse) /\ Cardinality(inUse) \in Nat
         /\ Cardinality(Allocating) \in Nat /\ Cardinality(Freeing) \in Nat
         /\ \A s : /\ Cardinality(Pending(s)) \in Nat /\ Cardinality(Waiting(s)) \in Nat
                   /\ Cardinality(Committed(s)) \in Nat
         /\ created \in Nat
         /\ AllocRound \in 0..SlotCount - 1 /\ FreeRound \in 0..SlotCount - 1
<1>1. IsFiniteSet(inUse) /\ Cardinality(inUse) \in Nat
  <2>1. IsFiniteSet(Made)
    BY FS_Interval DEF Made, PoolTypeOK
  <2> QED
    BY <2>1, FS_Subset, FS_CardinalityType DEF HandInv
<1>2. Allocating \in SUBSET PoolThreads /\ Freeing \in SUBSET PoolThreads
  BY DEF Allocating, Freeing
<1>3. \A s : /\ Pending(s) \in SUBSET PoolThreads /\ Waiting(s) \in SUBSET PoolThreads
             /\ Committed(s) \in SUBSET PoolThreads
  BY DEF Pending, Waiting, Committed
<1>4. AllocRound \in 0..SlotCount - 1 /\ FreeRound \in 0..SlotCount - 1
  BY SlotFacts DEF AllocRound, FreeRound, PoolTypeOK
<1> QED
  BY <1>1, <1>2, <1>3, <1>4, FiniteThreads DEF PoolTypeOK

\* No slot is more calls of Alloc ahead than there are objects wanted, if any is.
LEMMA AheadBound ==
  ASSUME PoolTypeOK, NEW d \in Int, NEW s \in Slots, NEW w \in Nat \ {0},
         w = d * SlotCount + AllocRound - FreeRound
  PROVE  Ahead(d, s) <= w
<1> DEFINE n == SlotCount
           p == AllocRound
           q == FreeRound
           P == B2N(s < p)
           Q == B2N(nFree # 0 /\ nFree <= s)
<1>1. n \in Nat \ {0} /\ p \in 0..n - 1 /\ q \in 0..n - 1 /\ s \in 0..n - 1
  BY SlotFacts DEF AllocRound, FreeRound, PoolTypeOK
<1>2. P \in {0, 1} /\ Q \in {0, 1} /\ (P = 1 => p >= 1)
  BY <1>1 DEF B2N
<1>3. Ahead(d, s) = d + P - Q
  BY DEF Ahead
<1> HIDE DEF n, p, q, P, Q
<1>4. w = d * n + p - q
  BY DEF n, p, q
<1>5. CASE d >= 2
  <2>1. d * n = (d - 1) * n + n
    BY <1>1
  <2>2. (d - 1) * n >= d - 1
    BY <1>1, <1>5
  <2>3. CASE n = 1
    BY <1>1, <1>2, <1>3, <1>4, <2>3
  <2>4. CASE n >= 2
    <3>1. (d - 1) * n >= (d - 1) * 2
      BY <1>1, <1>5, <2>4
    <3> QED
      BY <1>1, <1>2, <1>3, <1>4, <1>5, <2>1, <3>1
  <2> QED
    BY <1>1, <2>3, <2>4
<1>6. CASE d = 1
  BY <1>1, <1>2, <1>3, <1>4, <1>6
<1>7. CASE d = 0
  BY <1>1, <1>2, <1>3, <1>4, <1>7
<1>8. CASE d <= -1
  <2>1. d * n <= -n
    BY <1>1, <1>8
  <2> QED
    BY <1>1, <1>4, <2>1
<1> QED
  BY <1>5, <1>6, <1>7, <1>8

\* The names fit: the pool holds at most MaxInUse objects for every slot.
LEMMA Fits ==
  ASSUME PoolTypeOK, HandInv, NEW L \in Lists, NEW c \in Counts, NEW d \in Int, NEW m \in Makers,
         CountInv(L, c, d), MakerInv(c, m)
  PROVE  created <= MaxInUse * SlotCount
<1> DEFINE T == Slots \X (0..MaxInUse - 1)
<1>1. m \in [Made -> T]
  <2>1. \A o \in Made : m[o] \in Slots \X Nat
    BY DEF Makers
  <2>2. ASSUME NEW o \in Made PROVE m[o] \in T
    <3>1. m[o][1] \in Slots /\ m[o][2] \in Nat /\ m[o] = <<m[o][1], m[o][2]>>
      BY <2>1
    <3>2. m[o][2] < c[m[o][1]] /\ c[m[o][1]] \in Nat
      BY <3>1 DEF MakerInv, Counts
    <3>3. c[m[o][1]] + Cardinality(Committed(m[o][1])) <= MaxInUse /\ Cardinality(Committed(m[o][1])) \in Nat
      BY <3>1, Numbers DEF CountInv
    <3>4. m[o][2] \in 0..MaxInUse - 1
      BY <3>1, <3>2, <3>3, SlotFacts
    <3>5. <<m[o][1], m[o][2]>> \in T
      <4>1. \A a \in Slots, b \in 0..MaxInUse - 1 : <<a, b>> \in T
        OBVIOUS
      <4> HIDE DEF T
      <4> QED
        BY <3>1, <3>4, <4>1
    <3> QED
      BY <3>1, <3>5, Zenon
  <2>3. m = [o \in Made |-> m[o]]
    BY DEF Makers
  <2> QED
    BY <2>2, <2>3
<1>2. IsFiniteSet(T) /\ Cardinality(T) = SlotCount * MaxInUse
  <2>1. /\ IsFiniteSet(0..SlotCount - 1) /\ Cardinality(0..SlotCount - 1) = SlotCount
        /\ IsFiniteSet(0..MaxInUse - 1) /\ Cardinality(0..MaxInUse - 1) = MaxInUse
    <3>1. ASSUME NEW n \in Nat \ {0} PROVE IsFiniteSet(0..n - 1) /\ Cardinality(0..n - 1) = n
      BY FS_Interval
    <3> QED
      BY <3>1, SlotFacts
  <2>2. IsFiniteSet(Slots) /\ Cardinality(Slots) = SlotCount
    BY <2>1, SlotFacts
  <2>3. ASSUME NEW A, NEW B, IsFiniteSet(A), IsFiniteSet(B)
        PROVE  IsFiniteSet(A \X B) /\ Cardinality(A \X B) = Cardinality(A) * Cardinality(B)
    BY <2>3, FS_Product
  <2>4. IsFiniteSet(T) /\ Cardinality(T) = Cardinality(Slots) * Cardinality(0..MaxInUse - 1)
    BY <2>1, <2>2, <2>3
  <2> QED
    BY <2>1, <2>2, <2>4
<1>3. IsFiniteSet(Made) /\ Cardinality(Made) = created /\ created \in Nat
  BY FS_Interval DEF Made, PoolTypeOK
<1> HIDE DEF T
<1>4. ASSUME SlotCount * MaxInUse < created PROVE FALSE
  <2>1. \E o, n \in Made : o # n /\ m[o] = m[n]
    BY <1>1, <1>2, <1>3, <1>4, FS_PigeonHole
  <2> QED
    BY <2>1 DEF MakerInv
<1>5. SlotCount * MaxInUse = MaxInUse * SlotCount /\ SlotCount * MaxInUse \in Nat
  BY SlotFacts
<1> QED
  BY <1>3, <1>4, <1>5

\* the calls under way
LEMMA BusyCount ==
  ASSUME PoolTypeOK
  PROVE  Cardinality({u \in PoolThreads : plc[u] # "idle"}) = Cardinality(Allocating) + Cardinality(Freeing)
<1>1. {u \in PoolThreads : plc[u] # "idle"} = Allocating \cup Freeing
  BY DEF Allocating, Freeing, PoolTypeOK, PoolPCs
<1>2. Allocating \cap Freeing = {}
  BY DEF Allocating, Freeing
<1>3. /\ IsFiniteSet(Allocating) /\ Cardinality(Allocating) \in Nat
      /\ IsFiniteSet(Freeing) /\ Cardinality(Freeing) \in Nat
  BY FiniteThreads DEF Allocating, Freeing
<1> QED
  BY <1>1, <1>2, <1>3, FS_Union, FS_EmptySet

-----------------------------------------------------------------------------
(* The actions *)

\* thread t goes to label with slot s and object o in hand
Goes(t, label, s, o) == Others(t) /\ plc'[t] = label /\ slot'[t] = s /\ obj'[t] = o

LEMMA ThreadTypes ==
  ASSUME PoolTypeOK, NEW t \in PoolThreads
  PROVE  /\ slot[t] \in Slots /\ slot[t] \in Nat /\ obj[t] \in Objects \cup {NoObject}
         /\ head[slot[t]] \in Objects \cup {NoObject} /\ plc[t] \in PoolPCs
         /\ Slots \subseteq Nat /\ Objects \subseteq Nat
BY SlotFacts DEF PoolTypeOK

\* the parts that make the invariant again
LEMMA Concludes ==
  ASSUME PoolTypeOK', LockInv', HandInv', NEW L \in Lists, NEW c \in Counts, NEW d \in Int,
         NEW m, m \in Makers', ListInv(L)', CountInv(L, c, d)', MakerInv(c, m)'
  PROVE  PoolsInv'
BY DEF PoolsInv, Lists, Counts, Slots

\* an object that is made has a name of its own
LEMMA MadeNames ==
  ASSUME PoolTypeOK, HandInv, NEW L \in Lists, NEW c \in Counts, NEW d \in Int, NEW m \in Makers,
         CountInv(L, c, d), MakerInv(c, m)
  PROVE  Made \subseteq Objects /\ created \in Objects /\ created \notin Made /\ Made \subseteq Nat
<1>1. created <= MaxInUse * SlotCount
  BY Fits
<1> QED
  BY <1>1, SlotFacts DEF Made, PoolTypeOK

LEMMA LockStep ==
  ASSUME PoolTypeOK, LockInv, NEW t \in PoolThreads, Others(t), spin' = spin, slot'[t] = slot[t],
         Inside(t)' => Inside(t)
  PROVE  LockInv'
BY DEF LockInv, Inside, Others

\* a thread that leaves
LEMMA LeaveStep ==
  ASSUME PoolTypeOK, LockInv, NEW t \in PoolThreads, Others(t), Inside(t), ~Inside(t)',
         spin' = [spin EXCEPT ![slot[t]] = 0]
  PROVE  LockInv'
<1>1. \A s \in Slots : s # slot[t] => spin'[s] = spin[s]
  BY DEF PoolTypeOK
<1>2. \A u \in PoolThreads : slot[u] \in Slots /\ (u # t /\ Inside(u) => slot[u] # slot[t])
  BY DEF LockInv, PoolTypeOK
<1> QED
  BY <1>1, <1>2 DEF LockInv, Inside, Others

\* a thread that enters
LEMMA EnterStep ==
  ASSUME PoolTypeOK, LockInv, NEW t \in PoolThreads, Others(t), slot'[t] = slot[t],
         spin[slot[t]] = 0, spin' = [spin EXCEPT ![slot[t]] = 1]
  PROVE  LockInv'
<1>1. \A s \in Slots : spin'[s] = IF s = slot[t] THEN 1 ELSE spin[s]
  BY DEF PoolTypeOK
<1>2. \A u \in PoolThreads : slot[u] \in Slots /\ (Inside(u) => slot[u] # slot[t])
  BY DEF LockInv, PoolTypeOK
<1> QED
  BY <1>1, <1>2 DEF LockInv, Inside, Others

\* what is in the lists is not touched
LEMMA ListsStay ==
  ASSUME NEW t \in PoolThreads, Others(t), obj' = obj, plc[t] # "pop", plc'[t] # "pop",
         UNCHANGED <<head, link, inUse, created>>, NEW L \in Lists, ListInv(L)
  PROVE  ListInv(L)'
<1>1. \A s \in Slots : Popping(s)' <=> Popping(s)
  BY DEF Popping, Others
<1>2. \A s \in Slots : FirstOf(s)' = FirstOf(s)
  BY <1>1 DEF FirstOf
<1> QED
  BY <1>2 DEF ListInv, Made, At, Slots

LEMMA MakersStay ==
  ASSUME created' = created, NEW c \in Counts, NEW m \in Makers, MakerInv(c, m)
  PROVE  m \in Makers' /\ MakerInv(c, m)'
BY DEF MakerInv, Makers, Made, Slots

\* HandInv for a thread whose object stays in its hand
LEMMA HandStep ==
  ASSUME HandInv, NEW t \in PoolThreads, Others(t), obj' = obj, slot'[t] = slot[t] \/ plc'[t] = "enterA",
         UNCHANGED <<head, link, inUse, created>>,
         plc'[t] \in {"idle", "enterA", "read", "new", "leaveF"} => obj[t] = NoObject,
         plc'[t] \in {"enterF", "link"} => obj[t] # NoObject, plc'[t] \notin {"pop", "push"}
  PROVE  HandInv'
BY DEF HandInv, Others, Made

LEMMA AllocTicketKeeps ==
  ASSUME PoolsInv, NEW t \in PoolThreads, AllocTicket(t)
  PROVE  PoolsInv'
<1>1. PICK L \in Lists, c \in Counts, d \in Int, m \in Makers :
        ListInv(L) /\ CountInv(L, c, d) /\ MakerInv(c, m)
  BY DEF PoolsInv
<1>2. PoolTypeOK /\ LockInv /\ HandInv
  BY DEF PoolsInv
<1>3. nAlloc' = AllocRound
  <2>1. \A n \in Nat \ {0} : \A a \in 0..n - 1 : (a + 1) % n = IF a = n - 1 THEN 0 ELSE a + 1
    <3> SUFFICES ASSUME NEW n \in Nat \ {0}, NEW a \in 0..n - 1
                 PROVE  (a + 1) % n = IF a = n - 1 THEN 0 ELSE a + 1
      OBVIOUS
    <3>1. CASE a = n - 1
      BY <3>1
    <3>2. CASE a # n - 1
      BY <3>2
    <3> QED
      BY <3>1, <3>2
  <2>2. nAlloc' = (nAlloc + 1) % SlotCount /\ nAlloc \in 0..SlotCount - 1 /\ SlotCount \in Nat \ {0}
    BY <1>2, SlotFacts DEF AllocTicket, PoolTypeOK
  <2> QED
    BY <2>1, <2>2 DEF AllocRound
<1>4. AllocRound \in Slots /\ FreeRound \in 0..SlotCount - 1
  BY <1>2, Numbers, SlotFacts
<1>5. /\ Goes(t, "enterA", AllocRound, NoObject) /\ plc[t] = "idle" /\ obj' = obj /\ obj[t] = NoObject
      /\ UNCHANGED <<nFree, head, link, spin, created, inUse>>
      /\ plc' \in [PoolThreads -> PoolPCs] /\ slot' \in [PoolThreads -> Slots]
  BY <1>2, <1>3, <1>4 DEF AllocTicket, PoolGoto, Goes, Others, PoolTypeOK, HandInv, PoolPCs
<1>6. Others(t)
  BY <1>5 DEF Goes
<1>7. PoolTypeOK'
  BY <1>2, <1>3, <1>4, <1>5 DEF PoolTypeOK, Slots, Objects
<1>8. LockInv'
  BY <1>2, <1>5 DEF LockInv, Inside, Goes, Others
<1>9. HandInv'
  BY <1>2, <1>5, <1>6, HandStep DEF Goes
<1>10. ListInv(L)'
  BY <1>1, <1>5, <1>6, ListsStay DEF Goes
<1>11. PICK f \in Int :
         /\ \A s \in Slots : Ahead(f, s)' = Ahead(d, s) + B2N(s = AllocRound)
         /\ f * SlotCount + AllocRound' - FreeRound' = d * SlotCount + AllocRound - FreeRound + 1
  <2>1. nFree' = nFree /\ FreeRound' = FreeRound /\ SlotCount \in Nat \ {0} /\ Slots = 0..SlotCount - 1
    BY <1>5, SlotFacts DEF FreeRound
  <2>2. CASE AllocRound = SlotCount - 1
    <3>1. AllocRound' = 0
      BY <1>3, <2>2 DEF AllocRound
    <3>2. \A s \in Slots : Ahead(d + 1, s)' = Ahead(d, s) + B2N(s = AllocRound)
      BY <1>4, <2>1, <2>2, <3>1 DEF Ahead, B2N
    <3>3. (d + 1) * SlotCount = d * SlotCount + SlotCount
      BY <2>1
    <3>4. d * SlotCount \in Int
      BY <2>1
    <3>5. (d + 1) * SlotCount + AllocRound' - FreeRound' = d * SlotCount + AllocRound - FreeRound + 1
      BY <1>4, <2>1, <2>2, <3>1, <3>3, <3>4
    <3> QED
      BY <3>2, <3>5
  <2>3. CASE AllocRound # SlotCount - 1
    <3>1. AllocRound' = AllocRound + 1
      BY <1>3, <2>3 DEF AllocRound
    <3>2. \A s \in Slots : Ahead(d, s)' = Ahead(d, s) + B2N(s = AllocRound)
      BY <1>4, <2>1, <2>3, <3>1 DEF Ahead, B2N
    <3>4. d * SlotCount \in Int
      BY <2>1
    <3>5. d * SlotCount + AllocRound' - FreeRound' = d * SlotCount + AllocRound - FreeRound + 1
      BY <1>4, <2>1, <3>1, <3>4
    <3> QED
      BY <3>2, <3>5
  <2> QED
    BY <2>2, <2>3
<1>12. /\ t \notin Allocating /\ t \in Allocating' /\ t \notin Freeing /\ t \notin Freeing'
       /\ \A s : /\ t \notin Pending(s) /\ t \notin Pending(s)' /\ t \notin Waiting(s)
                 /\ t \in Waiting(s)' <=> s = AllocRound
                 /\ t \notin Committed(s) /\ t \notin Committed(s)'
  BY <1>5 DEF Goes, Allocating, Freeing, Pending, Waiting, Committed
<1>13. /\ Cardinality(Allocating)' = Cardinality(Allocating) + 1
       /\ Cardinality(Freeing)' = Cardinality(Freeing)
       /\ \A s : /\ Cardinality(Pending(s))' = Cardinality(Pending(s))
                 /\ Cardinality(Waiting(s))' = Cardinality(Waiting(s)) + B2N(s = AllocRound)
                 /\ Cardinality(Committed(s))' = Cardinality(Committed(s))
  BY <1>2, <1>6, <1>12, ThreadStep, Numbers DEF B2N
<1>14. Cardinality(inUse) + Cardinality(Allocating) + Cardinality(Freeing) < MaxInUse
  <2>1. Cardinality(inUse) + Cardinality({u \in PoolThreads : plc[u] # "idle"}) < MaxInUse
    BY DEF AllocTicket
  <2> QED
    BY <1>2, <2>1, BusyCount, Numbers
<1>15. CountInv(L, c, f)'
  <2>1. \A s \in Slots : Len(L[s]) \in Nat /\ c[s] \in Nat /\ Ahead(d, s) \in Int
    BY <1>4 DEF Lists, Counts, Ahead, B2N
  <2>2. inUse' = inUse
    BY <1>5
  <2>3. ASSUME NEW s \in Slots
        PROVE  /\ Len(L[s]) + Ahead(f, s)' + Cardinality(Pending(s))' = c[s] + Cardinality(Waiting(s))'
               /\ c[s] + Cardinality(Committed(s))' <= MaxInUse
    <3>1. /\ Len(L[s]) + Ahead(d, s) + Cardinality(Pending(s)) = c[s] + Cardinality(Waiting(s))
          /\ c[s] + Cardinality(Committed(s)) <= MaxInUse
      BY <1>1 DEF CountInv
    <3>2. Cardinality(Pending(s)) \in Nat /\ Cardinality(Waiting(s)) \in Nat
      BY <1>2, Numbers
    <3>3. B2N(s = AllocRound) \in Int
      BY DEF B2N
    <3>4. Ahead(f, s)' = Ahead(d, s) + B2N(s = AllocRound)
      BY <1>11
    <3>5. /\ Cardinality(Pending(s))' = Cardinality(Pending(s))
          /\ Cardinality(Waiting(s))' = Cardinality(Waiting(s)) + B2N(s = AllocRound)
          /\ Cardinality(Committed(s))' = Cardinality(Committed(s))
      BY <1>13
    <3>6. Len(L[s]) \in Nat /\ c[s] \in Nat /\ Ahead(d, s) \in Int
      BY <2>1
    <3>7. c[s] + Cardinality(Committed(s))' <= MaxInUse
      BY <3>1, <3>5
    <3>8. Ahead(f, s)' \in Int
      BY <3>3, <3>4, <3>6
    <3>9. Cardinality(Pending(s))' \in Int /\ Cardinality(Waiting(s))' \in Int
      BY <3>2, <3>3, <3>5
    <3>10. Len(L[s]) + Ahead(f, s)' + Cardinality(Pending(s))'
             = Len(L[s]) + (Ahead(d, s) + B2N(s = AllocRound)) + Cardinality(Pending(s))
      BY <3>4, <3>5
    <3>11. @ = c[s] + (Cardinality(Waiting(s)) + B2N(s = AllocRound))
      <4>1. Len(L[s]) + (Ahead(d, s) + B2N(s = AllocRound)) + Cardinality(Pending(s))
              = (Len(L[s]) + Ahead(d, s) + Cardinality(Pending(s))) + B2N(s = AllocRound)
        BY <3>2, <3>3, <3>6
      <4>2. c[s] + (Cardinality(Waiting(s)) + B2N(s = AllocRound))
              = (c[s] + Cardinality(Waiting(s))) + B2N(s = AllocRound)
        BY <3>2, <3>3, <3>6
      <4> QED
        BY <3>1, <4>1, <4>2, Zenon
    <3>12. @ = c[s] + Cardinality(Waiting(s))'
      BY <3>5
    <3> QED
      BY <3>7, <3>10, <3>11, <3>12
  <2>4. /\ Cardinality(inUse)' + Cardinality(Allocating)' = f * SlotCount + AllocRound' - FreeRound'
        /\ Cardinality(inUse)' + Cardinality(Allocating)' + Cardinality(Freeing)' <= MaxInUse
    <3>1. Cardinality(inUse) + Cardinality(Allocating) = d * SlotCount + AllocRound - FreeRound
      BY <1>1 DEF CountInv
    <3>2. /\ Cardinality(inUse) \in Nat /\ Cardinality(Allocating) \in Nat /\ MaxInUse \in Nat
          /\ Cardinality(Freeing) \in Nat
      BY <1>2, Numbers, SlotFacts
    <3>3. Cardinality(inUse)' = Cardinality(inUse)
      BY <2>2
    <3> QED
      BY <1>11, <1>13, <1>14, <3>1, <3>2, <3>3
  <2> QED
    BY <2>3, <2>4 DEF CountInv, Slots
<1>16. m \in Makers' /\ MakerInv(c, m)'
  BY <1>1, <1>5, MakersStay
<1> QED
  BY <1>7, <1>8, <1>9, <1>10, <1>15, <1>16, Concludes

\* a step that leaves the numbers of every slot alone
LEMMA CountsStay ==
  ASSUME PoolTypeOK, HandInv, NEW L \in Lists, NEW c \in Counts, NEW d \in Int, CountInv(L, c, d),
         UNCHANGED <<nAlloc, nFree>>,
         \A s : /\ Cardinality(Pending(s))' = Cardinality(Pending(s))
                /\ Cardinality(Waiting(s))' = Cardinality(Waiting(s))
                /\ Cardinality(Committed(s))' = Cardinality(Committed(s)),
         Cardinality(inUse)' + Cardinality(Allocating)' = Cardinality(inUse) + Cardinality(Allocating),
         Cardinality(Freeing)' \in Nat, Cardinality(Freeing)' <= Cardinality(Freeing)
  PROVE  CountInv(L, c, d)'
<1>1. AllocRound' = AllocRound /\ FreeRound' = FreeRound /\ \A s : Ahead(d, s)' = Ahead(d, s)
  BY DEF AllocRound, FreeRound, Ahead
<1>2. ASSUME NEW s \in Slots
      PROVE  /\ Len(L[s]) + Ahead(d, s)' + Cardinality(Pending(s))' = c[s] + Cardinality(Waiting(s))'
             /\ c[s] + Cardinality(Committed(s))' <= MaxInUse
  <2>1. /\ Len(L[s]) + Ahead(d, s) + Cardinality(Pending(s)) = c[s] + Cardinality(Waiting(s))
        /\ c[s] + Cardinality(Committed(s)) <= MaxInUse
    BY DEF CountInv
  <2> QED
    BY <1>1, <2>1
<1>3. /\ Cardinality(inUse)' + Cardinality(Allocating)' = d * SlotCount + AllocRound' - FreeRound'
      /\ Cardinality(inUse)' + Cardinality(Allocating)' + Cardinality(Freeing)' <= MaxInUse
  <2>1. /\ Cardinality(inUse) + Cardinality(Allocating) = d * SlotCount + AllocRound - FreeRound
        /\ Cardinality(inUse) + Cardinality(Allocating) + Cardinality(Freeing) <= MaxInUse
    BY DEF CountInv
  <2>2. /\ Cardinality(inUse) \in Nat /\ Cardinality(Allocating) \in Nat /\ Cardinality(Freeing) \in Nat
        /\ MaxInUse \in Nat
    BY Numbers, SlotFacts
  <2> QED
    BY <1>1, <2>1, <2>2
<1> QED
  BY <1>2, <1>3 DEF CountInv, Slots

LEMMA SpinEnterKeeps ==
  ASSUME PoolsInv, NEW t \in PoolThreads,
         SpinEnter(t, "enterA", "read") \/ SpinEnter(t, "enterF", "link")
  PROVE  PoolsInv'
<1>1. PICK L \in Lists, c \in Counts, d \in Int, m \in Makers :
        ListInv(L) /\ CountInv(L, c, d) /\ MakerInv(c, m)
  BY DEF PoolsInv
<1>2. PoolTypeOK /\ LockInv /\ HandInv
  BY DEF PoolsInv
<1>3. /\ Others(t) /\ slot' = slot /\ obj' = obj
      /\ \/ plc[t] = "enterA" /\ plc'[t] = "read"
         \/ plc[t] = "enterF" /\ plc'[t] = "link"
      /\ spin[slot[t]] = 0 /\ spin' = [spin EXCEPT ![slot[t]] = 1]
      /\ UNCHANGED <<nAlloc, nFree, head, link, created, inUse>>
      /\ plc' \in [PoolThreads -> PoolPCs]
  BY <1>2 DEF SpinEnter, PoolGoto, Others, PoolTypeOK, PoolPCs
<1>4. PoolTypeOK'
  BY <1>2, <1>3 DEF PoolTypeOK, Slots, Objects
<1>5. LockInv'
  BY <1>2, <1>3, EnterStep
<1>6. HandInv'
  <2>1. /\ plc[t] = "enterA" => obj[t] = NoObject
        /\ plc[t] = "enterF" => obj[t] # NoObject
    BY <1>2 DEF HandInv
  <2> QED
    BY <1>2, <1>3, <2>1, HandStep
<1>7. ListInv(L)'
  BY <1>1, <1>3, ListsStay
<1>8. CountInv(L, c, d)'
  <2>1. /\ t \in Allocating' <=> t \in Allocating
        /\ t \in Freeing' <=> t \in Freeing
        /\ \A s : /\ t \in Pending(s)' <=> t \in Pending(s)
                  /\ t \in Waiting(s)' <=> t \in Waiting(s)
                  /\ t \in Committed(s)' <=> t \in Committed(s)
    BY <1>3 DEF Allocating, Freeing, Pending, Waiting, Committed
  <2>2. /\ Cardinality(Allocating)' = Cardinality(Allocating)
        /\ Cardinality(Freeing)' = Cardinality(Freeing)
        /\ \A s : /\ Cardinality(Pending(s))' = Cardinality(Pending(s))
                  /\ Cardinality(Waiting(s))' = Cardinality(Waiting(s))
                  /\ Cardinality(Committed(s))' = Cardinality(Committed(s))
    BY <1>2, <1>3, <2>1, ThreadStep, Numbers DEF B2N
  <2> QED
    BY <1>1, <1>2, <1>3, <2>2, CountsStay, Numbers
<1>9. m \in Makers' /\ MakerInv(c, m)'
  BY <1>1, <1>3, MakersStay
<1> QED
  BY <1>4, <1>5, <1>6, <1>7, <1>8, <1>9, Concludes

LEMMA PopKeeps ==
  ASSUME PoolsInv, NEW t \in PoolThreads, Pop(t)
  PROVE  PoolsInv'
<1>1. PICK L \in Lists, c \in Counts, d \in Int, m \in Makers :
        ListInv(L) /\ CountInv(L, c, d) /\ MakerInv(c, m)
  BY DEF PoolsInv
<1>2. PoolTypeOK /\ LockInv /\ HandInv
  BY DEF PoolsInv
<1>t. slot[t] \in Slots /\ obj[t] \in Objects /\ link[obj[t]] \in Objects \cup {NoObject}
  BY <1>2 DEF Pop, HandInv, PoolTypeOK
<1>3. /\ Others(t) /\ slot' = slot /\ obj' = obj
      /\ plc[t] = "pop" /\ plc'[t] = "leaveA" /\ obj[t] # NoObject /\ obj[t] = head[slot[t]]
      /\ \A s \in Slots : head'[s] = IF s = slot[t] THEN link[obj[t]] ELSE head[s]
      /\ UNCHANGED <<nAlloc, nFree, link, spin, created, inUse>>
      /\ plc' \in [PoolThreads -> PoolPCs] /\ head' \in [Slots -> Objects \cup {NoObject}]
  BY <1>2, <1>t DEF Pop, PoolGoto, Others, PoolTypeOK, PoolPCs, HandInv
<1>4. PoolTypeOK'
  BY <1>2, <1>3 DEF PoolTypeOK, Slots, Objects
<1>5. LockInv'
  BY <1>2, <1>3, LockStep DEF Inside
<1>a. \A u \in PoolThreads : u # t /\ plc[u] \in {"pop", "push"} => slot[u] # slot[t] /\ slot[u] \in Slots
  BY <1>2, <1>3 DEF LockInv, Inside, PoolTypeOK
<1>6. HandInv'
  BY <1>2, <1>3, <1>a DEF HandInv, Others, Made
<1>7. ListInv(L)'
  <2>1. \A s \in Slots : FirstOf(s)' = FirstOf(s)
    <3> SUFFICES ASSUME NEW s \in Slots PROVE FirstOf(s)' = FirstOf(s)
      OBVIOUS
    <3>1. CASE s = slot[t]
      <4>1. Popping(s) /\ ~Popping(s)'
        BY <1>3, <1>a, <3>1 DEF Popping, Others
      <4> QED
        BY <1>3, <3>1, <4>1 DEF FirstOf
    <3>2. CASE s # slot[t]
      <4>1. Popping(s)' <=> Popping(s)
        BY <1>3, <3>2 DEF Popping, Others
      <4> QED
        BY <1>3, <3>2, <4>1 DEF FirstOf
    <3> QED
      BY <3>1, <3>2
  <2> QED
    BY <1>1, <1>3, <2>1 DEF ListInv, Made, At, Slots
<1>8. CountInv(L, c, d)'
  <2>1. /\ t \in Allocating' <=> t \in Allocating
        /\ t \in Freeing' <=> t \in Freeing
        /\ \A s : /\ t \in Pending(s)' <=> t \in Pending(s)
                  /\ t \in Waiting(s)' <=> t \in Waiting(s)
                  /\ t \in Committed(s)' <=> t \in Committed(s)
    BY <1>3 DEF Allocating, Freeing, Pending, Waiting, Committed
  <2>2. /\ Cardinality(Allocating)' = Cardinality(Allocating)
        /\ Cardinality(Freeing)' = Cardinality(Freeing)
        /\ \A s : /\ Cardinality(Pending(s))' = Cardinality(Pending(s))
                  /\ Cardinality(Waiting(s))' = Cardinality(Waiting(s))
                  /\ Cardinality(Committed(s))' = Cardinality(Committed(s))
    BY <1>2, <1>3, <2>1, ThreadStep, Numbers DEF B2N
  <2> QED
    BY <1>1, <1>2, <1>3, <2>2, CountsStay, Numbers
<1>9. m \in Makers' /\ MakerInv(c, m)'
  BY <1>1, <1>3, MakersStay
<1> QED
  BY <1>4, <1>5, <1>6, <1>7, <1>8, <1>9, Concludes

LEMMA LinkObjectKeeps ==
  ASSUME PoolsInv, NEW t \in PoolThreads, LinkObject(t)
  PROVE  PoolsInv'
<1>1. PICK L \in Lists, c \in Counts, d \in Int, m \in Makers :
        ListInv(L) /\ CountInv(L, c, d) /\ MakerInv(c, m)
  BY DEF PoolsInv
<1>2. PoolTypeOK /\ LockInv /\ HandInv
  BY DEF PoolsInv
<1>t. slot[t] \in Slots /\ obj[t] \in Objects /\ head[slot[t]] \in Objects \cup {NoObject}
  BY <1>2 DEF LinkObject, HandInv, PoolTypeOK
<1>3. /\ Others(t) /\ slot' = slot /\ obj' = obj
      /\ plc[t] = "link" /\ plc'[t] = "push" /\ obj[t] # NoObject
      /\ \A o : o # obj[t] => link'[o] = link[o]
      /\ link'[obj[t]] = head[slot[t]]
      /\ UNCHANGED <<nAlloc, nFree, head, spin, created, inUse>>
      /\ plc' \in [PoolThreads -> PoolPCs] /\ link' \in [Objects -> Objects \cup {NoObject}]
  <2>1. \A o : o # obj[t] => link'[o] = link[o]
    BY <1>2 DEF LinkObject, PoolTypeOK
  <2> QED
    BY <1>2, <1>t, <2>1 DEF LinkObject, PoolGoto, Others, PoolTypeOK, PoolPCs, HandInv
<1>4. PoolTypeOK'
  BY <1>2, <1>3 DEF PoolTypeOK, Slots, Objects
<1>5. LockInv'
  BY <1>2, <1>3, LockStep DEF Inside
<1>a. \A u \in PoolThreads : u # t => obj[u] # obj[t]
  BY <1>2, <1>3 DEF HandInv
<1>6. HandInv'
  BY <1>2, <1>3, <1>a DEF HandInv, Others, Made
<1>7. ListInv(L)'
  <2>1. \A s \in Slots : FirstOf(s)' = FirstOf(s)
    <3> SUFFICES ASSUME NEW s \in Slots PROVE FirstOf(s)' = FirstOf(s)
      OBVIOUS
    <3>1. Popping(s)' <=> Popping(s)
      BY <1>3 DEF Popping, Others
    <3>2. Popping(s) => head[s] # obj[t]
      BY <1>2, <1>3, <1>a DEF Popping, HandInv
    <3> QED
      BY <1>3, <3>1, <3>2 DEF FirstOf
  <2>2. ASSUME NEW s \in Slots, NEW i \in 1..Len(L[s])
        PROVE  /\ link'[L[s][i]] = At(L[s], i + 1)
               /\ L[s][i] \in Made' /\ L[s][i] \notin inUse'
               /\ \A u \in PoolThreads : L[s][i] # obj'[u]
    <3>1. /\ link[L[s][i]] = At(L[s], i + 1)
          /\ L[s][i] \in Made /\ L[s][i] \notin inUse
          /\ \A u \in PoolThreads : L[s][i] # obj[u]
      BY <1>1 DEF ListInv
    <3> QED
      BY <1>3, <3>1 DEF Made
  <2>3. Made' = Made /\ inUse' = inUse /\ obj' = obj
    BY <1>3 DEF Made
  <2>4. /\ \A s, r \in Slots : \A i \in 1..Len(L[s]), j \in 1..Len(L[r]) :
             L[s][i] = L[r][j] => s = r /\ i = j
        /\ \A o \in Made : \/ o \in inUse
                           \/ \E u \in PoolThreads : obj[u] = o
                           \/ \E s \in Slots : \E i \in 1..Len(L[s]) : L[s][i] = o
        /\ \A s \in Slots : FirstOf(s)' = At(L[s], 1)
    BY <1>1, <2>1 DEF ListInv
  <2> QED
    BY <2>2, <2>3, <2>4 DEF ListInv, At, Slots
<1>8. CountInv(L, c, d)'
  <2>1. /\ t \in Allocating' <=> t \in Allocating
        /\ t \in Freeing' <=> t \in Freeing
        /\ \A s : /\ t \in Pending(s)' <=> t \in Pending(s)
                  /\ t \in Waiting(s)' <=> t \in Waiting(s)
                  /\ t \in Committed(s)' <=> t \in Committed(s)
    BY <1>3 DEF Allocating, Freeing, Pending, Waiting, Committed
  <2>2. /\ Cardinality(Allocating)' = Cardinality(Allocating)
        /\ Cardinality(Freeing)' = Cardinality(Freeing)
        /\ \A s : /\ Cardinality(Pending(s))' = Cardinality(Pending(s))
                  /\ Cardinality(Waiting(s))' = Cardinality(Waiting(s))
                  /\ Cardinality(Committed(s))' = Cardinality(Committed(s))
    BY <1>2, <1>3, <2>1, ThreadStep, Numbers DEF B2N
  <2> QED
    BY <1>1, <1>2, <1>3, <2>2, CountsStay, Numbers
<1>9. m \in Makers' /\ MakerInv(c, m)'
  BY <1>1, <1>3, MakersStay
<1> QED
  BY <1>4, <1>5, <1>6, <1>7, <1>8, <1>9, Concludes

LEMMA LeaveFreeKeeps ==
  ASSUME PoolsInv, NEW t \in PoolThreads, LeaveFree(t)
  PROVE  PoolsInv'
<1>1. PICK L \in Lists, c \in Counts, d \in Int, m \in Makers :
        ListInv(L) /\ CountInv(L, c, d) /\ MakerInv(c, m)
  BY DEF PoolsInv
<1>2. PoolTypeOK /\ LockInv /\ HandInv
  BY DEF PoolsInv
<1>3. /\ Others(t) /\ slot' = slot /\ obj' = obj
      /\ plc[t] = "leaveF" /\ plc'[t] = "idle" /\ obj[t] = NoObject
      /\ spin' = [spin EXCEPT ![slot[t]] = 0]
      /\ UNCHANGED <<nAlloc, nFree, head, link, created, inUse>>
      /\ plc' \in [PoolThreads -> PoolPCs]
  BY <1>2 DEF LeaveFree, PoolGoto, Others, PoolTypeOK, PoolPCs, HandInv
<1>4. PoolTypeOK'
  BY <1>2, <1>3 DEF PoolTypeOK, Slots, Objects
<1>5. LockInv'
  BY <1>2, <1>3, LeaveStep DEF Inside
<1>6. HandInv'
  BY <1>2, <1>3, HandStep
<1>7. ListInv(L)'
  BY <1>1, <1>3, ListsStay
<1>8. CountInv(L, c, d)'
  <2>1. /\ t \in Allocating' <=> t \in Allocating
        /\ t \notin Freeing' /\ t \in Freeing
        /\ \A s : /\ t \in Pending(s)' <=> t \in Pending(s)
                  /\ t \in Waiting(s)' <=> t \in Waiting(s)
                  /\ t \in Committed(s)' <=> t \in Committed(s)
    BY <1>3 DEF Allocating, Freeing, Pending, Waiting, Committed
  <2>2. /\ Cardinality(Allocating)' = Cardinality(Allocating)
        /\ Cardinality(Freeing)' = Cardinality(Freeing) - 1
        /\ \A s : /\ Cardinality(Pending(s))' = Cardinality(Pending(s))
                  /\ Cardinality(Waiting(s))' = Cardinality(Waiting(s))
                  /\ Cardinality(Committed(s))' = Cardinality(Committed(s))
    BY <1>2, <1>3, <2>1, ThreadStep, Numbers DEF B2N
  <2>3. Cardinality(Freeing) \in Nat /\ Cardinality(Freeing)' \in Nat
    <3>1. Freeing \in SUBSET PoolThreads /\ Freeing' \in SUBSET PoolThreads
      BY DEF Freeing
    <3> QED
      BY <3>1, FiniteThreads
  <2> QED
    BY <1>1, <1>2, <1>3, <2>2, <2>3, CountsStay
<1>9. m \in Makers' /\ MakerInv(c, m)'
  BY <1>1, <1>3, MakersStay
<1> QED
  BY <1>4, <1>5, <1>6, <1>7, <1>8, <1>9, Concludes

LEMMA LeaveAllocKeeps ==
  ASSUME PoolsInv, NEW t \in PoolThreads, LeaveAlloc(t)
  PROVE  PoolsInv'
<1>1. PICK L \in Lists, c \in Counts, d \in Int, m \in Makers :
        ListInv(L) /\ CountInv(L, c, d) /\ MakerInv(c, m)
  BY DEF PoolsInv
<1>2. PoolTypeOK /\ LockInv /\ HandInv
  BY DEF PoolsInv
<1>9. m \in Makers' /\ MakerInv(c, m)'
  BY <1>1, MakersStay DEF LeaveAlloc
<1>10. CASE obj[t] = NoObject
  <2>3. /\ Others(t) /\ slot' = slot /\ obj' = obj
        /\ plc[t] = "leaveA" /\ plc'[t] = "new"
        /\ spin' = [spin EXCEPT ![slot[t]] = 0]
        /\ UNCHANGED <<nAlloc, nFree, head, link, created, inUse>>
        /\ plc' \in [PoolThreads -> PoolPCs]
    BY <1>2, <1>10 DEF LeaveAlloc, PoolGoto, Others, PoolTypeOK, PoolPCs
  <2>4. PoolTypeOK'
    BY <1>2, <2>3 DEF PoolTypeOK, Slots, Objects
  <2>5. LockInv'
    BY <1>2, <2>3, LeaveStep DEF Inside
  <2>6. HandInv'
    BY <1>2, <1>10, <2>3, HandStep
  <2>7. ListInv(L)'
    BY <1>1, <2>3, ListsStay
  <2>8. CountInv(L, c, d)'
    <3>1. /\ t \in Allocating' <=> t \in Allocating
          /\ t \in Freeing' <=> t \in Freeing
          /\ \A s : /\ t \in Pending(s)' <=> t \in Pending(s)
                    /\ t \in Waiting(s)' <=> t \in Waiting(s)
                    /\ t \in Committed(s)' <=> t \in Committed(s)
      BY <1>10, <2>3 DEF Allocating, Freeing, Pending, Waiting, Committed
    <3>2. /\ Cardinality(Allocating)' = Cardinality(Allocating)
          /\ Cardinality(Freeing)' = Cardinality(Freeing)
          /\ \A s : /\ Cardinality(Pending(s))' = Cardinality(Pending(s))
                    /\ Cardinality(Waiting(s))' = Cardinality(Waiting(s))
                    /\ Cardinality(Committed(s))' = Cardinality(Committed(s))
      BY <1>2, <2>3, <3>1, ThreadStep, Numbers DEF B2N
    <3> QED
      BY <1>1, <1>2, <2>3, <3>2, CountsStay, Numbers
  <2> QED
    BY <1>9, <2>4, <2>5, <2>6, <2>7, <2>8, Concludes
<1>11. CASE obj[t] # NoObject
  <2>t. obj[t] \in Objects /\ obj[t] \in Made /\ obj[t] \notin inUse /\ Made \subseteq Nat
    BY <1>2, <1>11 DEF PoolTypeOK, HandInv, Made
  <2>3. /\ Others(t) /\ slot' = slot /\ obj'[t] = NoObject
        /\ plc[t] = "leaveA" /\ plc'[t] = "idle"
        /\ spin' = [spin EXCEPT ![slot[t]] = 0]
        /\ inUse' = inUse \cup {obj[t]}
        /\ \A o : o # obj[t] => link'[o] = link[o]
        /\ UNCHANGED <<nAlloc, nFree, head, created>>
        /\ plc' \in [PoolThreads -> PoolPCs] /\ obj' \in [PoolThreads -> Objects \cup {NoObject}]
        /\ link' \in [Objects -> Objects \cup {NoObject}]
    <3>1. HandOut(t, obj[t]) /\ PoolGoto(t, "idle")
      BY <1>11 DEF LeaveAlloc
    <3>2. /\ plc[t] = "leaveA" /\ spin' = [spin EXCEPT ![slot[t]] = 0]
          /\ UNCHANGED <<nAlloc, nFree, head, created, slot>>
      BY DEF LeaveAlloc
    <3>3. \A o : o # obj[t] => link'[o] = link[o]
      BY <1>2, <3>1 DEF HandOut, PoolTypeOK
    <3>4. link' \in [Objects -> Objects \cup {NoObject}] /\ inUse' = inUse \cup {obj[t]}
      BY <1>2, <2>t, <3>1 DEF HandOut, PoolTypeOK
    <3>5. /\ Others(t) /\ obj'[t] = NoObject /\ plc'[t] = "idle"
          /\ plc' \in [PoolThreads -> PoolPCs] /\ obj' \in [PoolThreads -> Objects \cup {NoObject}]
      BY <1>2, <3>1, <3>2 DEF HandOut, PoolGoto, Others, PoolTypeOK, PoolPCs
    <3> QED
      BY <3>2, <3>3, <3>4, <3>5
  <2>4. PoolTypeOK'
    BY <1>2, <2>t, <2>3 DEF PoolTypeOK, Slots, Objects
  <2>5. LockInv'
    BY <1>2, <2>3, LeaveStep DEF Inside
  <2>a. \A u \in PoolThreads : u # t => obj[u] # obj[t]
    BY <1>2, <1>11 DEF HandInv
  <2>6. HandInv'
    <3>1. inUse' \subseteq Made' /\ Made' = Made
      BY <1>2, <2>t, <2>3 DEF HandInv, Made
    <3>2. ASSUME NEW u \in PoolThreads, u # t
          PROVE  /\ plc'[u] = plc[u] /\ obj'[u] = obj[u] /\ slot'[u] = slot[u] /\ obj[u] # obj[t]
                 /\ obj'[u] \notin {obj[t]}
                 /\ link'[obj[u]] = link[obj[u]]
      BY <2>3, <2>a, <3>2 DEF Others
    <3>3. ASSUME NEW u \in PoolThreads
          PROVE  /\ plc'[u] \in {"idle", "enterA", "read", "new", "leaveF"} => obj'[u] = NoObject
                 /\ plc'[u] \in {"pop", "enterF", "link", "push"} => obj'[u] # NoObject
                 /\ obj'[u] # NoObject => obj'[u] \in Made' /\ obj'[u] \notin inUse'
                 /\ plc'[u] = "pop" => obj'[u] = head'[slot'[u]]
                 /\ plc'[u] = "push" => link'[obj'[u]] = head'[slot'[u]]
      <4>1. CASE u = t
        BY <2>3, <4>1
      <4>2. CASE u # t
        BY <1>2, <2>3, <3>1, <3>2, <4>2 DEF HandInv
      <4> QED
        BY <4>1, <4>2
    <3>4. \A u, v \in PoolThreads : obj'[u] = obj'[v] /\ obj'[u] # NoObject => u = v
      BY <1>2, <2>3, <3>2 DEF HandInv
    <3> QED
      BY <3>1, <3>3, <3>4 DEF HandInv
  <2>7. ListInv(L)'
    <3>1. \A s \in Slots : FirstOf(s)' = FirstOf(s)
      <4> SUFFICES ASSUME NEW s \in Slots PROVE FirstOf(s)' = FirstOf(s)
        OBVIOUS
      <4>1. Popping(s)' <=> Popping(s)
        BY <2>3 DEF Popping, Others
      <4>2. Popping(s) => head[s] # obj[t]
        BY <1>2, <2>3, <2>a DEF Popping, HandInv
      <4> QED
        BY <2>3, <4>1, <4>2 DEF FirstOf
    <3>2. ASSUME NEW s \in Slots, NEW i \in 1..Len(L[s])
          PROVE  /\ link'[L[s][i]] = link[L[s][i]] /\ L[s][i] \in Made
                 /\ L[s][i] # obj[t] /\ L[s][i] # NoObject
      <4>1. L[s][i] \in Made /\ L[s][i] # obj[t]
        BY <1>1 DEF ListInv
      <4>2. L[s][i] # NoObject
        BY <2>t, <4>1, SlotFacts
      <4> QED
        BY <2>3, <4>1, <4>2
    <3>3. \A s \in Slots : \A i \in 1..Len(L[s]) :
            /\ link'[L[s][i]] = At(L[s], i + 1)
            /\ L[s][i] \in Made' /\ L[s][i] \notin inUse'
            /\ \A u \in PoolThreads : L[s][i] # obj'[u]
      BY <1>1, <2>3, <3>2, SMTT(20) DEF ListInv, Others, Made
    <3>4. \A o \in Made' : \/ o \in inUse'
                           \/ \E u \in PoolThreads : obj'[u] = o
                           \/ \E s \in Slots : \E i \in 1..Len(L[s]) : L[s][i] = o
      <4> SUFFICES ASSUME NEW o \in Made
                   PROVE  \/ o \in inUse'
                          \/ \E u \in PoolThreads : obj'[u] = o
                          \/ \E s \in Slots : \E i \in 1..Len(L[s]) : L[s][i] = o
        BY <2>3 DEF Made
      <4> QED
        BY <1>1, <2>3 DEF ListInv, Others
    <3> QED
      BY <1>1, <3>1, <3>3, <3>4 DEF ListInv, At, Slots
  <2>8. CountInv(L, c, d)'
    <3>1. /\ t \notin Allocating' /\ t \in Allocating
          /\ t \in Freeing' <=> t \in Freeing
          /\ \A s : /\ t \in Pending(s)' <=> t \in Pending(s)
                    /\ t \in Waiting(s)' <=> t \in Waiting(s)
                    /\ t \in Committed(s)' <=> t \in Committed(s)
      BY <1>11, <2>3 DEF Allocating, Freeing, Pending, Waiting, Committed
    <3>2. /\ Cardinality(Allocating)' = Cardinality(Allocating) - 1
          /\ Cardinality(Freeing)' = Cardinality(Freeing)
          /\ \A s : /\ Cardinality(Pending(s))' = Cardinality(Pending(s))
                    /\ Cardinality(Waiting(s))' = Cardinality(Waiting(s))
                    /\ Cardinality(Committed(s))' = Cardinality(Committed(s))
      BY <1>2, <2>3, <3>1, ThreadStep, Numbers DEF B2N
    <3>3. Cardinality(inUse)' = Cardinality(inUse) + 1
      BY <1>2, <2>t, <2>3, Numbers, FS_AddElement
    <3>4. Cardinality(inUse)' + Cardinality(Allocating)' = Cardinality(inUse) + Cardinality(Allocating)
      <4>1. Cardinality(inUse) \in Nat /\ Cardinality(Allocating) \in Nat
        BY <1>2, Numbers
      <4> QED
        BY <3>2, <3>3, <4>1
    <3>5. Cardinality(Freeing)' \in Nat /\ Cardinality(Freeing)' <= Cardinality(Freeing)
      <4>1. Cardinality(Freeing) \in Nat
        BY <1>2, Numbers
      <4> QED
        BY <3>2, <4>1
    <3>6. UNCHANGED <<nAlloc, nFree>>
      BY <2>3
    <3>7. \A s : /\ Cardinality(Pending(s))' = Cardinality(Pending(s))
                 /\ Cardinality(Waiting(s))' = Cardinality(Waiting(s))
                 /\ Cardinality(Committed(s))' = Cardinality(Committed(s))
      BY <3>2
    <3> QED
      BY <1>1, <1>2, <3>4, <3>5, <3>6, <3>7, CountsStay
  <2> QED
    BY <1>9, <2>4, <2>5, <2>6, <2>7, <2>8, Concludes
<1> QED
  BY <1>10, <1>11

LEMMA NewKeeps ==
  ASSUME PoolsInv, NEW t \in PoolThreads, New(t)
  PROVE  PoolsInv'
<1>1. PICK L \in Lists, c \in Counts, d \in Int, m \in Makers :
        ListInv(L) /\ CountInv(L, c, d) /\ MakerInv(c, m)
  BY DEF PoolsInv
<1>2. PoolTypeOK /\ LockInv /\ HandInv
  BY DEF PoolsInv
<1>t. created \in Objects /\ created \notin Made /\ Made \subseteq Nat /\ created \in Nat /\ slot[t] \in Slots
  BY <1>1, <1>2, MadeNames DEF PoolTypeOK
<1>3. /\ Others(t) /\ slot' = slot /\ obj' = obj /\ obj[t] = NoObject
      /\ plc[t] = "new" /\ plc'[t] = "idle" /\ created' = created + 1
      /\ inUse' = inUse \cup {created}
      /\ \A o : o # created => link'[o] = link[o]
      /\ UNCHANGED <<nAlloc, nFree, head, spin>>
      /\ plc' \in [PoolThreads -> PoolPCs] /\ link' \in [Objects -> Objects \cup {NoObject}]
  <2>1. \A o : o # created => link'[o] = link[o]
    BY <1>2 DEF New, HandOut, PoolTypeOK
  <2>2. obj[t] = NoObject
    BY <1>2 DEF New, HandInv
  <2> QED
    BY <1>2, <1>t, <2>1, <2>2 DEF New, HandOut, PoolGoto, Others, PoolTypeOK, PoolPCs
<1>m. \A o : o \in Made' <=> o \in Made \/ o = created
  BY <1>3, <1>t DEF Made
<1>4. PoolTypeOK'
  BY <1>2, <1>3, <1>t DEF PoolTypeOK, Slots, Objects
<1>5. LockInv'
  BY <1>2, <1>3, LockStep DEF Inside
<1>6. HandInv'
  <2>1. \A u \in PoolThreads : obj[u] # created
    BY <1>2, <1>t, SlotFacts DEF HandInv
  <2>2. inUse' \subseteq Made'
    BY <1>2, <1>3, <1>m DEF HandInv
  <2> QED
    BY <1>2, <1>3, <1>m, <2>1, <2>2 DEF HandInv, Others
<1>7. ListInv(L)'
  <2>1. \A s \in Slots : FirstOf(s)' = FirstOf(s)
    <3> SUFFICES ASSUME NEW s \in Slots PROVE FirstOf(s)' = FirstOf(s)
      OBVIOUS
    <3>1. Popping(s)' <=> Popping(s)
      BY <1>3 DEF Popping, Others
    <3>2. Popping(s) => head[s] # created
      BY <1>2, <1>t DEF Popping, HandInv
    <3> QED
      BY <1>3, <3>1, <3>2 DEF FirstOf
  <2>2. \A s \in Slots : \A i \in 1..Len(L[s]) :
          /\ link'[L[s][i]] = At(L[s], i + 1)
          /\ L[s][i] \in Made' /\ L[s][i] \notin inUse'
          /\ \A u \in PoolThreads : L[s][i] # obj'[u]
    <3>1. \A s \in Slots : \A i \in 1..Len(L[s]) :
            L[s][i] \in Made /\ L[s][i] # created /\ link'[L[s][i]] = link[L[s][i]]
      BY <1>1, <1>t, <1>3 DEF ListInv
    <3> QED
      BY <1>1, <1>3, <1>m, <3>1 DEF ListInv
  <2>3. \A o \in Made' : \/ o \in inUse'
                         \/ \E u \in PoolThreads : obj'[u] = o
                         \/ \E s \in Slots : \E i \in 1..Len(L[s]) : L[s][i] = o
    BY <1>1, <1>3, <1>m DEF ListInv
  <2> QED
    BY <1>1, <2>1, <2>2, <2>3 DEF ListInv, At, Slots
<1> DEFINE k == slot[t]
<1>8. PICK e \in Counts : \A s \in Slots : e[s] = IF s = k THEN c[s] + 1 ELSE c[s]
  <2>1. [s \in Slots |-> IF s = k THEN c[s] + 1 ELSE c[s]] \in Counts
    BY DEF Counts
  <2> QED
    BY <2>1
<1>9. /\ Cardinality(Allocating)' = Cardinality(Allocating) - 1
      /\ Cardinality(Freeing)' = Cardinality(Freeing)
      /\ \A s : Cardinality(Pending(s))' = Cardinality(Pending(s))
      /\ \A s : Cardinality(Waiting(s))' =
           IF s = k THEN Cardinality(Waiting(s)) - 1 ELSE Cardinality(Waiting(s))
      /\ \A s : Cardinality(Committed(s))' =
           IF s = k THEN Cardinality(Committed(s)) - 1 ELSE Cardinality(Committed(s))
  <2>1. /\ t \notin Allocating' /\ t \in Allocating /\ t \notin Freeing' /\ t \notin Freeing
        /\ \A s : /\ t \notin Pending(s)' /\ t \notin Pending(s)
                  /\ t \notin Waiting(s)' /\ (t \in Waiting(s) <=> s = k)
                  /\ t \notin Committed(s)' /\ (t \in Committed(s) <=> s = k)
    BY <1>3 DEF Allocating, Freeing, Pending, Waiting, Committed
  <2> HIDE DEF k
  <2> QED
    BY <1>2, <1>3, <2>1, ThreadStep, Numbers DEF B2N
<1>10. Cardinality(Committed(k)) >= 1 /\ Cardinality(Committed(k)) \in Nat
  <2>1. t \in Committed(k) /\ Committed(k) \in SUBSET PoolThreads
    BY <1>3 DEF Committed
  <2>2. IsFiniteSet(Committed(k)) /\ Cardinality(Committed(k)) \in Nat
    BY <2>1, FiniteThreads
  <2>3. Cardinality(Committed(k)) # 0
    BY <2>1, <2>2, FS_EmptySet
  <2> QED
    BY <2>2, <2>3
<1>11. CountInv(L, e, d)'
  <2>1. AllocRound' = AllocRound /\ FreeRound' = FreeRound /\ \A s : Ahead(d, s)' = Ahead(d, s)
    BY <1>3 DEF AllocRound, FreeRound, Ahead
  <2>2. Cardinality(inUse)' = Cardinality(inUse) + 1
    <3>1. created \notin inUse
      BY <1>2, <1>t DEF HandInv
    <3> QED
      BY <1>2, <1>3, <3>1, Numbers, FS_AddElement
  <2>3. ASSUME NEW s \in Slots
        PROVE  /\ Len(L[s]) + Ahead(d, s)' + Cardinality(Pending(s))' = e[s] + Cardinality(Waiting(s))'
               /\ e[s] + Cardinality(Committed(s))' <= MaxInUse
    <3>1. /\ Len(L[s]) + Ahead(d, s) + Cardinality(Pending(s)) = c[s] + Cardinality(Waiting(s))
          /\ c[s] + Cardinality(Committed(s)) <= MaxInUse
      BY <1>1 DEF CountInv
    <3>2. /\ c[s] \in Nat /\ Cardinality(Waiting(s)) \in Nat /\ Cardinality(Committed(s)) \in Nat
      BY <1>2, Numbers DEF Counts
    <3>3. /\ Ahead(d, s)' = Ahead(d, s) /\ Cardinality(Pending(s))' = Cardinality(Pending(s))
          /\ e[s] + Cardinality(Waiting(s))' = c[s] + Cardinality(Waiting(s))
          /\ e[s] + Cardinality(Committed(s))' = c[s] + Cardinality(Committed(s))
      BY <1>8, <1>9, <2>1, <3>2
    <3> QED
      BY <3>1, <3>3
  <2>4. /\ Cardinality(inUse)' + Cardinality(Allocating)' = d * SlotCount + AllocRound' - FreeRound'
        /\ Cardinality(inUse)' + Cardinality(Allocating)' + Cardinality(Freeing)' <= MaxInUse
    <3>1. /\ Cardinality(inUse) + Cardinality(Allocating) = d * SlotCount + AllocRound - FreeRound
          /\ Cardinality(inUse) + Cardinality(Allocating) + Cardinality(Freeing) <= MaxInUse
      BY <1>1 DEF CountInv
    <3>2. Cardinality(inUse)' + Cardinality(Allocating)' = Cardinality(inUse) + Cardinality(Allocating)
      BY <1>2, <1>9, <2>2, Numbers
    <3> QED
      BY <1>9, <2>1, <3>1, <3>2
  <2> QED
    BY <2>3, <2>4 DEF CountInv, Slots
<1>12. PICK n : n = [o \in Made' |-> IF o = created THEN <<k, c[k]>> ELSE m[o]]
  OBVIOUS
<1>13. \A o \in Made' : /\ o = created => n[o] = <<k, c[k]>>
                        /\ o # created => o \in Made /\ n[o] = m[o]
  BY <1>12, <1>m
<1>14. n \in Makers' /\ MakerInv(e, n)'
  <2>1. <<k, c[k]>> \in Slots \X Nat /\ c[k] \in Nat /\ k \in Slots
    BY <1>t DEF Counts
  <2>2. \A o \in Made : m[o] \in Slots \X Nat
    BY DEF Makers
  <2>3. \A o \in Made : m[o][1] \in Slots /\ m[o][2] \in Nat /\ m[o][2] < c[m[o][1]] /\ c[m[o][1]] \in Nat
    BY <1>1, <2>2 DEF MakerInv, Counts
  <2> HIDE DEF k
  <2>4. \A o \in Made' : n[o] \in Slots \X Nat
    BY <1>13, <2>1, <2>2
  <2>5. n \in [Made' -> Slots \X Nat]
    BY <1>12, <2>4
  <2>6. \A o \in Made' : n[o][2] < e[n[o][1]]
    <3> SUFFICES ASSUME NEW o \in Made' PROVE n[o][2] < e[n[o][1]]
      OBVIOUS
    <3>1. CASE o = created
      <4>1. n[o][1] = k /\ n[o][2] = c[k] /\ e[k] = c[k] + 1
        BY <1>8, <1>13, <2>1, <3>1
      <4> QED
        BY <2>1, <4>1
    <3>2. CASE o # created
      <4>1. /\ n[o] = m[o] /\ m[o][2] < c[m[o][1]] /\ m[o][1] \in Slots
            /\ m[o][2] \in Nat /\ c[m[o][1]] \in Nat
        BY <1>13, <2>3, <3>2
      <4>2. c[m[o][1]] <= e[m[o][1]] /\ e[m[o][1]] \in Nat
        BY <1>8, <4>1 DEF Counts
      <4> QED
        BY <4>1, <4>2
    <3> QED
      BY <3>1, <3>2
  <2>7. \A o \in Made : m[o] # <<k, c[k]>>
    <3> SUFFICES ASSUME NEW o \in Made, m[o] = <<k, c[k]>> PROVE FALSE
      OBVIOUS
    <3>1. m[o][1] = k /\ m[o][2] = c[k]
      OBVIOUS
    <3> QED
      BY <2>1, <2>3, <3>1
  <2>8. \A o, p \in Made' : n[o] = n[p] => o = p
    BY <1>1, <1>13, <2>7 DEF MakerInv
  <2> QED
    BY <2>5, <2>6, <2>8 DEF Makers, MakerInv, Slots
<1> QED
  BY <1>4, <1>5, <1>6, <1>7, <1>11, <1>14, Concludes

LEMMA TailFacts ==
  ASSUME NEW q \in Seq(Nat), Len(q) # 0
  PROVE  /\ Tail(q) \in Seq(Nat) /\ Len(Tail(q)) = Len(q) - 1
         /\ \A i \in 1..Len(Tail(q)) : Tail(q)[i] = q[i + 1] /\ i + 1 \in 1..Len(q)
         /\ \A i \in Nat \ {0} : At(Tail(q), i) = At(q, i + 1)
<1>1. q # <<>> /\ Len(q) \in Nat
  OBVIOUS
<1>2. /\ Tail(q) \in Seq(Nat) /\ Len(Tail(q)) = Len(q) - 1
      /\ \A i \in 1..Len(Tail(q)) : Tail(q)[i] = q[i + 1]
  BY <1>1
<1>3. \A i \in Nat \ {0} : i \in 1..Len(Tail(q)) <=> i + 1 \in 1..Len(q)
  BY <1>1, <1>2
<1> QED
  BY <1>2, <1>3 DEF At

\* an empty list has no first object, and nothing else has none
LEMMA FirstFacts ==
  ASSUME PoolTypeOK, HandInv, LockInv, NEW L \in Lists, ListInv(L),
         NEW t \in PoolThreads, plc[t] \in {"read", "link", "push"}
  PROVE  /\ ~Popping(slot[t])
         /\ head[slot[t]] = NoObject => Len(L[slot[t]]) = 0
         /\ head[slot[t]] # NoObject => Len(L[slot[t]]) # 0 /\ L[slot[t]][1] = head[slot[t]]
         /\ L[slot[t]] \in Seq(Nat) /\ Len(L[slot[t]]) \in Nat
<1>1. slot[t] \in Slots
  BY DEF PoolTypeOK
<1>2. ~Popping(slot[t])
  BY DEF Popping, LockInv, Inside
<1>3. head[slot[t]] = At(L[slot[t]], 1)
  BY <1>1, <1>2 DEF ListInv, FirstOf
<1>4. L[slot[t]] \in Seq(Nat) /\ Len(L[slot[t]]) \in Nat
  BY <1>1 DEF Lists
<1>5. Len(L[slot[t]]) # 0 => L[slot[t]][1] # NoObject
  <2>1. Len(L[slot[t]]) # 0 => L[slot[t]][1] \in Nat
    BY <1>4
  <2> QED
    BY <2>1, SlotFacts
<1> QED
  BY <1>2, <1>3, <1>4, <1>5 DEF At

LEMMA ReadHeadKeeps ==
  ASSUME PoolsInv, NEW t \in PoolThreads, ReadHead(t)
  PROVE  PoolsInv'
<1>1. PICK L \in Lists, c \in Counts, d \in Int, m \in Makers :
        ListInv(L) /\ CountInv(L, c, d) /\ MakerInv(c, m)
  BY DEF PoolsInv
<1>2. PoolTypeOK /\ LockInv /\ HandInv
  BY DEF PoolsInv
<1> DEFINE k == slot[t]
<1>t. k \in Slots /\ head[k] \in Objects \cup {NoObject}
  BY <1>2 DEF PoolTypeOK
<1>3. /\ Others(t) /\ slot' = slot /\ obj[t] = NoObject /\ obj'[t] = head[k]
      /\ plc[t] = "read" /\ plc'[t] = IF head[k] = NoObject THEN "leaveA" ELSE "pop"
      /\ UNCHANGED <<nAlloc, nFree, head, link, spin, created, inUse>>
      /\ plc' \in [PoolThreads -> PoolPCs] /\ obj' \in [PoolThreads -> Objects \cup {NoObject}]
  BY <1>2, <1>t DEF ReadHead, PoolGoto, Others, PoolTypeOK, PoolPCs, HandInv
<1>4. PoolTypeOK'
  BY <1>2, <1>3 DEF PoolTypeOK, Slots, Objects
<1>5. LockInv'
  BY <1>2, <1>3, LockStep DEF Inside
<1>6. m \in Makers' /\ MakerInv(c, m)'
  BY <1>1, <1>3, MakersStay
<1>7. /\ ~Popping(k)
      /\ head[k] = NoObject => Len(L[k]) = 0
      /\ head[k] # NoObject => Len(L[k]) # 0 /\ L[k][1] = head[k]
      /\ L[k] \in Seq(Nat) /\ Len(L[k]) \in Nat
  BY <1>1, <1>2, <1>3, FirstFacts
<1>8. AllocRound' = AllocRound /\ FreeRound' = FreeRound /\ \A s : Ahead(d, s)' = Ahead(d, s)
  BY <1>3 DEF AllocRound, FreeRound, Ahead
<1>9. /\ Cardinality(inUse) + Cardinality(Allocating) = d * SlotCount + AllocRound - FreeRound
      /\ Cardinality(inUse) + Cardinality(Allocating) + Cardinality(Freeing) <= MaxInUse
      /\ Cardinality(inUse)' = Cardinality(inUse)
  BY <1>1, <1>3 DEF CountInv
<1>10. /\ Cardinality(Allocating)' = Cardinality(Allocating)
       /\ Cardinality(Freeing)' = Cardinality(Freeing)
       /\ \A s : Cardinality(Pending(s))' = Cardinality(Pending(s))
  <2>1. /\ t \in Allocating' /\ t \in Allocating /\ t \notin Freeing' /\ t \notin Freeing
        /\ \A s : t \notin Pending(s)' /\ t \notin Pending(s)
    BY <1>3 DEF Allocating, Freeing, Pending
  <2> QED
    BY <1>2, <1>3, <2>1, ThreadStep, Numbers DEF B2N
<1>11. CASE head[k] = NoObject
  <2>1. plc'[t] = "leaveA" /\ obj' = obj
    BY <1>2, <1>3, <1>11 DEF Others, PoolTypeOK
  <2>2. HandInv'
    BY <1>2, <1>3, <2>1, HandStep
  <2>3. ListInv(L)'
    BY <1>1, <1>3, <2>1, ListsStay
  <2>4. /\ \A s : Cardinality(Waiting(s))' = Cardinality(Waiting(s))
        /\ \A s : Cardinality(Committed(s))' =
             IF s = k THEN Cardinality(Committed(s)) + 1 ELSE Cardinality(Committed(s))
    <3>1. \A s : /\ t \in Waiting(s)' <=> t \in Waiting(s)
                 /\ t \in Committed(s)' <=> s = k
                 /\ t \notin Committed(s)
      BY <1>3, <2>1 DEF Waiting, Committed
    <3> HIDE DEF k
    <3> QED
      BY <1>2, <1>3, <3>1, ThreadStep, Numbers DEF B2N
  <2>5. c[k] + Cardinality(Committed(k)) + 1 <= MaxInUse
    <3>1. Cardinality(Allocating) # 0
      <4>1. t \in Allocating /\ IsFiniteSet(Allocating)
        BY <1>3, FiniteThreads DEF Allocating
      <4> QED
        BY <4>1, FS_EmptySet
    <3>2. Cardinality(Committed(k)) + 1 <= Cardinality(Waiting(k))
      <4>1. /\ Committed(k) \in SUBSET PoolThreads /\ Waiting(k) \in SUBSET PoolThreads
            /\ t \in Waiting(k) /\ t \notin Committed(k) /\ Committed(k) \subseteq Waiting(k)
        BY <1>3 DEF Committed, Waiting
      <4>2. IsFiniteSet(Committed(k)) /\ IsFiniteSet(Waiting(k)) /\ Cardinality(Committed(k)) \in Nat
        BY <4>1, FiniteThreads
      <4>3. Cardinality(Committed(k) \cup {t}) = Cardinality(Committed(k)) + 1
        BY <4>1, <4>2, FS_AddElement
      <4>4. Committed(k) \cup {t} \subseteq Waiting(k)
        BY <4>1
      <4> QED
        BY <4>2, <4>3, <4>4, FS_Subset
    <3>3. Cardinality(Pending(k)) <= Cardinality(Freeing)
      <4>1. Pending(k) \subseteq Freeing /\ IsFiniteSet(Freeing)
        BY FiniteThreads DEF Pending, Freeing
      <4> QED
        BY <4>1, FS_Subset
    <3>4. /\ Cardinality(inUse) \in Nat /\ Cardinality(Allocating) \in Nat /\ Cardinality(Freeing) \in Nat
          /\ Cardinality(Pending(k)) \in Nat /\ Cardinality(Waiting(k)) \in Nat
          /\ Cardinality(Committed(k)) \in Nat /\ MaxInUse \in Nat
      BY <1>2, Numbers, SlotFacts
    <3>5. Ahead(d, k) <= Cardinality(inUse) + Cardinality(Allocating)
      <4>1. Cardinality(inUse) + Cardinality(Allocating) \in Nat \ {0}
        BY <3>1, <3>4
      <4> HIDE DEF k
      <4> QED
        BY <1>2, <1>9, <1>t, <4>1, AheadBound
    <3>6. Len(L[k]) + Ahead(d, k) + Cardinality(Pending(k)) = c[k] + Cardinality(Waiting(k))
      BY <1>1, <1>t DEF CountInv
    <3>7. c[k] \in Nat /\ Ahead(d, k) \in Int /\ Len(L[k]) = 0
      <4>1. c[k] \in Nat
        BY <1>t DEF Counts
      <4>2. Ahead(d, k) \in Int
        BY DEF Ahead, B2N
      <4> QED
        BY <1>7, <1>11, <4>1, <4>2
    <3> HIDE DEF k
    <3>8. c[k] + Cardinality(Waiting(k)) <= Cardinality(inUse) + Cardinality(Allocating) + Cardinality(Freeing)
      BY <3>3, <3>4, <3>5, <3>6, <3>7
    <3>9. c[k] + Cardinality(Waiting(k)) <= MaxInUse
      BY <1>9, <3>4, <3>7, <3>8
    <3> QED
      BY <3>2, <3>4, <3>7, <3>9
  <2>6. CountInv(L, c, d)'
    <3>1. ASSUME NEW s \in Slots
          PROVE  /\ Len(L[s]) + Ahead(d, s)' + Cardinality(Pending(s))' = c[s] + Cardinality(Waiting(s))'
                 /\ c[s] + Cardinality(Committed(s))' <= MaxInUse
      <4>1. /\ Len(L[s]) + Ahead(d, s) + Cardinality(Pending(s)) = c[s] + Cardinality(Waiting(s))
            /\ c[s] + Cardinality(Committed(s)) <= MaxInUse
        BY <1>1 DEF CountInv
      <4>2. c[s] + Cardinality(Committed(s))' <= MaxInUse
        <5>1. CASE s = k
          <6>1. Cardinality(Committed(s)) \in Nat /\ c[s] \in Nat
            BY <1>2, Numbers DEF Counts
          <6> QED
            BY <2>4, <2>5, <5>1, <6>1
        <5>2. CASE s # k
          BY <2>4, <4>1, <5>2
        <5> QED
          BY <5>1, <5>2
      <4> QED
        BY <1>8, <1>10, <2>4, <4>1, <4>2
    <3>2. /\ Cardinality(inUse)' + Cardinality(Allocating)' = d * SlotCount + AllocRound' - FreeRound'
          /\ Cardinality(inUse)' + Cardinality(Allocating)' + Cardinality(Freeing)' <= MaxInUse
      BY <1>8, <1>9, <1>10
    <3> QED
      BY <3>1, <3>2 DEF CountInv, Slots
  <2> QED
    BY <1>4, <1>5, <1>6, <2>2, <2>3, <2>6, Concludes
<1>12. CASE head[k] # NoObject
  <2>1. plc'[t] = "pop" /\ head[k] # NoObject /\ head[k] = L[k][1] /\ 1 \in 1..Len(L[k]) /\ Len(L[k]) # 0
    BY <1>3, <1>7, <1>12
  <2>2. PICK E : E = [s \in Slots |-> IF s = k THEN Tail(L[s]) ELSE L[s]]
    OBVIOUS
  <2>0. PICK sh : \A s \in Slots : sh[s] \in {0, 1} /\ (sh[s] = 1 <=> s = k)
    <3>1. \A s \in Slots : LET z == [r \in Slots |-> IF r = k THEN 1 ELSE 0]
                           IN  z[s] \in {0, 1} /\ (z[s] = 1 <=> s = k)
      OBVIOUS
    <3> QED
      BY <3>1
  <2>3. ASSUME NEW s \in Slots
        PROVE  /\ E[s] \in Seq(Nat) /\ Len(E[s]) \in Nat /\ Len(L[s]) \in Nat /\ Len(E[s]) = Len(L[s]) - sh[s]
               /\ \A i \in 1..Len(E[s]) : E[s][i] = L[s][i + sh[s]] /\ i + sh[s] \in 1..Len(L[s])
               /\ \A i \in Nat \ {0} : At(E[s], i) = At(L[s], i + sh[s])
    <3>1. CASE s = k
      <4>1. E[s] = Tail(L[k]) /\ sh[s] = 1 /\ L[s] = L[k]
        BY <2>0, <2>2, <3>1
      <4> HIDE DEF k
      <4>2. /\ Tail(L[k]) \in Seq(Nat) /\ Len(Tail(L[k])) = Len(L[k]) - 1
            /\ \A i \in 1..Len(Tail(L[k])) : Tail(L[k])[i] = L[k][i + 1] /\ i + 1 \in 1..Len(L[k])
            /\ \A i \in Nat \ {0} : At(Tail(L[k]), i) = At(L[k], i + 1)
        BY <1>7, <2>1, TailFacts
      <4>3. /\ E[s] \in Seq(Nat) /\ Len(E[s]) = Len(L[s]) - 1
            /\ \A i \in 1..Len(E[s]) : E[s][i] = L[s][i + 1] /\ i + 1 \in 1..Len(L[s])
            /\ \A i \in Nat \ {0} : At(E[s], i) = At(L[s], i + 1)
        BY <4>1, <4>2, Zenon
      <4>4. Len(E[s]) \in Nat /\ Len(L[s]) \in Nat
        BY <1>7, <4>1, <4>3
      <4> QED
        BY <4>1, <4>3, <4>4
    <3>2. CASE s # k
      <4>1. E[s] = L[s] /\ sh[s] = 0 /\ L[s] \in Seq(Nat) /\ Len(L[s]) \in Nat
        BY <2>0, <2>2, <3>2 DEF Lists
      <4> HIDE DEF k
      <4> QED
        BY <4>1
    <3> QED
      BY <3>1, <3>2
  <2>4. E \in Lists
    <3>1. E = [s \in Slots |-> E[s]]
      BY <2>2
    <3> QED
      BY <2>3, <3>1 DEF Lists
  <2>5. L[k][1] \in Made /\ L[k][1] \notin inUse /\ \A u \in PoolThreads : L[k][1] # obj[u]
    BY <1>1, <1>t, <2>1 DEF ListInv
  <2>6. HandInv'
    <3>1. ASSUME NEW u \in PoolThreads, u # t
          PROVE  plc'[u] = plc[u] /\ obj'[u] = obj[u] /\ slot'[u] = slot[u] /\ obj[u] # obj'[t]
      BY <1>3, <2>1, <2>5, <3>1 DEF Others
    <3>2. ASSUME NEW u \in PoolThreads
          PROVE  /\ plc'[u] \in {"idle", "enterA", "read", "new", "leaveF"} => obj'[u] = NoObject
                 /\ plc'[u] \in {"pop", "enterF", "link", "push"} => obj'[u] # NoObject
                 /\ obj'[u] # NoObject => obj'[u] \in Made' /\ obj'[u] \notin inUse'
                 /\ plc'[u] = "pop" => obj'[u] = head'[slot'[u]]
                 /\ plc'[u] = "push" => link'[obj'[u]] = head'[slot'[u]]
      <4>1. CASE u = t
        BY <1>3, <2>1, <2>5, <4>1 DEF Made
      <4>2. CASE u # t
        BY <1>2, <1>3, <3>1, <4>2 DEF HandInv, Made
      <4> QED
        BY <4>1, <4>2
    <3>3. \A u, v \in PoolThreads : obj'[u] = obj'[v] /\ obj'[u] # NoObject => u = v
      BY <1>2, <1>3, <3>1 DEF HandInv
    <3>4. inUse' \subseteq Made'
      BY <1>2, <1>3 DEF HandInv, Made
    <3> QED
      BY <3>2, <3>3, <3>4 DEF HandInv
  <2>7. ListInv(E)'
    <3>1. \A s \in Slots : FirstOf(s)' = At(E[s], 1)
      <4> SUFFICES ASSUME NEW s \in Slots PROVE FirstOf(s)' = At(E[s], 1)
        OBVIOUS
      <4>1. CASE s = k
        <5>1. Popping(s)'
          BY <1>3, <2>1, <4>1 DEF Popping
        <5>2. FirstOf(s)' = link[L[k][1]]
          BY <1>3, <2>1, <4>1, <5>1 DEF FirstOf
        <5>3. link[L[k][1]] = At(L[k], 2)
          <6>1. link[L[k][1]] = At(L[k], 1 + 1)
            BY <1>1, <1>t, <2>1 DEF ListInv
          <6> QED
            BY <6>1
        <5>4. At(E[s], 1) = At(L[k], 2)
          <6>0. 1 \in Nat \ {0}
            OBVIOUS
          <6>1. At(E[s], 1) = At(L[s], 1 + sh[s]) /\ sh[s] = 1
            BY <2>0, <2>3, <4>1, <6>0
          <6> QED
            BY <4>1, <6>1
        <5> QED
          BY <5>2, <5>3, <5>4
      <4>2. CASE s # k
        <5>1. Popping(s)' <=> Popping(s)
          BY <1>3, <4>2 DEF Popping, Others
        <5>2. FirstOf(s)' = FirstOf(s)
          BY <1>3, <5>1 DEF FirstOf
        <5>3. E[s] = L[s]
          BY <2>2, <4>2
        <5> QED
          BY <1>1, <5>2, <5>3 DEF ListInv
      <4> QED
        BY <4>1, <4>2
    <3>2. ASSUME NEW s \in Slots, NEW i \in 1..Len(E[s])
          PROVE  /\ link'[E[s][i]] = At(E[s], i + 1)
                 /\ E[s][i] \in Made' /\ E[s][i] \notin inUse'
                 /\ \A u \in PoolThreads : E[s][i] # obj'[u]
      <4>1. /\ E[s][i] = L[s][i + sh[s]] /\ i + sh[s] \in 1..Len(L[s])
        BY <2>3
      <4>a. i \in Nat \ {0} /\ sh[s] \in Nat /\ (s = k => i + sh[s] # 1)
        <5>1. Len(E[s]) \in Nat /\ sh[s] \in {0, 1} /\ (s = k => sh[s] = 1)
          BY <2>0, <2>3
        <5> QED
          BY <5>1
      <4>2. At(E[s], i + 1) = At(L[s], i + sh[s] + 1)
        <5>1. i + 1 \in Nat \ {0} /\ i + 1 + sh[s] = i + sh[s] + 1
          BY <4>a
        <5>2. At(E[s], i + 1) = At(L[s], i + 1 + sh[s])
          BY <2>3, <5>1
        <5> QED
          BY <5>1, <5>2
      <4> HIDE DEF k
      <4>3. /\ link[L[s][i + sh[s]]] = At(L[s], i + sh[s] + 1)
            /\ L[s][i + sh[s]] \in Made /\ L[s][i + sh[s]] \notin inUse
            /\ \A u \in PoolThreads : L[s][i + sh[s]] # obj[u]
        BY <1>1, <4>1 DEF ListInv
      <4>4. L[s][i + sh[s]] # L[k][1]
        <5>1. \A q, r \in Slots : \A n \in 1..Len(L[q]), l \in 1..Len(L[r]) :
                L[q][n] = L[r][l] => q = r /\ n = l
          BY <1>1 DEF ListInv
        <5>2. k \in Slots /\ 1 \in 1..Len(L[k]) /\ i + sh[s] \in 1..Len(L[s])
          BY <1>t, <2>1, <4>1
        <5> QED
          BY <4>a, <5>1, <5>2
      <4>5. \A u \in PoolThreads : E[s][i] # obj'[u]
        BY <1>3, <2>1, <4>1, <4>3, <4>4 DEF Others
      <4> QED
        BY <1>3, <4>1, <4>2, <4>3, <4>5 DEF Made
    <3>3. ASSUME NEW s \in Slots, NEW r \in Slots, NEW i \in 1..Len(E[s]), NEW j \in 1..Len(E[r]),
                 E[s][i] = E[r][j]
          PROVE  s = r /\ i = j
      <4>1. /\ E[s][i] = L[s][i + sh[s]] /\ i + sh[s] \in 1..Len(L[s])
            /\ E[r][j] = L[r][j + sh[r]] /\ j + sh[r] \in 1..Len(L[r])
        BY <2>3
      <4>2. s = r /\ i + sh[s] = j + sh[r]
        <5>1. \A a, b \in Slots : \A n \in 1..Len(L[a]), l \in 1..Len(L[b]) :
                L[a][n] = L[b][l] => a = b /\ n = l
          BY <1>1 DEF ListInv
        <5>2. L[s][i + sh[s]] = L[r][j + sh[r]]
          BY <3>3, <4>1
        <5> HIDE DEF k
        <5> QED
          BY <4>1, <5>1, <5>2
      <4>3. sh[s] \in {0, 1} /\ sh[s] = sh[r] /\ i \in Int /\ j \in Int
        BY <2>0, <4>2
      <4> QED
        BY <4>2, <4>3
    <3>4. ASSUME NEW o \in Made'
          PROVE  \/ o \in inUse'
                 \/ \E u \in PoolThreads : obj'[u] = o
                 \/ \E s \in Slots : \E i \in 1..Len(E[s]) : E[s][i] = o
      <4>1. o \in Made
        BY <1>3 DEF Made
      <4>2. CASE o \in inUse
        BY <1>3, <4>2
      <4>3. CASE \E u \in PoolThreads : obj[u] = o
        <5>1. PICK u \in PoolThreads : obj[u] = o
          BY <4>3
        <5>2. o # NoObject
          BY <4>1, SlotFacts DEF Made
        <5>3. obj'[u] = o
          BY <1>3, <5>1, <5>2 DEF Others
        <5> QED
          BY <5>3
      <4>4. CASE \E s \in Slots : \E i \in 1..Len(L[s]) : L[s][i] = o
        <5>0. PICK s \in Slots : \E i \in 1..Len(L[s]) : L[s][i] = o
          BY <4>4
        <5>1. PICK i \in 1..Len(L[s]) : L[s][i] = o
          BY <5>0
        <5>2. CASE s = k /\ i = 1
          BY <1>3, <2>1, <5>1, <5>2
        <5>3. CASE ~(s = k /\ i = 1)
          <6>1. /\ Len(L[s]) = Len(E[s]) + sh[s] /\ Len(E[s]) \in Nat /\ i \in 1..Len(L[s])
                /\ sh[s] \in {0, 1} /\ (sh[s] = 1 => i # 1)
            BY <2>0, <2>3, <5>3
          <6>2. i - sh[s] \in 1..Len(E[s]) /\ (i - sh[s]) + sh[s] = i
            <7> HIDE DEF k
            <7> QED
              BY <6>1
          <6>3. E[s][i - sh[s]] = L[s][i]
            BY <2>3, <6>2
          <6> QED
            BY <5>1, <6>2, <6>3
        <5> QED
          BY <5>2, <5>3
      <4> QED
        BY <1>1, <4>1, <4>2, <4>3, <4>4 DEF ListInv
    <3> QED
      BY <3>1, <3>2, <3>3, <3>4 DEF ListInv, At, Slots
  <2>8. /\ \A s : Cardinality(Committed(s))' = Cardinality(Committed(s))
        /\ \A s : Cardinality(Waiting(s))' =
             IF s = k THEN Cardinality(Waiting(s)) - 1 ELSE Cardinality(Waiting(s))
    <3>1. \A s : /\ t \in Waiting(s) <=> s = k
                 /\ t \notin Waiting(s)'
                 /\ t \notin Committed(s)'
                 /\ t \notin Committed(s)
      BY <1>3, <2>1 DEF Waiting, Committed
    <3> HIDE DEF k
    <3> QED
      BY <1>2, <1>3, <3>1, ThreadStep, Numbers DEF B2N
  <2>9. CountInv(E, c, d)'
    <3>1. ASSUME NEW s \in Slots
          PROVE  /\ Len(E[s]) + Ahead(d, s)' + Cardinality(Pending(s))' = c[s] + Cardinality(Waiting(s))'
                 /\ c[s] + Cardinality(Committed(s))' <= MaxInUse
      <4>1. /\ Len(L[s]) + Ahead(d, s) + Cardinality(Pending(s)) = c[s] + Cardinality(Waiting(s))
            /\ c[s] + Cardinality(Committed(s)) <= MaxInUse
        BY <1>1 DEF CountInv
      <4>2. /\ Len(E[s]) \in Nat /\ Len(L[s]) = Len(E[s]) + sh[s] /\ sh[s] \in Nat
        BY <2>0, <2>3
      <4>3. Cardinality(Waiting(s)) = Cardinality(Waiting(s))' + sh[s] /\ Cardinality(Waiting(s))' \in Int
        <5>1. Cardinality(Waiting(s)) \in Nat
          BY <1>2, Numbers
        <5> QED
          BY <2>0, <2>8, <5>1
      <4>4. c[s] \in Nat /\ Ahead(d, s) \in Int /\ Cardinality(Pending(s)) \in Nat
        BY <1>2, Numbers DEF Counts, Ahead, B2N
      <4>5. Len(E[s]) + Ahead(d, s) + Cardinality(Pending(s)) = c[s] + Cardinality(Waiting(s))'
        <5>1. CASE sh[s] = 0
          BY <4>1, <4>2, <4>3, <5>1
        <5>2. CASE sh[s] = 1
          <6>1. Len(L[s]) = Len(E[s]) + 1
            BY <4>2, <5>2
          <6>2. Cardinality(Waiting(s)) = Cardinality(Waiting(s))' + 1
            BY <4>3, <5>2
          <6>3. (Len(E[s]) + 1) + Ahead(d, s) + Cardinality(Pending(s)) = c[s] + (Cardinality(Waiting(s))' + 1)
            BY <4>1, <6>1, <6>2, Zenon
          <6>4. PICK l \in Int : l = Len(E[s])
            BY <4>2
          <6>5. PICK a \in Int : a = Ahead(d, s)
            BY <4>4
          <6>6. PICK p \in Int : p = Cardinality(Pending(s))
            BY <4>4
          <6>7. PICK n \in Int : n = c[s]
            BY <4>4
          <6>8. PICK w \in Int : w = Cardinality(Waiting(s))'
            BY <4>3
          <6>9. (l + 1) + a + p = n + (w + 1)
            BY <6>3, <6>4, <6>5, <6>6, <6>7, <6>8, Zenon
          <6>10. l + a + p = n + w
            BY <6>9
          <6> QED
            BY <6>4, <6>5, <6>6, <6>7, <6>8, <6>10, Zenon
        <5> QED
          BY <2>0, <5>1, <5>2
      <4> QED
        BY <1>8, <1>10, <2>8, <4>1, <4>5
    <3>2. /\ Cardinality(inUse)' + Cardinality(Allocating)' = d * SlotCount + AllocRound' - FreeRound'
          /\ Cardinality(inUse)' + Cardinality(Allocating)' + Cardinality(Freeing)' <= MaxInUse
      BY <1>8, <1>9, <1>10
    <3> QED
      BY <3>1, <3>2 DEF CountInv, Slots
  <2> QED
    BY <1>4, <1>5, <1>6, <2>4, <2>6, <2>7, <2>9, Concludes
<1> QED
  BY <1>11, <1>12

LEMMA FreeTicketKeeps ==
  ASSUME PoolsInv, NEW t \in PoolThreads, FreeTicket(t)
  PROVE  PoolsInv'
<1>1. PICK L \in Lists, c \in Counts, d \in Int, m \in Makers :
        ListInv(L) /\ CountInv(L, c, d) /\ MakerInv(c, m)
  BY DEF PoolsInv
<1>2. PoolTypeOK /\ LockInv /\ HandInv
  BY DEF PoolsInv
<1>o. PICK o \in inUse : inUse' = inUse \ {o} /\ obj' = [obj EXCEPT ![t] = o]
  BY DEF FreeTicket
<1>t. o \in Made /\ o \in Objects /\ o # NoObject
  BY <1>2, SlotFacts DEF HandInv, PoolTypeOK
<1> DEFINE k == nFree'
<1>k. k = (IF nFree = 0 THEN SlotCount - 1 ELSE nFree - 1) /\ k \in Slots
  <2>1. \A n \in Nat \ {0} : \A a \in 0..n - 1 :
          (a + n - 1) % n = IF a = 0 THEN n - 1 ELSE a - 1
    <3> SUFFICES ASSUME NEW n \in Nat \ {0}, NEW a \in 0..n - 1
                 PROVE  (a + n - 1) % n = IF a = 0 THEN n - 1 ELSE a - 1
      OBVIOUS
    <3>1. CASE a = 0
      BY <3>1
    <3>2. CASE a # 0
      BY <3>2
    <3> QED
      BY <3>1, <3>2
  <2>2. nFree' = (nFree + SlotCount - 1) % SlotCount /\ nFree \in 0..SlotCount - 1 /\ SlotCount \in Nat \ {0}
    BY <1>2, SlotFacts DEF FreeTicket, FreeSlot, PoolTypeOK
  <2>3. k = IF nFree = 0 THEN SlotCount - 1 ELSE nFree - 1
    BY <2>1, <2>2
  <2> QED
    BY <2>2, <2>3, SlotFacts
<1>3. /\ Others(t) /\ slot'[t] = k /\ obj[t] = NoObject /\ obj'[t] = o
      /\ plc[t] = "idle" /\ plc'[t] = "enterF"
      /\ UNCHANGED <<nAlloc, head, link, spin, created>>
      /\ plc' \in [PoolThreads -> PoolPCs] /\ slot' \in [PoolThreads -> Slots]
      /\ obj' \in [PoolThreads -> Objects \cup {NoObject}]
  BY <1>2, <1>o, <1>t, <1>k DEF FreeTicket, PoolGoto, Others, PoolTypeOK, PoolPCs, HandInv
<1>4. PoolTypeOK'
  BY <1>2, <1>3, <1>k, <1>o DEF PoolTypeOK, Slots, Objects
<1>5. LockInv'
  BY <1>2, <1>3 DEF LockInv, Inside, Others
<1>6. HandInv'
  <2>1. ASSUME NEW u \in PoolThreads, u # t
        PROVE  plc'[u] = plc[u] /\ obj'[u] = obj[u] /\ slot'[u] = slot[u] /\ obj[u] # o
    BY <1>2, <1>3, <1>t, <2>1 DEF Others, HandInv
  <2>2. ASSUME NEW u \in PoolThreads
        PROVE  /\ plc'[u] \in {"idle", "enterA", "read", "new", "leaveF"} => obj'[u] = NoObject
               /\ plc'[u] \in {"pop", "enterF", "link", "push"} => obj'[u] # NoObject
               /\ obj'[u] # NoObject => obj'[u] \in Made' /\ obj'[u] \notin inUse'
               /\ plc'[u] = "pop" => obj'[u] = head'[slot'[u]]
               /\ plc'[u] = "push" => link'[obj'[u]] = head'[slot'[u]]
    <3>1. CASE u = t
      BY <1>3, <1>o, <1>t, <3>1 DEF Made
    <3>2. CASE u # t
      BY <1>2, <1>3, <1>o, <2>1, <3>2 DEF HandInv, Made
    <3> QED
      BY <3>1, <3>2
  <2>3. \A u, v \in PoolThreads : obj'[u] = obj'[v] /\ obj'[u] # NoObject => u = v
    BY <1>2, <1>3, <2>1 DEF HandInv
  <2>4. inUse' \subseteq Made'
    BY <1>2, <1>3, <1>o DEF HandInv, Made
  <2> QED
    BY <2>2, <2>3, <2>4 DEF HandInv
<1>7. ListInv(L)'
  <2>1. \A s \in Slots : FirstOf(s)' = FirstOf(s)
    <3>1. \A s \in Slots : Popping(s)' <=> Popping(s)
      BY <1>3 DEF Popping, Others
    <3> QED
      BY <1>3, <3>1 DEF FirstOf
  <2>2. ASSUME NEW s \in Slots, NEW i \in 1..Len(L[s])
        PROVE  /\ link'[L[s][i]] = At(L[s], i + 1)
               /\ L[s][i] \in Made' /\ L[s][i] \notin inUse'
               /\ \A u \in PoolThreads : L[s][i] # obj'[u]
    BY <1>1, <1>3, <1>o DEF ListInv, Others, Made
  <2>3. ASSUME NEW n \in Made'
        PROVE  \/ n \in inUse'
               \/ \E u \in PoolThreads : obj'[u] = n
               \/ \E s \in Slots : \E i \in 1..Len(L[s]) : L[s][i] = n
    <3>1. n \in Made /\ n # NoObject
      BY <1>3, SlotFacts DEF Made
    <3>2. CASE n \in inUse
      BY <1>3, <1>o, <3>2
    <3>3. CASE \E u \in PoolThreads : obj[u] = n
      BY <1>3, <3>1, <3>3 DEF Others
    <3> QED
      BY <1>1, <3>1, <3>2, <3>3 DEF ListInv
  <2> QED
    BY <1>1, <2>1, <2>2, <2>3 DEF ListInv, At, Slots
<1>8. nAlloc' = nAlloc /\ AllocRound' = AllocRound /\ AllocRound \in Int
  BY <1>2, <1>3, Numbers DEF AllocRound
<1>9. PICK f \in Int :
        /\ \A s \in Slots : Ahead(f, s)' = IF s = k THEN Ahead(d, s) - 1 ELSE Ahead(d, s)
        /\ f * SlotCount + AllocRound' - FreeRound' = d * SlotCount + AllocRound - FreeRound - 1
  <2>1. SlotCount \in Nat \ {0} /\ Slots = 0..SlotCount - 1 /\ d * SlotCount \in Int
        /\ nFree \in 0..SlotCount - 1
    BY <1>2, SlotFacts DEF PoolTypeOK
  <2>2. CASE k = 0
    <3>1. FreeRound' = 0 /\ FreeRound = SlotCount - 1
      BY <1>k, <2>1, <2>2 DEF FreeRound
    <3>2. \A s \in Slots : Ahead(d - 1, s)' = IF s = k THEN Ahead(d, s) - 1 ELSE Ahead(d, s)
      BY <1>8, <1>k, <2>1, <2>2 DEF Ahead, B2N
    <3>3. (d - 1) * SlotCount = d * SlotCount - SlotCount
      BY <2>1
    <3>4. (d - 1) * SlotCount + AllocRound' - FreeRound' = d * SlotCount + AllocRound - FreeRound - 1
      BY <1>8, <2>1, <3>1, <3>3
    <3>5. d - 1 \in Int
      OBVIOUS
    <3> QED
      BY <3>2, <3>4, <3>5
  <2>3. CASE k # 0
    <3>1. FreeRound' = FreeRound + 1 /\ FreeRound \in Int
      BY <1>k, <2>1, <2>3 DEF FreeRound
    <3>2. \A s \in Slots : Ahead(d, s)' = IF s = k THEN Ahead(d, s) - 1 ELSE Ahead(d, s)
      BY <1>8, <1>k, <2>1, <2>3 DEF Ahead, B2N
    <3>3. d * SlotCount + AllocRound' - FreeRound' = d * SlotCount + AllocRound - FreeRound - 1
      BY <1>8, <2>1, <3>1
    <3> QED
      BY <3>2, <3>3
  <2> QED
    BY <2>2, <2>3
<1>10. /\ Cardinality(Allocating)' = Cardinality(Allocating)
       /\ Cardinality(Freeing)' = Cardinality(Freeing) + 1
       /\ \A s : /\ Cardinality(Waiting(s))' = Cardinality(Waiting(s))
                 /\ Cardinality(Committed(s))' = Cardinality(Committed(s))
       /\ \A s : Cardinality(Pending(s))' =
            IF s = k THEN Cardinality(Pending(s)) + 1 ELSE Cardinality(Pending(s))
  <2>1. /\ t \notin Allocating /\ t \notin Allocating' /\ t \notin Freeing /\ t \in Freeing'
        /\ \A s : /\ t \notin Pending(s) /\ (t \in Pending(s)' <=> s = k)
                  /\ t \notin Waiting(s) /\ t \notin Waiting(s)'
                  /\ t \notin Committed(s) /\ t \notin Committed(s)'
    BY <1>3 DEF Allocating, Freeing, Pending, Waiting, Committed
  <2> HIDE DEF k
  <2> QED
    BY <1>2, <1>3, <2>1, ThreadStep, Numbers DEF B2N
<1>11. CountInv(L, c, f)'
  <2> HIDE DEF k
  <2>1. ASSUME NEW s \in Slots
        PROVE  /\ Len(L[s]) + Ahead(f, s)' + Cardinality(Pending(s))' = c[s] + Cardinality(Waiting(s))'
               /\ c[s] + Cardinality(Committed(s))' <= MaxInUse
    <3>1. /\ Len(L[s]) + Ahead(d, s) + Cardinality(Pending(s)) = c[s] + Cardinality(Waiting(s))
          /\ c[s] + Cardinality(Committed(s)) <= MaxInUse
      BY <1>1 DEF CountInv
    <3>2. Len(L[s]) \in Nat /\ Ahead(d, s) \in Int /\ Cardinality(Pending(s)) \in Nat
      BY <1>2, <1>8, Numbers DEF Lists, Ahead, B2N
    <3>3. Len(L[s]) + Ahead(f, s)' + Cardinality(Pending(s))' = Len(L[s]) + Ahead(d, s) + Cardinality(Pending(s))
      <4>1. CASE s = k
        <5>1. Ahead(f, s)' = Ahead(d, s) - 1
          BY <1>9, <4>1
        <5>2. Cardinality(Pending(s))' = Cardinality(Pending(s)) + 1
          BY <1>10, <4>1
        <5> QED
          BY <3>2, <5>1, <5>2
      <4>2. CASE s # k
        BY <1>9, <1>10, <4>2
      <4> QED
        BY <4>1, <4>2
    <3> QED
      BY <1>10, <3>1, <3>3
  <2>2. Cardinality(inUse) = Cardinality(inUse)' + 1 /\ Cardinality(inUse)' \in Nat
    <3>1. IsFiniteSet(inUse) /\ Cardinality(inUse) \in Nat
      BY <1>2, Numbers
    <3>2. IsFiniteSet(inUse \ {o}) /\ Cardinality(inUse \ {o}) = Cardinality(inUse) - 1
      BY <3>1, FS_RemoveElement
    <3>3. Cardinality(inUse \ {o}) \in Nat
      BY <3>2, FS_CardinalityType
    <3> QED
      BY <1>o, <3>1, <3>2, <3>3
  <2>3. /\ Cardinality(inUse)' + Cardinality(Allocating)' = f * SlotCount + AllocRound' - FreeRound'
        /\ Cardinality(inUse)' + Cardinality(Allocating)' + Cardinality(Freeing)' <= MaxInUse
    <3>1. /\ Cardinality(inUse) + Cardinality(Allocating) = d * SlotCount + AllocRound - FreeRound
          /\ Cardinality(inUse) + Cardinality(Allocating) + Cardinality(Freeing) <= MaxInUse
      BY <1>1 DEF CountInv
    <3>2. Cardinality(Allocating) \in Nat /\ Cardinality(Freeing) \in Nat /\ MaxInUse \in Nat
      BY <1>2, Numbers, SlotFacts
    <3>3. Cardinality(inUse)' + Cardinality(Allocating)' = (Cardinality(inUse) + Cardinality(Allocating)) - 1
      BY <1>10, <2>2, <3>2
    <3>4. Cardinality(inUse)' + Cardinality(Allocating)' + Cardinality(Freeing)'
            = Cardinality(inUse) + Cardinality(Allocating) + Cardinality(Freeing)
      BY <1>10, <2>2, <3>2
    <3>5. f * SlotCount + AllocRound' - FreeRound' = d * SlotCount + AllocRound - FreeRound - 1
      BY <1>9
    <3>6. Cardinality(inUse)' + Cardinality(Allocating)' = d * SlotCount + AllocRound - FreeRound - 1
      <4>1. Cardinality(inUse)' + Cardinality(Allocating)' = (d * SlotCount + AllocRound - FreeRound) - 1
        BY <3>1, <3>3, Zenon
      <4>2. d * SlotCount \in Int /\ AllocRound \in Int /\ FreeRound \in Int
        BY <1>2, SlotFacts, Numbers
      <4>3. (d * SlotCount + AllocRound - FreeRound) - 1 = d * SlotCount + AllocRound - FreeRound - 1
        BY <4>2
      <4> QED
        BY <4>1, <4>3
    <3> QED
      BY <3>1, <3>4, <3>5, <3>6, Zenon
  <2> QED
    BY <2>1, <2>3 DEF CountInv, Slots
<1>12. m \in Makers' /\ MakerInv(c, m)'
  BY <1>1, <1>3, MakersStay
<1> QED
  BY <1>4, <1>5, <1>6, <1>7, <1>11, <1>12, Concludes

LEMMA ConsFacts ==
  ASSUME NEW q \in Seq(Nat), NEW o \in Nat
  PROVE  LET e == <<o>> \o q
         IN  /\ e \in Seq(Nat) /\ Len(e) = Len(q) + 1 /\ e[1] = o
             /\ \A i \in 1..Len(q) : e[i + 1] = q[i]
             /\ \A i \in 1..Len(e) : i # 1 => e[i] = q[i - 1] /\ i - 1 \in 1..Len(q)
             /\ \A i \in Nat \ {0} : At(e, i + 1) = At(q, i)
<1> DEFINE e == <<o>> \o q
<1>1. /\ e \in Seq(Nat) /\ Len(e) = Len(q) + 1 /\ e[1] = o /\ Len(q) \in Nat
      /\ \A i \in 1..Len(e) : i # 1 => e[i] = q[i - 1]
  OBVIOUS
<1> HIDE DEF e
<1>2. \A i \in 1..Len(q) : e[i + 1] = q[i]
  BY <1>1
<1>3. \A i \in 1..Len(e) : i # 1 => i - 1 \in 1..Len(q)
  BY <1>1
<1>4. \A i \in Nat \ {0} : At(e, i + 1) = At(q, i)
  BY <1>1, <1>2 DEF At
<1>5. /\ e \in Seq(Nat) /\ Len(e) = Len(q) + 1 /\ e[1] = o
      /\ \A i \in 1..Len(q) : e[i + 1] = q[i]
      /\ \A i \in 1..Len(e) : i # 1 => e[i] = q[i - 1] /\ i - 1 \in 1..Len(q)
      /\ \A i \in Nat \ {0} : At(e, i + 1) = At(q, i)
  BY <1>1, <1>2, <1>3, <1>4
<1> QED
  BY <1>5, Zenon DEF e

LEMMA PushKeeps ==
  ASSUME PoolsInv, NEW t \in PoolThreads, Push(t)
  PROVE  PoolsInv'
<1>1. PICK L \in Lists, c \in Counts, d \in Int, m \in Makers :
        ListInv(L) /\ CountInv(L, c, d) /\ MakerInv(c, m)
  BY DEF PoolsInv
<1>2. PoolTypeOK /\ LockInv /\ HandInv
  BY DEF PoolsInv
<1>k. PICK k : k = slot[t]
  OBVIOUS
<1>o. PICK o : o = obj[t]
  OBVIOUS
<1>t. /\ k \in Slots /\ o \in Objects /\ o \in Nat /\ o # NoObject
      /\ o \in Made /\ o \notin inUse /\ link[o] = head[k]
  <2>1. k \in Slots /\ o # NoObject /\ o \in Made /\ o \notin inUse /\ link[o] = head[k]
    BY <1>2, <1>k, <1>o DEF Push, PoolTypeOK, HandInv
  <2>2. o \in Objects /\ o \in Nat
    BY <1>2, <1>o, <2>1, SlotFacts DEF PoolTypeOK, Made
  <2> QED
    BY <2>1, <2>2
<1>3. /\ Others(t) /\ slot' = slot /\ obj'[t] = NoObject
      /\ plc[t] = "push" /\ plc'[t] = "leaveF"
      /\ UNCHANGED <<nAlloc, nFree, link, spin, created, inUse>>
      /\ \A s \in Slots : head'[s] = IF s = k THEN o ELSE head[s]
      /\ head' \in [Slots -> Objects \cup {NoObject}]
      /\ plc' \in [PoolThreads -> PoolPCs] /\ obj' \in [PoolThreads -> Objects \cup {NoObject}]
  BY <1>2, <1>k, <1>o, <1>t DEF Push, PoolGoto, Others, PoolTypeOK, PoolPCs
<1>4. PoolTypeOK'
  BY <1>2, <1>3 DEF PoolTypeOK, Slots, Objects
<1>5. LockInv'
  BY <1>2, <1>3, LockStep DEF Inside
<1>6. m \in Makers' /\ MakerInv(c, m)'
  BY <1>1, <1>3, MakersStay
<1>7. /\ ~Popping(k) /\ L[k] \in Seq(Nat) /\ Len(L[k]) \in Nat
      /\ \A u \in PoolThreads : u # t /\ plc[u] \in {"pop", "push"} => slot[u] # k /\ slot[u] \in Slots
  <2>1. ~Popping(k) /\ L[k] \in Seq(Nat) /\ Len(L[k]) \in Nat
    BY <1>1, <1>2, <1>3, <1>k, FirstFacts
  <2>2. \A u \in PoolThreads : u # t /\ plc[u] \in {"pop", "push"} => slot[u] # k /\ slot[u] \in Slots
    BY <1>2, <1>3, <1>k DEF LockInv, Inside, PoolTypeOK
  <2> QED
    BY <2>1, <2>2
<1>8. ASSUME NEW u \in PoolThreads, u # t
      PROVE  plc'[u] = plc[u] /\ obj'[u] = obj[u] /\ slot'[u] = slot[u] /\ obj[u] # o
  BY <1>2, <1>3, <1>o, <1>t, <1>8 DEF Others, HandInv
<1>9. HandInv'
  <2>1. ASSUME NEW u \in PoolThreads
        PROVE  /\ plc'[u] \in {"idle", "enterA", "read", "new", "leaveF"} => obj'[u] = NoObject
               /\ plc'[u] \in {"pop", "enterF", "link", "push"} => obj'[u] # NoObject
               /\ obj'[u] # NoObject => obj'[u] \in Made' /\ obj'[u] \notin inUse'
               /\ plc'[u] = "pop" => obj'[u] = head'[slot'[u]]
               /\ plc'[u] = "push" => link'[obj'[u]] = head'[slot'[u]]
    <3>1. CASE u = t
      BY <1>3, <3>1
    <3>2. CASE u # t
      BY <1>2, <1>3, <1>7, <1>8, <3>2 DEF HandInv, Made
    <3> QED
      BY <3>1, <3>2
  <2>2. \A u, v \in PoolThreads : obj'[u] = obj'[v] /\ obj'[u] # NoObject => u = v
    BY <1>2, <1>3, <1>8 DEF HandInv
  <2>3. inUse' \subseteq Made'
    BY <1>2, <1>3 DEF HandInv, Made
  <2> QED
    BY <2>1, <2>2, <2>3 DEF HandInv
<1>10. PICK E : E = [s \in Slots |-> IF s = k THEN <<o>> \o L[s] ELSE L[s]]
  OBVIOUS
<1>11. PICK sh : \A s \in Slots : sh[s] \in {0, 1} /\ (sh[s] = 1 <=> s = k)
  <2>1. \A s \in Slots : LET z == [r \in Slots |-> IF r = k THEN 1 ELSE 0]
                         IN  z[s] \in {0, 1} /\ (z[s] = 1 <=> s = k)
    OBVIOUS
  <2> QED
    BY <2>1
<1>12. ASSUME NEW s \in Slots
       PROVE  /\ E[s] \in Seq(Nat) /\ Len(E[s]) \in Nat /\ Len(L[s]) \in Nat /\ Len(E[s]) = Len(L[s]) + sh[s]
              /\ s = k => E[s][1] = o
              /\ \A i \in 1..Len(L[s]) : E[s][i + sh[s]] = L[s][i] /\ i + sh[s] \in 1..Len(E[s])
              /\ \A i \in 1..Len(E[s]) :
                   \/ s = k /\ i = 1
                   \/ E[s][i] = L[s][i - sh[s]] /\ i - sh[s] \in 1..Len(L[s])
              /\ \A i \in Nat \ {0} : At(E[s], i + sh[s]) = At(L[s], i)
  <2>1. CASE s = k
    <3>1. E[s] = <<o>> \o L[k] /\ sh[s] = 1 /\ L[s] = L[k] /\ s = k
      BY <1>10, <1>11, <2>1
    <3>2. LET e == <<o>> \o L[k]
          IN  /\ e \in Seq(Nat) /\ Len(e) = Len(L[k]) + 1 /\ e[1] = o
              /\ \A i \in 1..Len(L[k]) : e[i + 1] = L[k][i]
              /\ \A i \in 1..Len(e) : i # 1 => e[i] = L[k][i - 1] /\ i - 1 \in 1..Len(L[k])
              /\ \A i \in Nat \ {0} : At(e, i + 1) = At(L[k], i)
      BY <1>t, <1>7, ConsFacts
    <3>3. /\ E[s] \in Seq(Nat) /\ Len(E[s]) = Len(L[s]) + 1 /\ E[s][1] = o
          /\ \A i \in 1..Len(L[s]) : E[s][i + 1] = L[s][i]
          /\ \A i \in 1..Len(E[s]) : i # 1 => E[s][i] = L[s][i - 1] /\ i - 1 \in 1..Len(L[s])
          /\ \A i \in Nat \ {0} : At(E[s], i + 1) = At(L[s], i)
      BY <3>1, <3>2, Zenon
    <3>4. Len(E[s]) \in Nat /\ Len(L[s]) \in Nat
      BY <1>7, <3>1, <3>3
    <3>5. \A i \in 1..Len(L[s]) : i + 1 \in 1..Len(E[s])
      BY <3>3, <3>4
    <3> QED
      BY <3>1, <3>3, <3>4, <3>5
  <2>2. CASE s # k
    <3>1. E[s] = L[s] /\ sh[s] = 0 /\ L[s] \in Seq(Nat) /\ Len(L[s]) \in Nat /\ s # k
      BY <1>10, <1>11, <2>2 DEF Lists
    <3> QED
      BY <3>1
  <2> QED
    BY <2>1, <2>2
<1>13. E \in Lists
  <2>1. E = [s \in Slots |-> E[s]]
    BY <1>10
  <2> QED
    BY <1>12, <2>1 DEF Lists
<1>14. ListInv(E)'
  <2>1. link[o] = At(L[k], 1)
    BY <1>1, <1>t, <1>7 DEF ListInv, FirstOf
  <2>2. \A s \in Slots : FirstOf(s)' = At(E[s], 1)
    <3> SUFFICES ASSUME NEW s \in Slots PROVE FirstOf(s)' = At(E[s], 1)
      OBVIOUS
    <3>1. Popping(s)' <=> Popping(s)
      BY <1>3, <1>8 DEF Popping
    <3>2. CASE s = k
      <4>1. FirstOf(s)' = o
        BY <1>3, <1>7, <3>1, <3>2 DEF FirstOf
      <4>2. E[s][1] = o /\ 1 \in 1..Len(E[s])
        BY <1>11, <1>12, <3>2
      <4> QED
        BY <4>1, <4>2 DEF At
    <3>3. CASE s # k
      <4>1. FirstOf(s)' = FirstOf(s)
        BY <1>3, <3>1, <3>3 DEF FirstOf
      <4>2. E[s] = L[s]
        BY <1>10, <3>3
      <4> QED
        BY <1>1, <4>1, <4>2 DEF ListInv
    <3> QED
      BY <3>2, <3>3
  <2>3. ASSUME NEW s \in Slots, NEW i \in 1..Len(E[s])
        PROVE  /\ link'[E[s][i]] = At(E[s], i + 1)
               /\ E[s][i] \in Made' /\ E[s][i] \notin inUse'
               /\ \A u \in PoolThreads : E[s][i] # obj'[u]
    <3>1. CASE s = k /\ i = 1
      <4>1. E[s][i] = o /\ sh[s] = 1 /\ 1 \in Nat \ {0}
        BY <1>11, <1>12, <3>1
      <4>2. At(E[s], 1 + 1) = At(L[k], 1)
        BY <1>12, <3>1, <4>1
      <4> QED
        BY <1>3, <1>8, <1>t, <2>1, <3>1, <4>1, <4>2 DEF Made
    <3>2. CASE E[s][i] = L[s][i - sh[s]] /\ i - sh[s] \in 1..Len(L[s])
      <4>1. PICK j \in 1..Len(L[s]) : j = i - sh[s] /\ E[s][i] = L[s][j]
        BY <3>2
      <4>2. /\ link[L[s][j]] = At(L[s], j + 1)
            /\ L[s][j] \in Made /\ L[s][j] \notin inUse
            /\ \A u \in PoolThreads : L[s][j] # obj[u]
        BY <1>1 DEF ListInv
      <4>3. At(E[s], i + 1) = At(L[s], j + 1)
        <5>1. sh[s] \in {0, 1} /\ Len(E[s]) \in Nat /\ Len(L[s]) \in Nat
          BY <1>11, <1>12
        <5>2. j + 1 \in Nat \ {0} /\ (j + 1) + sh[s] = i + 1
          BY <4>1, <5>1
        <5>3. At(E[s], (j + 1) + sh[s]) = At(L[s], j + 1)
          BY <1>12, <5>2
        <5> QED
          BY <5>2, <5>3
      <4>4. L[s][j] # NoObject
        BY <4>2, SlotFacts DEF Made
      <4> QED
        BY <1>3, <1>8, <4>1, <4>2, <4>3, <4>4 DEF Made
    <3> QED
      BY <1>12, <3>1, <3>2
  <2>4. ASSUME NEW s \in Slots, NEW r \in Slots, NEW i \in 1..Len(E[s]), NEW j \in 1..Len(E[r]),
               E[s][i] = E[r][j]
        PROVE  s = r /\ i = j
    <3>1. \/ s = k /\ i = 1 /\ E[s][i] = o
          \/ E[s][i] = L[s][i - sh[s]] /\ i - sh[s] \in 1..Len(L[s])
      BY <1>12
    <3>2. \/ r = k /\ j = 1 /\ E[r][j] = o
          \/ E[r][j] = L[r][j - sh[r]] /\ j - sh[r] \in 1..Len(L[r])
      BY <1>12
    <3>3. \A a \in Slots : \A n \in 1..Len(L[a]) : L[a][n] # o
      BY <1>1, <1>o DEF ListInv
    <3>4. CASE s = k /\ i = 1 /\ E[s][i] = o
      BY <2>4, <3>2, <3>3, <3>4
    <3>5. CASE E[s][i] = L[s][i - sh[s]] /\ i - sh[s] \in 1..Len(L[s])
      <4>1. E[r][j] = L[r][j - sh[r]] /\ j - sh[r] \in 1..Len(L[r])
        BY <2>4, <3>2, <3>3, <3>5
      <4>2. s = r /\ i - sh[s] = j - sh[r]
        <5>1. \A a, b \in Slots : \A n \in 1..Len(L[a]), l \in 1..Len(L[b]) :
                L[a][n] = L[b][l] => a = b /\ n = l
          BY <1>1 DEF ListInv
        <5>2. L[s][i - sh[s]] = L[r][j - sh[r]]
          BY <2>4, <3>5, <4>1
        <5> QED
          BY <3>5, <4>1, <5>1, <5>2
      <4>3. sh[s] \in {0, 1} /\ sh[s] = sh[r] /\ i \in Int /\ j \in Int
        BY <1>11, <4>2
      <4> QED
        BY <4>2, <4>3
    <3> QED
      BY <3>1, <3>4, <3>5
  <2>5. ASSUME NEW n \in Made'
        PROVE  \/ n \in inUse'
               \/ \E u \in PoolThreads : obj'[u] = n
               \/ \E s \in Slots : \E i \in 1..Len(E[s]) : E[s][i] = n
    <3>1. n \in Made
      BY <1>3 DEF Made
    <3>2. CASE n \in inUse
      BY <1>3, <3>2
    <3>3. CASE \E u \in PoolThreads : obj[u] = n
      <4>1. PICK u \in PoolThreads : obj[u] = n
        BY <3>3
      <4>2. CASE u = t
        <5>1. E[k][1] = n /\ 1 \in 1..Len(E[k])
          <6>1. E[k][1] = o /\ Len(E[k]) = Len(L[k]) + sh[k] /\ sh[k] = 1 /\ Len(L[k]) \in Nat
            BY <1>11, <1>12, <1>t
          <6> QED
            BY <1>o, <4>1, <4>2, <6>1
        <5> QED
          BY <1>t, <5>1
      <4>3. CASE u # t
        BY <1>8, <4>1, <4>3
      <4> QED
        BY <4>2, <4>3
    <3>4. CASE \E s \in Slots : \E i \in 1..Len(L[s]) : L[s][i] = n
      <4>1. PICK s \in Slots : \E i \in 1..Len(L[s]) : L[s][i] = n
        BY <3>4
      <4>2. PICK i \in 1..Len(L[s]) : L[s][i] = n
        BY <4>1
      <4>3. E[s][i + sh[s]] = n /\ i + sh[s] \in 1..Len(E[s])
        BY <1>12, <4>2
      <4> QED
        BY <4>3
    <3> QED
      BY <1>1, <3>1, <3>2, <3>3, <3>4 DEF ListInv
  <2> QED
    BY <2>2, <2>3, <2>4, <2>5 DEF ListInv, At, Slots
<1>15. /\ Cardinality(Allocating)' = Cardinality(Allocating)
       /\ Cardinality(Freeing)' = Cardinality(Freeing)
       /\ \A s : /\ Cardinality(Waiting(s))' = Cardinality(Waiting(s))
                 /\ Cardinality(Committed(s))' = Cardinality(Committed(s))
       /\ \A s : Cardinality(Pending(s))' =
            IF s = k THEN Cardinality(Pending(s)) - 1 ELSE Cardinality(Pending(s))
  <2>1. /\ t \notin Allocating /\ t \notin Allocating' /\ t \in Freeing /\ t \in Freeing'
        /\ \A s : /\ t \notin Pending(s)' /\ (t \in Pending(s) <=> s = k)
                  /\ t \notin Waiting(s) /\ t \notin Waiting(s)'
                  /\ t \notin Committed(s) /\ t \notin Committed(s)'
    BY <1>3, <1>k DEF Allocating, Freeing, Pending, Waiting, Committed
  <2> QED
    BY <1>2, <1>3, <2>1, ThreadStep, Numbers DEF B2N
<1>16. CountInv(E, c, d)'
  <2>1. AllocRound' = AllocRound /\ FreeRound' = FreeRound /\ \A s : Ahead(d, s)' = Ahead(d, s)
    BY <1>3 DEF AllocRound, FreeRound, Ahead
  <2>2. ASSUME NEW s \in Slots
        PROVE  /\ Len(E[s]) + Ahead(d, s)' + Cardinality(Pending(s))' = c[s] + Cardinality(Waiting(s))'
               /\ c[s] + Cardinality(Committed(s))' <= MaxInUse
    <3>1. /\ Len(L[s]) + Ahead(d, s) + Cardinality(Pending(s)) = c[s] + Cardinality(Waiting(s))
          /\ c[s] + Cardinality(Committed(s)) <= MaxInUse
      BY <1>1 DEF CountInv
    <3>2. Len(L[s]) \in Nat /\ Ahead(d, s) \in Int /\ Cardinality(Pending(s)) \in Nat
      BY <1>2, <1>12, Numbers DEF Ahead, B2N
    <3>3. Len(E[s]) + Ahead(d, s)' + Cardinality(Pending(s))' = Len(L[s]) + Ahead(d, s) + Cardinality(Pending(s))
      <4>1. CASE s = k
        <5>1. Len(E[s]) = Len(L[s]) + 1
          BY <1>11, <1>12, <4>1
        <5>2. Cardinality(Pending(s))' = Cardinality(Pending(s)) - 1
          BY <1>15, <4>1
        <5>3. Ahead(d, s)' = Ahead(d, s)
          BY <2>1
        <5>4. PICK l \in Int : l = Len(L[s])
          BY <3>2
        <5>5. PICK a \in Int : a = Ahead(d, s)
          BY <3>2
        <5>6. PICK p \in Int : p = Cardinality(Pending(s))
          BY <3>2
        <5>7. Len(E[s]) + Ahead(d, s)' + Cardinality(Pending(s))' = (l + 1) + a + (p - 1)
          BY <5>1, <5>2, <5>3, <5>4, <5>5, <5>6, Zenon
        <5>8. @ = l + a + p
          OBVIOUS
        <5> QED
          BY <5>4, <5>5, <5>6, <5>7, <5>8, Zenon
      <4>2. CASE s # k
        <5>1. E[s] = L[s] /\ Cardinality(Pending(s))' = Cardinality(Pending(s))
          BY <1>10, <1>15, <4>2
        <5> QED
          BY <2>1, <5>1
      <4> QED
        BY <4>1, <4>2
    <3> QED
      BY <1>15, <3>1, <3>3
  <2>3. /\ Cardinality(inUse)' + Cardinality(Allocating)' = d * SlotCount + AllocRound' - FreeRound'
        /\ Cardinality(inUse)' + Cardinality(Allocating)' + Cardinality(Freeing)' <= MaxInUse
    <3>1. /\ Cardinality(inUse) + Cardinality(Allocating) = d * SlotCount + AllocRound - FreeRound
          /\ Cardinality(inUse) + Cardinality(Allocating) + Cardinality(Freeing) <= MaxInUse
      BY <1>1 DEF CountInv
    <3>2. inUse' = inUse
      BY <1>3
    <3> QED
      BY <1>15, <2>1, <3>1, <3>2
  <2> QED
    BY <2>2, <2>3 DEF CountInv, Slots
<1> QED
  BY <1>4, <1>5, <1>6, <1>9, <1>13, <1>14, <1>16, Concludes

LEMMA InitPoolsInv == PoolInit => PoolsInv
<1> SUFFICES ASSUME PoolInit PROVE PoolsInv
  OBVIOUS
<1>1. /\ nAlloc = SlotCount - 1 /\ nFree = 0 /\ created = 0 /\ inUse = {}
      /\ head = [s \in Slots |-> NoObject] /\ spin = [s \in Slots |-> 0]
      /\ link = [o \in Objects |-> NoObject]
      /\ plc = [t \in PoolThreads |-> "idle"] /\ slot = [t \in PoolThreads |-> 0]
      /\ obj = [t \in PoolThreads |-> NoObject]
  BY DEF PoolInit
<1>2. PoolTypeOK
  BY <1>1, SlotFacts DEF PoolTypeOK, PoolPCs
<1>3. LockInv /\ HandInv
  BY <1>1 DEF LockInv, HandInv, Inside
<1>4. Made = {}
  BY <1>1 DEF Made
<1>5. PICK L \in Lists : \A s \in Slots : L[s] = <<>>
  <2>1. [s \in Slots |-> <<>>] \in Lists
    BY DEF Lists
  <2> QED
    BY <2>1
<1>6. PICK c \in Counts : \A s \in Slots : c[s] = 0
  <2>1. [s \in Slots |-> 0] \in Counts
    BY DEF Counts
  <2> QED
    BY <2>1
<1>7. PICK m \in Makers : TRUE
  <2>1. [o \in Made |-> <<0, 0>>] \in Makers
    BY <1>4 DEF Makers
  <2> QED
    BY <2>1
<1>8. ListInv(L)
  <2>1. \A s \in Slots : FirstOf(s) = At(L[s], 1)
    BY <1>1, <1>5 DEF FirstOf, Popping, At
  <2> QED
    BY <1>4, <1>5, <2>1 DEF ListInv
<1>9. CountInv(L, c, 0)
  <2>1. AllocRound = 0 /\ FreeRound = 0 /\ \A s \in Slots : Ahead(0, s) = 0
    BY <1>1, SlotFacts DEF AllocRound, FreeRound, Ahead, B2N
  <2>2. /\ inUse = {} /\ Allocating = {} /\ Freeing = {}
        /\ \A s : Pending(s) = {} /\ Waiting(s) = {} /\ Committed(s) = {}
    BY <1>1 DEF Allocating, Freeing, Pending, Waiting, Committed
  <2>3. /\ Cardinality(inUse) = 0 /\ Cardinality(Allocating) = 0 /\ Cardinality(Freeing) = 0
        /\ \A s : Cardinality(Pending(s)) = 0 /\ Cardinality(Waiting(s)) = 0 /\ Cardinality(Committed(s)) = 0
    BY <2>2, FS_EmptySet
  <2>4. \A s \in Slots : Len(L[s]) = 0
    BY <1>5
  <2> QED
    BY <1>6, <2>1, <2>3, <2>4, SlotFacts DEF CountInv
<1>10. MakerInv(c, m)
  BY <1>4 DEF MakerInv
<1> QED
  BY <1>2, <1>3, <1>8, <1>9, <1>10 DEF PoolsInv

LEMMA NextPoolsInv == PoolsInv /\ [PoolNext]_poolVars => PoolsInv'
<1> SUFFICES ASSUME PoolsInv, [PoolNext]_poolVars PROVE PoolsInv'
  OBVIOUS
<1>1. CASE PoolNext
  <2>1. PICK t \in PoolThreads :
          \/ AllocTicket(t) \/ SpinEnter(t, "enterA", "read") \/ ReadHead(t) \/ Pop(t)
          \/ LeaveAlloc(t) \/ New(t)
          \/ FreeTicket(t) \/ SpinEnter(t, "enterF", "link") \/ LinkObject(t) \/ Push(t)
          \/ LeaveFree(t)
    BY <1>1 DEF PoolNext
  <2> QED
    BY <2>1, AllocTicketKeeps, SpinEnterKeeps, ReadHeadKeeps, PopKeeps, LeaveAllocKeeps, NewKeeps,
       FreeTicketKeeps, LinkObjectKeeps, PushKeeps, LeaveFreeKeeps
<1>2. CASE UNCHANGED poolVars
  <2>1. PICK L \in Lists, c \in Counts, d \in Int, m \in Makers :
          ListInv(L) /\ CountInv(L, c, d) /\ MakerInv(c, m)
    BY DEF PoolsInv
  <2>2. /\ UNCHANGED <<nAlloc, nFree, head, link, spin, created, inUse>>
        /\ plc' = plc /\ slot' = slot /\ obj' = obj
    BY <1>2 DEF poolVars
  <2>3. PoolTypeOK' /\ LockInv' /\ HandInv'
    BY <2>2 DEF PoolsInv, PoolTypeOK, Slots, Objects, LockInv, Inside, HandInv, Made
  <2>4. ListInv(L)'
    <3>1. \A s \in Slots : FirstOf(s)' = FirstOf(s)
      BY <2>2 DEF FirstOf, Popping
    <3>2. link' = link /\ inUse' = inUse /\ obj' = obj /\ Made' = Made
      BY <2>2 DEF Made
    <3>3. \A s \in Slots : FirstOf(s)' = At(L[s], 1)
      BY <2>1, <3>1 DEF ListInv
    <3>4. ListInv(L)
      BY <2>1
    <3>5. ASSUME NEW s \in Slots, NEW i \in 1..Len(L[s])
          PROVE  /\ link'[L[s][i]] = At(L[s], i + 1)
                 /\ L[s][i] \in Made' /\ L[s][i] \notin inUse'
                 /\ \A u \in PoolThreads : L[s][i] # obj'[u]
      BY <3>2, <3>4 DEF ListInv
    <3>6. \A s, r \in Slots : \A i \in 1..Len(L[s]), j \in 1..Len(L[r]) :
            L[s][i] = L[r][j] => s = r /\ i = j
      BY <3>4 DEF ListInv
    <3>7. \A o \in Made' : \/ o \in inUse'
                           \/ \E u \in PoolThreads : obj'[u] = o
                           \/ \E s \in Slots : \E i \in 1..Len(L[s]) : L[s][i] = o
      <4>1. \A o \in Made : \/ o \in inUse
                            \/ \E u \in PoolThreads : obj[u] = o
                            \/ \E s \in Slots : \E i \in 1..Len(L[s]) : L[s][i] = o
        BY <3>4, Zenon DEF ListInv
      <4> QED
        BY <3>2, <4>1, Zenon
    <3> QED
      BY <3>3, <3>5, <3>6, <3>7 DEF ListInv, At, Slots
  <2>5. CountInv(L, c, d)'
    BY <2>1, <2>2 DEF CountInv, AllocRound, FreeRound, Ahead, Allocating, Freeing,
       Pending, Waiting, Committed, Slots
  <2>6. m \in Makers' /\ MakerInv(c, m)'
    BY <2>1, <2>2, MakersStay
  <2> QED
    BY <2>3, <2>4, <2>5, <2>6, Concludes
<1> QED
  BY <1>1, <1>2

\* Whatever the threads do, every slot has a list of objects of its own, which its links
\* lead to, and the counters keep it as long as they should (CIOBuffer, CPacketServer).
THEOREM PoolsInvariant == PoolSpec => []PoolsInv
BY InitPoolsInv, NextPoolsInv, PTL DEF PoolSpec

\* The pool never holds more than MaxInUse objects for each slot, for any number of
\* threads and slots, because Alloc and Free count in opposite directions (IOBuffer.cpp).
THEOREM PoolBoundedHolds == PoolSpec => []PoolBounded
<1>1. PoolsInv => PoolBounded
  BY Fits DEF PoolsInv, PoolBounded
<1> QED
  BY PoolsInvariant, <1>1, PTL

\* the list that Nth walks along
LEMMA NthIs ==
  ASSUME PoolsInv, NEW L \in Lists, ListInv(L), NEW s \in Slots
  PROVE  \A n \in Objects : Nth(s)[n] = At(L[s], n + 1)
<1> DEFINE popping == {obj[t] : t \in {u \in PoolThreads : plc[u] = "pop" /\ slot[u] = s}}
           Body(f, n) == IF n = 0 THEN IF head[s] \in popping THEN link[head[s]] ELSE head[s]
                         ELSE IF f[n - 1] = NoObject THEN NoObject ELSE link[f[n - 1]]
           g == [n \in Objects |-> At(L[s], n + 1)]
<1>1. PoolTypeOK /\ HandInv /\ Objects = 0..MaxInUse * SlotCount /\ MaxInUse * SlotCount \in Nat
  BY SlotFacts DEF PoolsInv
<1>2. head[s] \in popping <=> Popping(s)
  BY <1>1 DEF HandInv, Popping
<1>3. (IF head[s] \in popping THEN link[head[s]] ELSE head[s]) = At(L[s], 1)
  BY <1>2 DEF ListInv, FirstOf
<1>4. \A n \in Objects \ {0} : n - 1 \in Objects /\ (n - 1) + 1 = n
  BY <1>1
<1>5. \A n \in Objects \ {0} :
        At(L[s], n + 1) = IF At(L[s], n) = NoObject THEN NoObject ELSE link[At(L[s], n)]
  <2> SUFFICES ASSUME NEW n \in Objects \ {0}
               PROVE  At(L[s], n + 1) = IF At(L[s], n) = NoObject THEN NoObject ELSE link[At(L[s], n)]
    OBVIOUS
  <2>1. L[s] \in Seq(Nat) /\ Len(L[s]) \in Nat /\ n \in Nat \ {0}
    BY <1>1 DEF Lists
  <2>2. CASE n \in 1..Len(L[s])
    <3>1. At(L[s], n) = L[s][n] /\ L[s][n] \in Nat /\ link[L[s][n]] = At(L[s], n + 1)
      BY <2>1, <2>2 DEF ListInv, At
    <3> QED
      BY <3>1, SlotFacts
  <2>3. CASE n \notin 1..Len(L[s])
    <3>1. n + 1 \notin 1..Len(L[s])
      BY <2>1, <2>3
    <3> QED
      BY <2>3, <3>1 DEF At
  <2> QED
    BY <2>2, <2>3
<1>6. g = [n \in Objects |-> Body(g, n)]
  <2>1. \A n \in Objects : At(L[s], n + 1) = Body(g, n)
    <3> SUFFICES ASSUME NEW n \in Objects PROVE At(L[s], n + 1) = Body(g, n)
      OBVIOUS
    <3>1. CASE n = 0
      <4>1. n + 1 = 1
        BY <3>1
      <4> QED
        BY <1>3, <3>1, <4>1
    <3>2. CASE n # 0
      <4>1. n - 1 \in Objects /\ (n - 1) + 1 = n
        BY <1>4, <3>2
      <4>2. g[n - 1] = At(L[s], n)
        BY <4>1
      <4> HIDE DEF g
      <4> QED
        BY <1>5, <3>2, <4>2
    <3> QED
      BY <3>1, <3>2
  <2> QED
    BY <2>1
<1>7. Nth(s) = CHOOSE f : f = [n \in Objects |-> Body(f, n)]
  BY DEF Nth
<1>8. Nth(s) = [n \in Objects |-> Body(Nth(s), n)]
  <2> HIDE DEF g, Body
  <2>1. \E f : f = [n \in Objects |-> Body(f, n)]
    BY <1>6
  <2>2. (CHOOSE f : f = [n \in Objects |-> Body(f, n)])
          = [n \in Objects |-> Body(CHOOSE f : f = [i \in Objects |-> Body(f, i)], n)]
    BY <2>1
  <2> QED
    BY <1>7, <2>2
<1>9. PICK h : h = Nth(s)
  OBVIOUS
<1>10. \A n \in Objects : h[n] = Body(h, n)
  <2> HIDE DEF Body
  <2>1. h = [n \in Objects |-> Body(h, n)]
    BY <1>8, <1>9
  <2> QED
    BY <2>1
<1>11. h[0] = At(L[s], 0 + 1)
  <2>1. 0 \in Objects /\ 0 + 1 = 1
    BY <1>1
  <2> QED
    BY <1>3, <1>10, <2>1
<1>12. ASSUME NEW n \in Objects \ {0}, h[n - 1] = At(L[s], n) PROVE h[n] = At(L[s], n + 1)
  <2>1. h[n] = IF h[n - 1] = NoObject THEN NoObject ELSE link[h[n - 1]]
    BY <1>10
  <2> QED
    BY <1>5, <1>12, <2>1
<1> HIDE DEF Body, popping, g
<1>13. ASSUME NEW n \in Objects, h[n] # At(L[s], n + 1) PROVE FALSE
  <2> DEFINE S == {i \in Objects : h[i] # At(L[s], i + 1)}
  <2>1. S # {} /\ S \in SUBSET (0..MaxInUse * SlotCount)
    BY <1>1, <1>13
  <2>2. Min(S) \in S /\ \A y \in S : Min(S) <= y
    <3> HIDE DEF S
    <3> QED
      BY <1>1, <2>1, Least
  <2>3. PICK i \in S : \A y \in S : i <= y
    BY <2>2
  <2>4. i \in Objects \ {0}
    BY <1>11, <2>3
  <2>5. i - 1 \in Objects /\ (i - 1) + 1 = i
    BY <1>4, <2>4
  <2>6. i - 1 \notin S
    <3>1. ~(i <= i - 1)
      BY <1>1, <2>4
    <3> QED
      BY <2>3, <3>1
  <2>7. h[i - 1] = At(L[s], i)
    BY <2>5, <2>6
  <2> QED
    BY <1>12, <2>3, <2>4, <2>7
<1> QED
  BY <1>9, <1>13

\* a list holds no more objects than there are
LEMMA ListFits ==
  ASSUME PoolsInv, NEW L \in Lists, ListInv(L), NEW s \in Slots
  PROVE  Len(L[s]) \in Nat /\ Len(L[s]) <= MaxInUse * SlotCount
<1> DEFINE n == Len(L[s])
<1>1. L[s] \in Seq(Nat) /\ n \in Nat
  BY DEF Lists
<1>2. created \in Nat /\ created <= MaxInUse * SlotCount
  BY Fits DEF PoolsInv, PoolTypeOK
<1>3. /\ IsFiniteSet(Made) /\ Cardinality(Made) = created
      /\ IsFiniteSet(1..n) /\ Cardinality(1..n) = n
  <2> HIDE DEF n
  <2> QED
    BY <1>1, <1>2, FS_Interval DEF Made
<1>4. L[s] \in [1..n -> Made]
  <2>1. \A i \in 1..n : L[s][i] \in Made
    BY DEF ListInv
  <2>2. \A q \in Seq(Nat) : q = [i \in 1..Len(q) |-> q[i]]
    OBVIOUS
  <2>3. L[s] = [i \in 1..n |-> L[s][i]]
    BY <1>1, <2>2, Zenon
  <2>4. [i \in 1..n |-> L[s][i]] \in [1..n -> Made]
    BY <2>1, Zenon
  <2> QED
    BY <2>3, <2>4, Zenon
<1>5. ASSUME created < n PROVE FALSE
  <2> HIDE DEF n
  <2>0. Cardinality(Made) < Cardinality(1..n) /\ IsFiniteSet(Made) /\ IsFiniteSet(1..n)
    BY <1>3, <1>5
  <2>1. \E i, j \in 1..n : i # j /\ L[s][i] = L[s][j]
    BY <1>4, <2>0, FS_PigeonHole, Zenon
  <2> USE DEF n
  <2> QED
    BY <2>1 DEF ListInv
<1> HIDE DEF n
<1>6. n <= MaxInUse * SlotCount /\ n \in Nat
  BY <1>1, <1>2, <1>5, SlotFacts
<1> QED
  BY <1>6 DEF n

\* An object is never handed to two callers, never lost and never twice in the lists,
\* for any number of threads and slots (Alloc and Free in IOBuffer.cpp and IOSocket.cpp).
THEOREM PoolOnceHolds == PoolSpec => []PoolOnce
<1>1. PoolsInv => PoolOnce
  <2> SUFFICES ASSUME PoolsInv, NEW o \in Made
               PROVE  LET lists == {p \in Slots \X Objects : Nth(p[1])[p[2]] = o}
                          hands == {t \in PoolThreads : obj[t] = o}
                      IN  Cardinality(lists) + Cardinality(hands) + (IF o \in inUse THEN 1 ELSE 0) = 1
    BY DEF PoolOnce, Made
  <2>1. PICK L \in Lists : ListInv(L)
    BY DEF PoolsInv
  <2>2. o \in Nat /\ o # NoObject
    BY SlotFacts DEF PoolsInv, PoolTypeOK, Made
  <2> DEFINE lists == {p \in Slots \X Objects : Nth(p[1])[p[2]] = o}
             hands == {t \in PoolThreads : obj[t] = o}
  <2>3. \A p : p \in lists <=>
          \E s \in Slots, n \in Objects : p = <<s, n>> /\ n + 1 \in 1..Len(L[s]) /\ L[s][n + 1] = o
    <3>1. ASSUME NEW s \in Slots, NEW n \in Objects
          PROVE  Nth(s)[n] = o <=> n + 1 \in 1..Len(L[s]) /\ L[s][n + 1] = o
      BY <2>1, <2>2, NthIs DEF At
    <3>2. \A p \in Slots \X Objects : p = <<p[1], p[2]>> /\ p[1] \in Slots /\ p[2] \in Objects
      OBVIOUS
    <3> QED
      BY <3>1, <3>2
  <2>4. \A s \in Slots : \A i \in 1..Len(L[s]) : i - 1 \in Objects /\ (i - 1) + 1 = i
    <3>1. \A s \in Slots : Len(L[s]) \in Nat /\ Len(L[s]) <= MaxInUse * SlotCount
      BY <2>1, ListFits
    <3> QED
      BY <3>1, SlotFacts
  <2> HIDE DEF lists
  <2> SUFFICES Cardinality(lists) + Cardinality(hands) + (IF o \in inUse THEN 1 ELSE 0) = 1
    BY DEF lists
  <2>5. CASE o \in inUse
    <3>1. lists = {}
      BY <2>1, <2>3, <2>5 DEF ListInv
    <3>2. hands = {}
      BY <2>2, <2>5 DEF PoolsInv, HandInv
    <3>3. Cardinality(lists) = 0 /\ Cardinality(hands) = 0
      BY <3>1, <3>2, FS_EmptySet
    <3> QED
      BY <2>5, <3>3
  <2>6. CASE o \notin inUse /\ \E t \in PoolThreads : obj[t] = o
    <3>1. PICK t \in PoolThreads : obj[t] = o
      BY <2>6
    <3>2. lists = {}
      BY <2>1, <2>3, <3>1 DEF ListInv
    <3>3. hands = {t}
      BY <2>2, <3>1 DEF PoolsInv, HandInv
    <3>4. Cardinality(lists) = 0 /\ Cardinality(hands) = 1
      BY <3>2, <3>3, FS_EmptySet, FS_Singleton
    <3> QED
      BY <2>6, <3>4
  <2>7. CASE o \notin inUse /\ ~\E t \in PoolThreads : obj[t] = o
    <3>1. PICK s \in Slots : \E i \in 1..Len(L[s]) : L[s][i] = o
      BY <2>1, <2>7 DEF ListInv
    <3>2. PICK i \in 1..Len(L[s]) : L[s][i] = o
      BY <3>1
    <3>3. <<s, i - 1>> \in lists
      BY <2>3, <2>4, <3>2
    <3>4. ASSUME NEW p \in lists PROVE p = <<s, i - 1>>
      <4>1. PICK r \in Slots, n \in Objects : p = <<r, n>> /\ n + 1 \in 1..Len(L[r]) /\ L[r][n + 1] = o
        BY <2>3
      <4>2. r = s /\ n + 1 = i
        BY <2>1, <3>2, <4>1 DEF ListInv
      <4>3. n = i - 1
        BY <4>2, SlotFacts
      <4> QED
        BY <4>1, <4>2, <4>3
    <3>5. lists = {<<s, i - 1>>}
      BY <3>3, <3>4
    <3>6. hands = {}
      BY <2>7
    <3>7. Cardinality(lists) = 1 /\ Cardinality(hands) = 0
      BY <3>5, <3>6, FS_EmptySet, FS_Singleton
    <3> QED
      BY <2>7, <3>7
  <2> QED
    BY <2>5, <2>6, <2>7
<1> QED
  BY PoolsInvariant, <1>1, PTL

-----------------------------------------------------------------------------
(* Framing: what is handed on is what the whole stream contains *)

\* the results Whole is made of, of a stream s whose rest from each place has result f
Result == [packets : Seq(Nat \X Nat), closed : BOOLEAN]
Nothing == [packets |-> <<>>, closed |-> FALSE]
Refusal == [packets |-> <<>>, closed |-> TRUE]
Handed(x, rest) == [rest EXCEPT !.packets = <<x>> \o @]

LineEnds(s, p) ==
  {k \in 0..LineMax : p + k < Len(s) /\ (k = LineMax \/ s[p + k + 1] = Newline)}

SplitAt(s, f, p) ==
  IF LineEnds(s, p) = {} THEN Nothing
  ELSE Handed(<<p, Min(LineEnds(s, p))>>, f[p + Min(LineEnds(s, p)) + 1])

ParsedAt(s, f, p) ==
  IF p + Needed > Len(s) THEN Nothing
  ELSE IF BadLength(BodyLength(s, p)) THEN Refusal
  ELSE IF p + 2 + BodyLength(s, p) > Len(s) THEN Nothing
  ELSE IF Refused(s[p + 3]) THEN Refusal
  ELSE Handed(<<p + 2, BodyLength(s, p)>>, f[p + 2 + BodyLength(s, p)])

ResultAt(s, f, p) == IF class = "gm" THEN SplitAt(s, f, p) ELSE ParsedAt(s, f, p)

Solves(s, f) == f \in [0..Len(s) -> Result] /\ \A p \in 0..Len(s) : f[p] = ResultAt(s, f, p)

LEMMA BodyLengthType ==
  ASSUME NEW s \in Seq(Bytes), NEW p \in Nat, p + 2 <= Len(s)
  PROVE  BodyLength(s, p) \in Int
<1>1. ByteSize \in Nat \ {0} /\ Bytes \subseteq Nat
  BY FramingAssumption DEF Bytes
<1>2. s[p + 1] \in Nat /\ s[p + 2] \in Nat
  <2>1. p + 1 \in 1..Len(s) /\ p + 2 \in 1..Len(s)
    OBVIOUS
  <2>2. s[p + 1] \in Bytes /\ s[p + 2] \in Bytes
    <3> HIDE DEF Bytes
    <3> QED
      BY <2>1
  <2> QED
    BY <1>1, <2>2
<1>3. s[p + 2] * ByteSize \in Nat
  BY <1>1, <1>2
<1> QED
  BY <1>2, <1>3 DEF BodyLength

LEMMA LineEndsLeast ==
  ASSUME NEW s \in Seq(Bytes), NEW p \in Nat, LineEnds(s, p) # {}
  PROVE  /\ Min(LineEnds(s, p)) \in LineEnds(s, p)
         /\ \A k \in LineEnds(s, p) : Min(LineEnds(s, p)) <= k
<1>1. LineEnds(s, p) \in SUBSET (0..LineMax)
  BY DEF LineEnds
<1> QED
  BY <1>1, Least, FramingAssumption

LEMMA HandedType ==
  ASSUME NEW x \in Nat \X Nat, NEW r \in Result
  PROVE  /\ Handed(x, r) \in Result
         /\ Handed(x, r) = [packets |-> <<x>> \o r.packets, closed |-> r.closed]
<1>1. r.packets \in Seq(Nat \X Nat) /\ r.closed \in BOOLEAN /\ r = [packets |-> r.packets, closed |-> r.closed]
  BY DEF Result
<1>2. <<x>> \in Seq(Nat \X Nat)
  OBVIOUS
<1>3. <<x>> \o r.packets \in Seq(Nat \X Nat)
  BY <1>1, <1>2, Concatenation
<1>4. Handed(x, r) = [packets |-> <<x>> \o r.packets, closed |-> r.closed]
  <2>1. PICK q \in Seq(Nat \X Nat), c \in BOOLEAN : r = [packets |-> q, closed |-> c]
    BY <1>1
  <2>2. [r EXCEPT !.packets = <<x>> \o @] = [packets |-> <<x>> \o q, closed |-> c]
    <3>1. \A y : [r EXCEPT !.packets = y] = [packets |-> y, closed |-> c]
      BY <2>1
    <3>2. r.packets = q
      BY <2>1
    <3>3. [r EXCEPT !.packets = <<x>> \o @] = [r EXCEPT !.packets = <<x>> \o r.packets]
      OBVIOUS
    <3> QED
      BY <3>1, <3>2, <3>3, Zenon
  <2> QED
    BY <2>1, <2>2 DEF Handed
<1> QED
  BY <1>1, <1>3, <1>4 DEF Result

\* the result at a place does not look at others or looks at one later place
LEMMA Shape ==
  ASSUME NEW s \in Seq(Bytes), NEW p \in 0..Len(s)
  PROVE  \/ \A f : ResultAt(s, f, p) = Nothing
         \/ \A f : ResultAt(s, f, p) = Refusal
         \/ \E x \in Nat \X Nat, r \in p + 1..Len(s) : \A f : ResultAt(s, f, p) = Handed(x, f[r])
<1>0. Len(s) \in Nat /\ p \in Nat /\ LineMax \in Nat
  BY FramingAssumption
<1>1. CASE class = "gm"
  <2>1. \A f : ResultAt(s, f, p) = SplitAt(s, f, p)
    BY <1>1 DEF ResultAt
  <2>2. CASE LineEnds(s, p) = {}
    BY <2>1, <2>2 DEF SplitAt
  <2>3. CASE LineEnds(s, p) # {}
    <3> DEFINE k == Min(LineEnds(s, p))
    <3>1. k \in LineEnds(s, p)
      BY <1>0, <2>3, LineEndsLeast
    <3>2. k \in Nat /\ p + k < Len(s)
      BY <1>0, <3>1 DEF LineEnds
    <3>3. \A f : ResultAt(s, f, p) = Handed(<<p, k>>, f[p + k + 1])
      BY <2>1, <2>3 DEF SplitAt
    <3> HIDE DEF k
    <3>4. p + k + 1 \in p + 1..Len(s) /\ <<p, k>> \in Nat \X Nat
      BY <1>0, <3>2
    <3> QED
      BY <3>3, <3>4
  <2> QED
    BY <2>2, <2>3
<1>2. CASE class # "gm"
  <2>1. \A f : ResultAt(s, f, p) = ParsedAt(s, f, p)
    BY <1>2 DEF ResultAt
  <2>2. CASE p + Needed > Len(s)
    BY <2>1, <2>2 DEF ParsedAt
  <2>3. CASE ~(p + Needed > Len(s))
    <3> DEFINE len == BodyLength(s, p)
    <3>1. len \in Int
      BY <1>0, <2>3, BodyLengthType DEF Needed
    <3>2. \A f : ResultAt(s, f, p) = IF BadLength(len) THEN Refusal
                                     ELSE IF p + 2 + len > Len(s) THEN Nothing
                                     ELSE IF Refused(s[p + 3]) THEN Refusal
                                     ELSE Handed(<<p + 2, len>>, f[p + 2 + len])
      BY <2>1, <2>3 DEF ParsedAt
    <3> HIDE DEF len
    <3>3. CASE BadLength(len) \/ p + 2 + len > Len(s) \/ Refused(s[p + 3])
      BY <3>2, <3>3
    <3>4. CASE ~(BadLength(len) \/ p + 2 + len > Len(s) \/ Refused(s[p + 3]))
      <4>1. \A f : ResultAt(s, f, p) = Handed(<<p + 2, len>>, f[p + 2 + len])
        BY <3>2, <3>4
      <4>2. p + 2 + len \in p + 1..Len(s) /\ <<p + 2, len>> \in Nat \X Nat
        BY <1>0, <3>1, <3>4, FramingAssumption DEF BadLength
      <4> QED
        BY <4>1, <4>2
    <3> QED
      BY <3>3, <3>4
  <2> QED
    BY <2>2, <2>3
<1> QED
  BY <1>1, <1>2

LEMMA ResultLater ==
  ASSUME NEW s \in Seq(Bytes), NEW p \in 0..Len(s), NEW f, NEW g,
         \A r \in p + 1..Len(s) : f[r] = g[r]
  PROVE  ResultAt(s, f, p) = ResultAt(s, g, p)
<1>1. CASE \A h : ResultAt(s, h, p) = Nothing
  BY <1>1, Zenon
<1>2. CASE \A h : ResultAt(s, h, p) = Refusal
  BY <1>2, Zenon
<1>3. CASE \E x \in Nat \X Nat, r \in p + 1..Len(s) : \A h : ResultAt(s, h, p) = Handed(x, h[r])
  BY <1>3, Zenon
<1> QED
  BY <1>1, <1>2, <1>3, Shape, Zenon

LEMMA ResultType ==
  ASSUME NEW s \in Seq(Bytes), NEW p \in 0..Len(s), NEW f \in [0..Len(s) -> Result]
  PROVE  ResultAt(s, f, p) \in Result
<1>1. Nothing \in Result /\ Refusal \in Result
  BY DEF Nothing, Refusal, Result
<1>2. \A r \in p + 1..Len(s) : r \in 0..Len(s) /\ f[r] \in Result
  OBVIOUS
<1>3. CASE \A h : ResultAt(s, h, p) = Nothing
  BY <1>1, <1>3, Zenon
<1>4. CASE \A h : ResultAt(s, h, p) = Refusal
  BY <1>1, <1>4, Zenon
<1>5. CASE \E x \in Nat \X Nat, r \in p + 1..Len(s) : \A h : ResultAt(s, h, p) = Handed(x, h[r])
  <2>1. \A x \in Nat \X Nat, h \in Result : Handed(x, h) \in Result
    BY HandedType
  <2> QED
    BY <1>2, <1>5, <2>1, Zenon
<1> QED
  BY <1>3, <1>4, <1>5, Shape, Zenon

\* Every stream has a result from each of its places on, and only one.
LEMMA SolutionExists ==
  ASSUME NEW s \in Seq(Bytes)
  PROVE  \E f : Solves(s, f)
<1> DEFINE n == Len(s)
           Solved(k, f) == \A p \in 0..n : p >= k => f[p] = ResultAt(s, f, p)
           S == {k \in 0..n + 1 : \E f \in [0..n -> Result] : Solved(k, f)}
           m == Min(S)
<1>0. n \in Nat
  OBVIOUS
<1>1. n + 1 \in S
  <2>1. Nothing \in Result
    BY DEF Nothing, Result
  <2>2. [p \in 0..n |-> Nothing] \in [0..n -> Result] /\ \A p \in 0..n : ~(p >= n + 1)
    BY <1>0, <2>1
  <2>3. n + 1 \in 0..n + 1
    BY <1>0
  <2>4. Solved(n + 1, [p \in 0..n |-> Nothing])
    BY <2>2
  <2> HIDE DEF Solved
  <2> QED
    BY <2>2, <2>3, <2>4
<1>2. m \in S /\ \A k \in S : m <= k
  BY <1>0, <1>1, Least
<1> HIDE DEF m
<1>3. PICK f \in [0..n -> Result] : Solved(m, f)
  BY <1>2
<1>4. m = 0
  <2> SUFFICES ASSUME m # 0 PROVE FALSE
    OBVIOUS
  <2>1. m - 1 \in 0..n /\ m \in Nat
    BY <1>0, <1>2
  <2> DEFINE g == [p \in 0..n |-> IF p = m - 1 THEN ResultAt(s, f, p) ELSE f[p]]
  <2>2. g \in [0..n -> Result]
    BY ResultType
  <2>3. \A p \in 0..n : g[p] = IF p = m - 1 THEN ResultAt(s, f, p) ELSE f[p]
    OBVIOUS
  <2> HIDE DEF g
  <2>4. Solved(m - 1, g)
    <3> SUFFICES ASSUME NEW p \in 0..n, p >= m - 1 PROVE g[p] = ResultAt(s, g, p)
      OBVIOUS
    <3>1. \A r \in p + 1..Len(s) : f[r] = g[r]
      BY <1>0, <2>1, <2>3
    <3>2. ResultAt(s, f, p) = ResultAt(s, g, p)
      BY <3>1, ResultLater
    <3> QED
      BY <1>3, <2>1, <2>3, <3>2
  <2>5. m - 1 \in S
    <3>1. m - 1 \in 0..n + 1
      BY <1>0, <2>1
    <3> HIDE DEF Solved
    <3> QED
      BY <2>2, <2>4, <3>1
  <2>6. m <= m - 1
    BY <1>2, <2>5
  <2> QED
    BY <2>1, <2>6
<1>5. \A p \in 0..n : f[p] = ResultAt(s, f, p)
  BY <1>3, <1>4
<1> QED
  BY <1>3, <1>5 DEF Solves

LEMMA SolutionUnique ==
  ASSUME NEW s \in Seq(Bytes), NEW f, NEW g,
         \A p \in 0..Len(s) : f[p] = ResultAt(s, f, p) /\ g[p] = ResultAt(s, g, p)
  PROVE  \A p \in 0..Len(s) : f[p] = g[p]
<1> DEFINE S == {p \in 0..Len(s) : f[p] # g[p]}
<1> SUFFICES ASSUME S # {} PROVE FALSE
  OBVIOUS
<1>0. Len(s) \in Nat
  OBVIOUS
<1>1. Max(S) \in S /\ \A p \in S : p <= Max(S)
  <2> S \in SUBSET (0..Len(s))
    OBVIOUS
  <2> HIDE DEF S
  <2> QED
    BY <1>0, Greatest
<1>2. \A r \in Max(S) + 1..Len(s) : f[r] = g[r]
  BY <1>0, <1>1
<1> QED
  BY <1>1, <1>2, ResultLater

LEMMA WholeIs ==
  ASSUME received \in Seq(Bytes), NEW f, Solves(received, f)
  PROVE  Whole = f[0]
<1> DEFINE n == Len(received)
           p1 == CHOOSE g : g = [p \in 0..n |-> ParsedAt(received, g, p)]
           s1 == CHOOSE g : g = [p \in 0..n |-> SplitAt(received, g, p)]
<1>1. Whole = IF class = "gm" THEN s1[0] ELSE p1[0]
  BY DEF Whole, ParsedAt, SplitAt, Nothing, Refusal, Handed, LineEnds, Min
<1>2. f = [p \in 0..n |-> ResultAt(received, f, p)]
  BY DEF Solves
<1>3. 0 \in 0..n
  OBVIOUS
<1>4. CASE class = "gm"
  <2>1. f = [p \in 0..n |-> SplitAt(received, f, p)]
    BY <1>2, <1>4 DEF ResultAt
  <2>2. s1 = [p \in 0..n |-> SplitAt(received, s1, p)]
    BY <2>1, Zenon
  <2> HIDE DEF s1
  <2>3. \A p \in 0..n : f[p] = ResultAt(received, f, p) /\ s1[p] = ResultAt(received, s1, p)
    BY <1>4, <2>1, <2>2 DEF ResultAt
  <2>4. f[0] = s1[0]
    BY <1>3, <2>3, SolutionUnique
  <2> QED
    BY <1>1, <1>4, <2>4
<1>5. CASE class # "gm"
  <2>1. f = [p \in 0..n |-> ParsedAt(received, f, p)]
    BY <1>2, <1>5 DEF ResultAt
  <2>2. p1 = [p \in 0..n |-> ParsedAt(received, p1, p)]
    BY <2>1, Zenon
  <2> HIDE DEF p1
  <2>3. \A p \in 0..n : f[p] = ResultAt(received, f, p) /\ p1[p] = ResultAt(received, p1, p)
    BY <1>5, <2>1, <2>2 DEF ResultAt
  <2>4. f[0] = p1[0]
    BY <1>3, <2>3, SolutionUnique
  <2> QED
    BY <1>1, <1>5, <2>4
<1> QED
  BY <1>4, <1>5
-----------------------------------------------------------------------------
\* the stream may go on as s
Extends(s) ==
  /\ s \in Seq(Bytes) /\ Len(received) <= Len(s)
  /\ \A i \in 1..Len(received) : s[i] = received[i]

\* where the first packet or line begins that is not handed on yet
Reached ==
  IF class = "gm" THEN Place(start) ELSE IF mode = "len" THEN Place(pi) ELSE Place(pi) - 2

\* the buffer is the end of the stream
BufferInv ==
  /\ Len(buffer) <= Len(received) /\ pi <= Len(buffer) /\ start <= pi /\ Reached \in Nat
  /\ \A i \in 1..Len(buffer) : buffer[i] = received[Place(i)]
  /\ doing = "waiting" => pi = 0 /\ start = 0

\* what was handed on comes first in every stream that begins like this one
HandedOnInv ==
  \A s, f : Extends(s) /\ Solves(s, f) =>
    f[0] = [packets |-> posted \o f[Reached].packets, closed |-> f[Reached].closed]

\* the length at p is whole and one the code takes
HasLength(s, p) == p + Needed <= Len(s) /\ ~BadLength(BodyLength(s, p))

\* packets: between the length and the body packetLen is the length before the place; a
\* read is asked for only when the packet is not whole, a connection closed only for a
\* bad packet
PacketInv ==
  class # "gm" =>
    /\ mode = "body" =>
         /\ HasLength(received, Reached)
         /\ packetLen = BodyLength(received, Reached)
    /\ doing = "waiting" =>
         Len(buffer) < (IF mode = "len" THEN Needed ELSE packetLen)
    /\ doing = "closed" =>
         \/ /\ mode = "len" /\ Reached + Needed <= Len(received)
            /\ BadLength(BodyLength(received, Reached))
         \/ /\ mode = "body" /\ Reached + 2 + packetLen <= Len(received)
            /\ Refused(received[Reached + 3])

\* lines: the one that is read has no end yet and is not too long
LineInv ==
  class = "gm" =>
    /\ mode = "len" /\ doing # "closed"
    /\ pi - start <= LineMax /\ \A i \in start + 1..pi : buffer[i] # Newline
    /\ doing = "waiting" =>
         Len(buffer) <= LineMax /\ \A i \in 1..Len(buffer) : buffer[i] # Newline

FrameInv == FrameTypeOK /\ BufferInv /\ HandedOnInv /\ PacketInv /\ LineInv

\* Between two reads the stream so far holds nothing more to hand on.
LEMMA NothingMore ==
  ASSUME FrameInv, doing # "loop"
  PROVE  PacketsAsSent
<1>0. /\ received \in Seq(Bytes) /\ posted \in Seq(Nat \X Nat) /\ Reached \in Nat
      /\ Len(received) \in Nat /\ Len(buffer) \in Nat /\ doing \in {"waiting", "closed"}
  BY DEF FrameInv, FrameTypeOK, BufferInv
<1>1. PICK f : Solves(received, f)
  BY <1>0, SolutionExists
<1>2. f[0] = [packets |-> posted \o f[Reached].packets, closed |-> f[Reached].closed]
  <2>1. Extends(received)
    BY <1>0 DEF Extends
  <2> QED
    BY <1>1, <2>1, Zenon DEF FrameInv, HandedOnInv
<1>3. f[Reached] = [packets |-> <<>>, closed |-> doing = "closed"]
  <2>1. Reached \in 0..Len(received)
    BY <1>0 DEF FrameInv, FrameTypeOK, BufferInv, Reached, Place
  <2>2. f[Reached] = ResultAt(received, f, Reached)
    BY <1>1, <2>1 DEF Solves
  <2>3. CASE class = "gm"
    <3>1. doing = "waiting" /\ pi = 0 /\ start = 0
      BY <1>0, <2>3 DEF FrameInv, LineInv, BufferInv
    <3>2. LineEnds(received, Reached) = {}
      <4> SUFFICES ASSUME NEW k \in 0..LineMax, Reached + k < Len(received),
                          k = LineMax \/ received[Reached + k + 1] = Newline
                   PROVE  FALSE
        BY DEF LineEnds
      <4>1. Reached = Len(received) - Len(buffer)
        BY <1>0, <2>3, <3>1 DEF Reached, Place
      <4>2. LineMax \in Nat /\ k \in Nat
        BY FramingAssumption
      <4>3. k < Len(buffer) /\ k + 1 \in 1..Len(buffer) /\ Place(k + 1) = Reached + k + 1
        BY <1>0, <4>1, <4>2 DEF Place
      <4>4. buffer[k + 1] = received[Reached + k + 1]
        BY <4>3 DEF FrameInv, BufferInv
      <4>5. k # LineMax /\ buffer[k + 1] # Newline
        BY <1>0, <2>3, <3>1, <4>2, <4>3 DEF FrameInv, LineInv
      <4> QED
        BY <4>4, <4>5
    <3>3. ResultAt(received, f, Reached) = Nothing
      BY <2>3, <3>2 DEF ResultAt, SplitAt
    <3> QED
      BY <2>2, <3>1, <3>3 DEF Nothing
  <2>4. CASE class # "gm"
    <3>1. ResultAt(received, f, Reached) = ParsedAt(received, f, Reached)
      BY <2>4 DEF ResultAt
    <3>2. Needed \in Nat /\ Needed >= 2 /\ packetLen \in Int /\ mode \in {"len", "body"}
      BY DEF Needed, FrameInv, FrameTypeOK
    <3>3. CASE doing = "waiting"
      <4>1. pi = 0
        BY <3>3 DEF FrameInv, BufferInv
      <4>2. CASE mode = "len"
        <5>1. Reached + Needed > Len(received)
          BY <1>0, <2>4, <3>2, <3>3, <4>1, <4>2 DEF FrameInv, PacketInv, Reached, Place
        <5>2. ParsedAt(received, f, Reached) = Nothing
          BY <5>1 DEF ParsedAt
        <5> QED
          BY <2>2, <3>1, <3>3, <5>2 DEF Nothing
      <4>3. CASE mode = "body"
        <5>1. Reached + 2 + packetLen > Len(received)
          BY <1>0, <2>4, <3>2, <3>3, <4>1, <4>3 DEF FrameInv, PacketInv, Reached, Place
        <5>2. /\ Reached + Needed <= Len(received) /\ ~BadLength(packetLen)
              /\ packetLen = BodyLength(received, Reached)
          BY <2>4, <4>3 DEF FrameInv, PacketInv, HasLength
        <5>3. ParsedAt(received, f, Reached) = Nothing
          BY <1>0, <3>2, <5>1, <5>2 DEF ParsedAt
        <5> QED
          BY <2>2, <3>1, <3>3, <5>3 DEF Nothing
      <4> QED
        BY <3>2, <4>2, <4>3
    <3>4. CASE doing = "closed"
      <4>1. CASE mode = "len"
        <5>1. Reached + Needed <= Len(received) /\ BadLength(BodyLength(received, Reached))
          BY <2>4, <3>4, <4>1 DEF FrameInv, PacketInv
        <5>2. ParsedAt(received, f, Reached) = Refusal
          BY <1>0, <3>2, <5>1 DEF ParsedAt
        <5> QED
          BY <2>2, <3>1, <3>4, <5>2 DEF Refusal
      <4>2. CASE mode = "body"
        <5>1. /\ Reached + Needed <= Len(received) /\ ~BadLength(packetLen)
              /\ packetLen = BodyLength(received, Reached)
          BY <2>4, <4>2 DEF FrameInv, PacketInv, HasLength
        <5>2. Reached + 2 + packetLen <= Len(received) /\ Refused(received[Reached + 3])
          BY <2>4, <3>4, <4>2 DEF FrameInv, PacketInv
        <5>3. ParsedAt(received, f, Reached) = Refusal
          BY <1>0, <3>2, <5>1, <5>2 DEF ParsedAt
        <5> QED
          BY <2>2, <3>1, <3>4, <5>3 DEF Refusal
      <4> QED
        BY <3>2, <4>1, <4>2
    <3> QED
      BY <1>0, <3>3, <3>4
  <2> QED
    BY <2>3, <2>4
<1>4. Whole = [packets |-> posted \o <<>>, closed |-> doing = "closed"]
  <2>1. Whole = f[0]
    BY <1>0, <1>1, WholeIs
  <2>2. f[Reached].packets = <<>> /\ f[Reached].closed = (doing = "closed")
    BY <1>3
  <2> QED
    BY <1>2, <2>1, <2>2, Zenon
<1>5. posted \o <<>> = posted
  BY <1>0
<1> QED
  BY <1>4, <1>5 DEF PacketsAsSent
-----------------------------------------------------------------------------
LEMMA Steady ==
  ASSUME class' = class
  PROVE  /\ Needed' = Needed
         /\ \A n : (BadLength(n)' <=> BadLength(n)) /\ (Refused(n)' <=> Refused(n))
         /\ \A s, p : BodyLength(s, p)' = BodyLength(s, p)
         /\ \A s, f : Solves(s, f)' <=> Solves(s, f)
<1>1. Needed' = Needed
  BY Zenon DEF Needed
<1>2. \A n : (BadLength(n)' <=> BadLength(n)) /\ (Refused(n)' <=> Refused(n))
  BY Zenon DEF BadLength, Refused
<1>3. \A s, p : BodyLength(s, p)' = BodyLength(s, p)
  BY Zenon DEF BodyLength
<1>4. \A s, f, p : ResultAt(s, f, p)' = ResultAt(s, f, p)
  <2>1. \A s, f, p : SplitAt(s, f, p)' = SplitAt(s, f, p)
    BY Zenon DEF SplitAt, LineEnds, Min, Handed, Nothing, Newline
  <2>2. \A s, f, p : ParsedAt(s, f, p)' = ParsedAt(s, f, p)
    BY SMT DEF ParsedAt, Needed, BadLength, Refused, BodyLength, Handed, Nothing, Refusal
  <2> QED
    BY <2>1, <2>2, Zenon DEF ResultAt
<1>5. \A s, f : Solves(s, f)' <=> Solves(s, f)
  BY <1>4, Zenon DEF Solves, Result
<1> QED
  BY <1>1, <1>2, <1>3, <1>5

LEMMA HandedOnStays ==
  ASSUME HandedOnInv, class' = class, posted' = posted, Reached' = Reached,
         \A s : Extends(s)' => Extends(s)
  PROVE  HandedOnInv'
<1>1. \A s, f : Solves(s, f)' => Solves(s, f)
  BY Steady
<1> QED
  BY <1>1, Zenon DEF HandedOnInv

LEMMA AppendConcat ==
  ASSUME NEW u \in Seq(Nat \X Nat), NEW x \in Nat \X Nat, NEW q \in Seq(Nat \X Nat)
  PROVE  u \o (<<x>> \o q) = Append(u, x) \o q
<1>1. PICK S : S = Nat \X Nat
  OBVIOUS
<1>2. u \in Seq(S) /\ x \in S /\ q \in Seq(S)
  BY <1>1, Zenon
<1>3. <<x>> \in Seq(S)
  BY <1>2
<1>4. Append(u, x) = u \o <<x>>
  BY <1>2, AppendIsConcat
<1>5. (u \o <<x>>) \o q = u \o (<<x>> \o q)
  BY <1>2, <1>3, ConcatAssociative
<1> QED
  BY <1>4, <1>5, Zenon

LEMMA HandedOnGrows ==
  ASSUME FrameInv, class' = class, received' = received, NEW x \in Nat \X Nat,
         posted' = Append(posted, x), Reached' \in Nat, Reached' <= Len(received),
         \A s, f : Extends(s) => ResultAt(s, f, Reached) = Handed(x, f[Reached'])
  PROVE  HandedOnInv'
<1>1. \A s, f : Solves(s, f)' => Solves(s, f)
  BY Steady
<1>2. \A s : Extends(s)' => Extends(s)
  BY Zenon DEF Extends, Bytes
<1> SUFFICES ASSUME NEW s, NEW f, Extends(s), Solves(s, f)
             PROVE  f[0] = [packets |-> posted' \o f[Reached'].packets, closed |-> f[Reached'].closed]
  BY <1>1, <1>2, Zenon DEF HandedOnInv
<1>3. PICK r \in Nat : r = Reached'
  OBVIOUS
<1>4. ResultAt(s, f, Reached) = Handed(x, f[r]) /\ r <= Len(received)
  BY <1>3, Zenon
<1>5. /\ posted \in Seq(Nat \X Nat) /\ Reached \in Nat /\ Reached <= Len(received)
      /\ Len(received) \in Nat /\ Len(s) \in Nat /\ Len(received) <= Len(s)
  BY DEF FrameInv, FrameTypeOK, BufferInv, Reached, Place, Extends
<1>6. f[0] = [packets |-> posted \o f[Reached].packets, closed |-> f[Reached].closed]
  BY DEF FrameInv, HandedOnInv
<1>7. f[r] \in Result /\ f[Reached] = Handed(x, f[r])
  <2>1. r \in 0..Len(s) /\ Reached \in 0..Len(s)
    BY <1>4, <1>5
  <2>2. f \in [0..Len(s) -> Result] /\ \A p \in 0..Len(s) : f[p] = ResultAt(s, f, p)
    BY DEF Solves
  <2>3. f[r] \in Result
    BY <2>1, <2>2
  <2> QED
    BY <1>4, <2>1, <2>2, <2>3, Zenon
<1>8. f[Reached].packets = <<x>> \o f[r].packets /\ f[Reached].closed = f[r].closed
  <2>1. f[Reached] = [packets |-> <<x>> \o f[r].packets, closed |-> f[r].closed]
    <3>1. \A h \in Result : Handed(x, h) = [packets |-> <<x>> \o h.packets, closed |-> h.closed]
      BY HandedType
    <3> QED
      BY <1>7, <3>1, Zenon
  <2>2. PICK q, c : q = <<x>> \o f[r].packets /\ c = f[r].closed
    OBVIOUS
  <2>3. f[Reached] = [packets |-> q, closed |-> c]
    BY <2>1, <2>2, Zenon
  <2>4. f[Reached].packets = q /\ f[Reached].closed = c
    BY <2>3
  <2> QED
    BY <2>2, <2>4, Zenon
<1>9. f[r].packets \in Seq(Nat \X Nat)
  BY <1>7 DEF Result
<1>10. posted \o (<<x>> \o f[r].packets) = Append(posted, x) \o f[r].packets
  BY <1>5, <1>9, AppendConcat
<1> QED
  BY <1>3, <1>6, <1>8, <1>10, Zenon

LEMMA InitFrameInv == FrameInit => FrameInv
<1> SUFFICES ASSUME FrameInit PROVE FrameInv
  OBVIOUS
<1>1. /\ received = <<>> /\ buffer = <<>> /\ posted = <<>> /\ pi = 0 /\ start = 0
      /\ mode = "len" /\ doing = "waiting" /\ packetLen = 0 /\ Len(received) = 0 /\ Len(buffer) = 0
      /\ class \in {"client", "world", "log", "billing", "gm"}
  BY DEF FrameInit
<1>2. Reached = 0 /\ LineMax \in Nat /\ Needed \in {2, 3}
  BY <1>1, FramingAssumption DEF Reached, Place, Needed
<1>3. FrameTypeOK
  BY <1>1 DEF FrameTypeOK
<1>4. BufferInv
  BY <1>1, <1>2 DEF BufferInv
<1>5. PacketInv /\ LineInv
  BY <1>1, <1>2 DEF PacketInv, LineInv
<1>6. HandedOnInv
  <2> SUFFICES ASSUME NEW s, NEW f, Extends(s), Solves(s, f)
               PROVE  f[0] = [packets |-> <<>> \o f[0].packets, closed |-> f[0].closed]
    BY <1>1, <1>2, Zenon DEF HandedOnInv
  <2>1. f[0] \in Result
    BY DEF Extends, Solves
  <2>2. PICK q \in Seq(Nat \X Nat), c \in BOOLEAN : f[0] = [packets |-> q, closed |-> c]
    BY <2>1 DEF Result
  <2>3. f[0].packets = q /\ f[0].closed = c /\ <<>> \o q = q
    BY <2>2
  <2> QED
    BY <2>2, <2>3, Zenon
<1> QED
  BY <1>3, <1>4, <1>5, <1>6 DEF FrameInv

LEMMA ReceiveKeeps ==
  ASSUME FrameInv, Receive
  PROVE  FrameInv'
<1> PICK n \in 1..BufferSize - Len(buffer) : \E chunk \in [1..n -> Bytes] :
        received' = received \o chunk /\ buffer' = buffer \o chunk
  BY DEF Receive
<1>1. PICK chunk \in [1..n -> Bytes] : received' = received \o chunk /\ buffer' = buffer \o chunk
  OBVIOUS
<1>2. /\ pi' = 0 /\ start' = 0 /\ doing' = "loop" /\ doing = "waiting" /\ class' = class
      /\ mode' = mode /\ packetLen' = packetLen /\ posted' = posted
  BY DEF Receive
<1>3. /\ received \in Seq(Bytes) /\ buffer \in Seq(Bytes) /\ posted \in Seq(Nat \X Nat)
      /\ pi = 0 /\ start = 0 /\ packetLen \in Int /\ mode \in {"len", "body"}
      /\ Len(buffer) <= Len(received) /\ Reached \in Nat
  BY <1>2 DEF FrameInv, FrameTypeOK, BufferInv
<1>4. chunk \in Seq(Bytes) /\ Len(chunk) = n /\ n \in Nat
  <2>1. BufferSize \in Nat /\ n \in Nat
    BY <1>3, FramingAssumption
  <2> QED
    BY <2>1
<1>5. /\ received' \in Seq(Bytes) /\ Len(received') = Len(received) + n
      /\ \A i \in 1..Len(received) : received'[i] = received[i]
      /\ \A i \in 1..n : received'[Len(received) + i] = chunk[i]
  <2>1. received \in Seq(Bytes) /\ chunk \in Seq(Bytes)
    BY <1>3, <1>4
  <2> HIDE DEF Bytes
  <2>2. /\ received \o chunk \in Seq(Bytes) /\ Len(received \o chunk) = Len(received) + Len(chunk)
        /\ \A i \in 1..Len(received) : (received \o chunk)[i] = received[i]
        /\ \A i \in 1..Len(chunk) : (received \o chunk)[Len(received) + i] = chunk[i]
    BY <2>1, Concatenation
  <2> QED
    BY <1>1, <1>4, <2>2, Zenon
<1>6. /\ buffer' \in Seq(Bytes) /\ Len(buffer') = Len(buffer) + n
      /\ \A i \in 1..Len(buffer) : buffer'[i] = buffer[i]
      /\ \A i \in 1..n : buffer'[Len(buffer) + i] = chunk[i]
  <2>1. buffer \in Seq(Bytes) /\ chunk \in Seq(Bytes)
    BY <1>3, <1>4
  <2> HIDE DEF Bytes
  <2>2. /\ buffer \o chunk \in Seq(Bytes) /\ Len(buffer \o chunk) = Len(buffer) + Len(chunk)
        /\ \A i \in 1..Len(buffer) : (buffer \o chunk)[i] = buffer[i]
        /\ \A i \in 1..Len(chunk) : (buffer \o chunk)[Len(buffer) + i] = chunk[i]
    BY <2>1, Concatenation
  <2> QED
    BY <1>1, <1>4, <2>2, Zenon
<1>7. \A i \in Int : Place(i)' = Place(i)
  BY <1>3, <1>4, <1>5, <1>6 DEF Place
<1>8. Reached' = Reached /\ Reached <= Len(received)
  BY <1>2, <1>3, <1>4, <1>5, <1>6 DEF Reached, Place
<1>9. FrameTypeOK'
  BY <1>2, <1>3, <1>5, <1>6 DEF FrameTypeOK, Bytes
<1>10. BufferInv'
  <2>1. \A i \in 1..Len(buffer') : buffer'[i] = received'[Place(i)']
    <3> SUFFICES ASSUME NEW i \in 1..Len(buffer') PROVE buffer'[i] = received'[Place(i)']
      OBVIOUS
    <3>1. CASE i \in 1..Len(buffer)
      <4>1. buffer[i] = received[Place(i)] /\ Place(i) \in 1..Len(received)
        BY <1>3, <3>1 DEF FrameInv, BufferInv, Place
      <4>2. Place(i)' = Place(i)
        BY <1>7, <3>1
      <4> QED
        BY <1>5, <1>6, <3>1, <4>1, <4>2
    <3>2. CASE i \notin 1..Len(buffer)
      <4>1. PICK k \in 1..n : i = Len(buffer) + k
        <5>1. i - Len(buffer) \in 1..n /\ i = Len(buffer) + (i - Len(buffer))
          BY <1>3, <1>4, <1>6, <3>2
        <5> QED
          BY <5>1
      <4>2. Place(i)' = Len(received) + k
        BY <1>3, <1>4, <1>7, <4>1 DEF Place
      <4> QED
        BY <1>5, <1>6, <4>1, <4>2
    <3> QED
      BY <3>1, <3>2
  <2>2. Len(buffer') <= Len(received') /\ 0 <= Len(buffer')
    BY <1>3, <1>4, <1>5, <1>6
  <2>3. Reached' \in Nat /\ pi' = 0 /\ start' = 0 /\ doing' # "waiting"
    BY <1>2, <1>3, <1>8
  <2> QED
    BY <2>1, <2>2, <2>3, SMT DEF BufferInv, Place
<1>11. HandedOnInv'
  <2>1. \A s : Extends(s)' => Extends(s)
    <3> SUFFICES ASSUME NEW s, Extends(s)' PROVE Extends(s)
      OBVIOUS
    <3>1. s \in Seq(Bytes) /\ Len(received') <= Len(s) /\ \A i \in 1..Len(received') : s[i] = received'[i]
      BY DEF Extends, Bytes
    <3> QED
      BY <1>3, <1>4, <1>5, <3>1 DEF Extends
  <2> QED
    BY <1>2, <1>8, <2>1, HandedOnStays DEF FrameInv
<1>12. PacketInv'
  <2> SUFFICES ASSUME class # "gm", mode = "body"
               PROVE  HasLength(received, Reached)' /\ packetLen' = BodyLength(received, Reached)'
    BY <1>2 DEF PacketInv
  <2>1. HasLength(received, Reached) /\ packetLen = BodyLength(received, Reached)
    BY DEF FrameInv, PacketInv
  <2>2. Reached + 1 \in 1..Len(received) /\ Reached + 2 \in 1..Len(received)
    BY <1>3, <2>1 DEF HasLength, Needed
  <2>3. BodyLength(received', Reached) = BodyLength(received, Reached)
    BY <1>5, <2>2 DEF BodyLength
  <2>4. Needed' = Needed /\ Needed \in Nat
    BY <1>2 DEF Needed
  <2>5. BodyLength(received, Reached)' = BodyLength(received, Reached)
    BY <1>2, <1>8, <2>3, Zenon DEF BodyLength
  <2>6. BadLength(BodyLength(received, Reached))' <=> BadLength(BodyLength(received, Reached))
    BY <2>5, Zenon DEF BadLength
  <2> QED
    BY <1>2, <1>3, <1>4, <1>5, <1>8, <2>1, <2>4, <2>5, <2>6 DEF HasLength
<1>13. LineInv'
  BY <1>2, FramingAssumption DEF FrameInv, LineInv
<1> QED
  BY <1>9, <1>10, <1>11, <1>12, <1>13 DEF FrameInv

LEMMA ReadMoreKeeps ==
  ASSUME FrameInv, doing = "loop", NEW i, i = IF class = "gm" THEN start ELSE pi, ReadMore(i),
         class = "gm" => pi = Len(buffer),
         class # "gm" => Len(buffer) - pi < (IF mode = "len" THEN Needed ELSE packetLen)
  PROVE  FrameInv'
<1>1. /\ buffer' = SubSeq(buffer, i + 1, Len(buffer)) /\ pi' = 0 /\ start' = 0
      /\ doing' = "waiting" /\ class' = class /\ received' = received /\ mode' = mode
      /\ packetLen' = packetLen /\ posted' = posted
  BY DEF ReadMore
<1>2. /\ received \in Seq(Bytes) /\ buffer \in Seq(Bytes) /\ posted \in Seq(Nat \X Nat)
      /\ pi \in Nat /\ start \in Nat /\ packetLen \in Int /\ mode \in {"len", "body"}
      /\ Len(buffer) <= Len(received) /\ pi <= Len(buffer) /\ start <= pi /\ Reached \in Nat
      /\ \A k \in 1..Len(buffer) : buffer[k] = received[Place(k)]
  BY DEF FrameInv, FrameTypeOK, BufferInv
<1>3. i \in Nat /\ i <= Len(buffer)
  BY <1>2
<1>4. /\ buffer' \in Seq(Bytes) /\ Len(buffer') = Len(buffer) - i
      /\ \A k \in 1..Len(buffer) - i : buffer'[k] = buffer[i + k]
  <2>1. buffer \in Seq(Bytes) /\ Len(buffer) \in Nat /\ i \in Nat /\ i <= Len(buffer)
    BY <1>2, <1>3
  <2>2. \A j \in i + 1..Len(buffer) : buffer[j] \in Bytes
    <3> HIDE DEF Bytes
    <3> QED
      BY <2>1
  <2>3. /\ buffer' \in Seq(Bytes)
        /\ Len(buffer') = IF i + 1 <= Len(buffer) THEN Len(buffer) - (i + 1) + 1 ELSE 0
        /\ \A k \in 1..Len(buffer) - (i + 1) + 1 : buffer'[k] = buffer[i + 1 + k - 1]
    <3> HIDE DEF Bytes
    <3> DEFINE u == SubSeq(buffer, i + 1, Len(buffer))
    <3>1. i + 1 \in Int /\ Len(buffer) \in Int
      BY <2>1
    <3>2. /\ u \in Seq(Bytes)
          /\ Len(u) = IF i + 1 <= Len(buffer) THEN Len(buffer) - (i + 1) + 1 ELSE 0
          /\ \A k \in 1..Len(buffer) - (i + 1) + 1 : u[k] = buffer[i + 1 + k - 1]
      BY <2>2, <3>1, SubSeqProperties
    <3> QED
      BY <1>1, <3>2, Zenon
  <2>4. PICK l \in Nat : l = Len(buffer)
    BY <2>1
  <2>5. \A k \in 1..l - i : k \in 1..l - (i + 1) + 1 /\ i + 1 + k - 1 = i + k
    BY <1>3
  <2>6. (IF i + 1 <= l THEN l - (i + 1) + 1 ELSE 0) = l - i
    BY <2>1, <2>4
  <2> QED
    BY <2>3, <2>4, <2>5, <2>6, Zenon
<1>5. \A k \in Int : Place(k)' = Place(i + k)
  <2>1. PICK l \in Nat, n \in Nat : l = Len(buffer) /\ n = Len(received)
    BY <1>2
  <2>2. \A k \in Int : n - (l - i) + k = n - l + (i + k)
    BY <1>3
  <2>3. Len(received') = n /\ Len(buffer') = l - i
    BY <1>1, <1>4, <2>1, Zenon
  <2> QED
    BY <2>1, <2>2, <2>3, Zenon DEF Place
<1>6. Reached' = Reached
  <2>1. Place(0)' = Place(i) /\ Place(0 - 2)' = Place(i - 2)
    BY <1>3, <1>5
  <2>2. \A k \in Int : Place(k - 2) = Place(k) - 2
    BY <1>2 DEF Place
  <2>3. Place(0 - 2)' = Place(0)' - 2
    BY <1>1, <1>2, <1>3, <1>4 DEF Place
  <2>4. Reached' = IF class = "gm" \/ mode = "len" THEN Place(i) ELSE Place(i) - 2
    BY <1>1, <1>3, <2>1, <2>2, <2>3 DEF Reached
  <2> QED
    BY <2>4 DEF Reached
<1>7. FrameTypeOK'
  BY <1>1, <1>2, <1>4 DEF FrameTypeOK, Bytes
<1>8. BufferInv'
  <2>1. \A k \in 1..Len(buffer') : buffer'[k] = received'[Place(k)']
    <3> SUFFICES ASSUME NEW k \in 1..Len(buffer') PROVE buffer'[k] = received'[Place(k)']
      OBVIOUS
    <3>1. k \in 1..Len(buffer) - i /\ i + k \in 1..Len(buffer) /\ k \in Int
      BY <1>2, <1>3, <1>4
    <3>2. buffer'[k] = buffer[i + k] /\ Place(k)' = Place(i + k)
      BY <1>4, <1>5, <3>1
    <3>3. buffer[i + k] = received[Place(i + k)]
      BY <1>2, <3>1
    <3> QED
      BY <1>1, <3>2, <3>3, Zenon
  <2>2. Len(buffer') <= Len(received') /\ 0 <= Len(buffer') /\ 0 <= 0
    BY <1>1, <1>2, <1>3, <1>4
  <2>3. pi' <= Len(buffer') /\ start' <= pi' /\ Reached' \in Nat
    BY <1>1, <1>2, <1>6, <2>2
  <2> QED
    BY <1>1, <2>1, <2>2, <2>3, Zenon DEF BufferInv
<1>9. HandedOnInv'
  <2>1. \A s : Extends(s)' => Extends(s)
    BY <1>1, Zenon DEF Extends, Bytes
  <2> QED
    BY <1>1, <1>6, <2>1, HandedOnStays DEF FrameInv
<1>10. PacketInv'
  <2> SUFFICES ASSUME class # "gm"
               PROVE  /\ mode = "body" => /\ HasLength(received, Reached)'
                                          /\ packetLen = BodyLength(received, Reached)'
                      /\ Len(buffer') < (IF mode = "len" THEN Needed' ELSE packetLen)
    BY <1>1, Zenon DEF PacketInv
  <2>1. Needed' = Needed /\ BodyLength(received, Reached)' = BodyLength(received, Reached)
    BY <1>1, <1>6, Zenon DEF Needed, BodyLength
  <2>2. HasLength(received, Reached)' <=> HasLength(received, Reached)
    BY <1>1, <1>6, <2>1, Zenon DEF HasLength, BadLength
  <2> QED
    BY <1>2, <1>4, <2>1, <2>2 DEF FrameInv, PacketInv
<1>11. LineInv'
  <2> SUFFICES ASSUME class = "gm"
               PROVE  /\ mode = "len"
                      /\ Len(buffer') <= LineMax /\ \A k \in 1..Len(buffer') : buffer'[k] # Newline
    <3>1. pi' - start' <= LineMax /\ start' + 1..pi' = {} /\ doing' # "closed"
      BY <1>1, FramingAssumption
    <3> QED
      BY <1>1, <3>1, Zenon DEF LineInv
  <2>1. /\ mode = "len" /\ pi - start <= LineMax /\ pi = Len(buffer)
        /\ \A k \in start + 1..pi : buffer[k] # Newline
    BY DEF FrameInv, LineInv
  <2>2. PICK l \in Nat, j \in Nat : l = Len(buffer) /\ j = Len(buffer') /\ j = l - i
    <3>1. Len(buffer) \in Nat /\ Len(buffer') \in Nat
      BY <1>2, <1>4
    <3> QED
      BY <1>4, <3>1
  <2>3. j <= LineMax /\ \A k \in 1..j : k \in 1..l - i /\ i + k \in start + 1..pi
    <3>1. i = start /\ pi = l
      BY <2>1, <2>2
    <3> QED
      BY <1>2, <1>3, <2>1, <2>2, <3>1
  <2>4. \A k \in 1..j : buffer'[k] = buffer[i + k] /\ buffer[i + k] # Newline
    BY <1>4, <2>1, <2>2, <2>3, Zenon
  <2> QED
    BY <2>1, <2>2, <2>3, <2>4, Zenon
<1> QED
  BY <1>7, <1>8, <1>9, <1>10, <1>11 DEF FrameInv

LEMMA IncompleteKeeps ==
  ASSUME FrameInv, Incomplete
  PROVE  FrameInv'
<1>1. /\ doing = "loop" /\ class # "gm" /\ ReadMore(pi)
      /\ pi >= Len(buffer) \/ pi + (IF mode = "len" THEN Needed ELSE packetLen) > Len(buffer)
  BY DEF Incomplete, InLoop, Short
<1>2. /\ buffer \in Seq(Bytes) /\ pi \in Nat /\ packetLen \in Int
      /\ mode \in {"len", "body"}
      /\ mode = "body" => ~BadLength(packetLen)
  BY <1>1 DEF FrameInv, FrameTypeOK, PacketInv, HasLength
<1>3. Needed >= 2 /\ Needed \in Nat
  BY DEF Needed
<1>4. Len(buffer) - pi < (IF mode = "len" THEN Needed ELSE packetLen)
  <2>1. PICK l \in Nat, w \in Int :
          l = Len(buffer) /\ w = IF mode = "len" THEN Needed ELSE packetLen
    BY <1>2, <1>3
  <2>2. w > 0
    BY <1>2, <1>3, <2>1 DEF BadLength
  <2>3. pi >= l \/ pi + w > l
    BY <1>1, <2>1, Zenon
  <2>4. l - pi < w
    BY <1>2, <2>2, <2>3
  <2> QED
    BY <2>1, <2>4, Zenon
<1> QED
  BY <1>1, <1>4, ReadMoreKeeps

\* the two bytes of a length are the same in the buffer, in the stream and in what it becomes
LEMMA LengthsAgree ==
  ASSUME FrameInv, NEW e \in Nat, e + 2 <= Len(received)
  PROVE  /\ \A s : Extends(s) => BodyLength(s, e) = BodyLength(received, e)
         /\ \A i \in Nat : i + 2 <= Len(buffer) /\ e = Place(i)
                            => BodyLength(buffer, i) = BodyLength(received, e)
<1>0. /\ received \in Seq(Bytes) /\ buffer \in Seq(Bytes) /\ Len(buffer) <= Len(received)
      /\ \A k \in 1..Len(buffer) : buffer[k] = received[Place(k)]
  BY DEF FrameInv, FrameTypeOK, BufferInv
<1>1. ASSUME NEW s, Extends(s) PROVE BodyLength(s, e) = BodyLength(received, e)
  <2>1. e + 1 \in 1..Len(received) /\ e + 2 \in 1..Len(received)
    BY <1>0
  <2>2. s[e + 1] = received[e + 1] /\ s[e + 2] = received[e + 2]
    BY <1>1, <2>1 DEF Extends
  <2> QED
    BY <2>2, Zenon DEF BodyLength
<1>2. ASSUME NEW i \in Nat, i + 2 <= Len(buffer), e = Place(i)
      PROVE  BodyLength(buffer, i) = BodyLength(received, e)
  <2>1. /\ i + 1 \in 1..Len(buffer) /\ i + 2 \in 1..Len(buffer)
        /\ Place(i + 1) = e + 1 /\ Place(i + 2) = e + 2
    BY <1>0, <1>2 DEF Place
  <2>2. buffer[i + 1] = received[e + 1] /\ buffer[i + 2] = received[e + 2]
    BY <1>0, <2>1
  <2> QED
    BY <2>2, Zenon DEF BodyLength
<1> QED
  BY <1>1, <1>2

LEMMA ReadLengthKeeps ==
  ASSUME FrameInv, ReadLength
  PROVE  FrameInv'
<1>1. /\ doing = "loop" /\ class # "gm" /\ mode = "len" /\ ~(pi + Needed > Len(buffer))
      /\ packetLen' = BodyLength(buffer, pi) /\ class' = class /\ received' = received
      /\ buffer' = buffer /\ start' = start /\ posted' = posted
      /\ \/ BadLength(packetLen') /\ doing' = "closed" /\ pi' = pi /\ mode' = mode
         \/ ~BadLength(packetLen') /\ pi' = pi + 2 /\ mode' = "body" /\ doing' = doing
  BY DEF ReadLength, InLoop, Short
<1>2. /\ received \in Seq(Bytes) /\ buffer \in Seq(Bytes) /\ posted \in Seq(Nat \X Nat)
      /\ pi \in Nat /\ start \in Nat /\ packetLen \in Int
      /\ Len(buffer) <= Len(received) /\ pi <= Len(buffer) /\ start <= pi /\ Reached \in Nat
      /\ \A k \in 1..Len(buffer) : buffer[k] = received[Place(k)]
  BY DEF FrameInv, FrameTypeOK, BufferInv
<1>3. Needed \in {2, 3} /\ Needed' = Needed
  BY <1>1 DEF Needed
<1>4. pi + 2 <= Len(buffer) /\ Reached = Place(pi) /\ Reached + Needed <= Len(received)
  BY <1>1, <1>2, <1>3 DEF Reached, Place
<1>5. packetLen' \in Int /\ packetLen' = BodyLength(received, Reached)
  <2>1. Reached + 2 <= Len(received)
    BY <1>2, <1>3, <1>4
  <2>2. BodyLength(buffer, pi) = BodyLength(received, Reached)
    BY <1>2, <1>4, <2>1, LengthsAgree
  <2> QED
    BY <1>1, <1>2, <1>4, <2>2, BodyLengthType
<1>6. Reached' = Reached
  BY <1>1, <1>2 DEF Reached, Place
<1>7. FrameTypeOK'
  BY <1>1, <1>2, <1>5 DEF FrameTypeOK, Bytes
<1>8. BufferInv'
  <2>1. \A k : Place(k)' = Place(k)
    BY <1>1, Zenon DEF Place
  <2>2. \A k \in 1..Len(buffer') : buffer'[k] = received'[Place(k)']
    BY <1>1, <1>2, <2>1
  <2>3. pi' <= Len(buffer) /\ start' <= pi' /\ doing' # "waiting"
    BY <1>1, <1>2, <1>4
  <2> QED
    BY <1>1, <1>2, <1>6, <2>1, <2>2, <2>3 DEF BufferInv
<1>9. HandedOnInv'
  <2>1. \A s : Extends(s)' => Extends(s)
    BY <1>1, Zenon DEF Extends, Bytes
  <2> QED
    BY <1>1, <1>6, <2>1, HandedOnStays DEF FrameInv
<1>10. PacketInv'
  <2>1. BodyLength(received, Reached)' = packetLen'
    <3>1. BodyLength(received, Reached)' = BodyLength(received, Reached)
      BY <1>1, <1>6, Zenon DEF BodyLength
    <3> QED
      BY <1>5, <3>1, Zenon
  <2>2. BadLength(BodyLength(received, Reached))' <=> BadLength(packetLen')
    BY <2>1, Zenon DEF BadLength
  <2>3. (Reached + Needed <= Len(received))'
    BY <1>1, <1>3, <1>4, <1>6
  <2>4. doing' # "waiting" /\ (mode' = "body" => ~BadLength(packetLen') /\ doing' # "closed")
    BY <1>1
  <2>5. doing' = "closed" => mode' = "len" /\ BadLength(packetLen')
    BY <1>1
  <2> QED
    BY <2>1, <2>2, <2>3, <2>4, <2>5, Zenon DEF PacketInv, HasLength
<1>11. LineInv'
  BY <1>1 DEF LineInv
<1> QED
  BY <1>7, <1>8, <1>9, <1>10, <1>11 DEF FrameInv

LEMMA ReadBodyKeeps ==
  ASSUME FrameInv, ReadBody
  PROVE  FrameInv'
<1>1. /\ doing = "loop" /\ class # "gm" /\ mode = "body" /\ ~(pi + packetLen > Len(buffer))
      /\ class' = class /\ received' = received /\ buffer' = buffer /\ start' = start
      /\ packetLen' = packetLen
      /\ \/ Refused(buffer[pi + 1]) /\ doing' = "closed" /\ pi' = pi /\ mode' = mode /\ posted' = posted
         \/ /\ ~Refused(buffer[pi + 1]) /\ doing' = doing /\ mode' = "len"
            /\ pi' = pi + packetLen /\ posted' = Append(posted, <<Place(pi), packetLen>>)
  BY DEF ReadBody, InLoop, Short, Close, Post, NextMode
<1>2. /\ received \in Seq(Bytes) /\ buffer \in Seq(Bytes) /\ posted \in Seq(Nat \X Nat)
      /\ pi \in Nat /\ start \in Nat /\ packetLen \in Int
      /\ Len(buffer) <= Len(received) /\ pi <= Len(buffer) /\ start <= pi /\ Reached \in Nat
      /\ \A k \in 1..Len(buffer) : buffer[k] = received[Place(k)]
  BY DEF FrameInv, FrameTypeOK, BufferInv
<1>3. /\ Reached + Needed <= Len(received) /\ ~BadLength(packetLen)
      /\ packetLen = BodyLength(received, Reached)
  BY <1>1 DEF FrameInv, PacketInv, HasLength
<1>4. packetLen > 0 /\ Needed \in {2, 3} /\ Needed' = Needed
  BY <1>1, <1>2, <1>3, FramingAssumption DEF BadLength, Needed
<1>5. PICK n \in Nat, l \in Nat, e \in Nat : n = Len(received) /\ l = Len(buffer) /\ e = Reached
  BY <1>2
<1>6. /\ e = n - l + pi - 2 /\ pi + packetLen <= l /\ l <= n
  BY <1>1, <1>2, <1>5 DEF Reached, Place
<1>7. e + 2 + packetLen <= n /\ e + 3 <= n /\ e + 2 <= n
  BY <1>2, <1>4, <1>6
<1>8. received[e + 3] = buffer[pi + 1]
  <2>1. pi + 1 \in 1..l /\ n - l + (pi + 1) = e + 3
    BY <1>2, <1>4, <1>6
  <2> QED
    BY <1>2, <1>5, <2>1 DEF Place
<1>9. \A k : Place(k)' = Place(k)
  BY <1>1, Zenon DEF Place
<1>10. BodyLength(received, e)' = BodyLength(received, e)
  BY <1>1, Zenon DEF BodyLength
<1>11. Place(pi) = e + 2 /\ Place(pi + packetLen) = e + 2 + packetLen
  BY <1>2, <1>5, <1>6 DEF Place
<1>12. CASE Refused(buffer[pi + 1]) /\ doing' = "closed" /\ pi' = pi /\ mode' = mode /\ posted' = posted
  <2>1. Reached' = Reached
    BY <1>1, <1>9, <1>12, Zenon DEF Reached
  <2>2. FrameTypeOK'
    BY <1>1, <1>2, <1>12 DEF FrameTypeOK, Bytes
  <2>3. BufferInv'
    BY <1>1, <1>2, <1>9, <1>12, <2>1 DEF BufferInv
  <2>4. HandedOnInv'
    <3>1. \A s : Extends(s)' => Extends(s)
      BY <1>1, Zenon DEF Extends, Bytes
    <3> QED
      BY <1>1, <1>12, <2>1, <3>1, HandedOnStays DEF FrameInv
  <2>5. PacketInv'
    <3>1. BodyLength(received, Reached)' = packetLen'
      BY <1>1, <1>3, <2>1, Zenon DEF BodyLength
    <3>2. BadLength(BodyLength(received, Reached))' <=> BadLength(packetLen)
      BY <1>1, <3>1, Zenon DEF BadLength
    <3>3. (Reached + Needed <= Len(received))'
      BY <1>1, <1>3, <1>4, <2>1, Zenon
    <3>4. (Reached + 2 + packetLen <= Len(received))'
      BY <1>1, <1>5, <1>7, <2>1, Zenon
    <3>5. Refused(received[Reached + 3])'
      BY <1>1, <1>5, <1>8, <1>12, <2>1, Zenon DEF Refused
    <3>6. mode' = "body" /\ doing' # "waiting"
      BY <1>1, <1>12
    <3> QED
      BY <1>3, <3>1, <3>2, <3>3, <3>4, <3>5, <3>6, Zenon DEF PacketInv, HasLength
  <2>6. LineInv'
    BY <1>1 DEF LineInv
  <2> QED
    BY <2>2, <2>3, <2>4, <2>5, <2>6 DEF FrameInv
<1>13. CASE /\ ~Refused(buffer[pi + 1]) /\ doing' = doing /\ mode' = "len"
            /\ pi' = pi + packetLen /\ posted' = Append(posted, <<Place(pi), packetLen>>)
  <2>1. Reached' = e + 2 + packetLen
    BY <1>1, <1>9, <1>11, <1>13, Zenon DEF Reached
  <2>2. <<Place(pi), packetLen>> \in Nat \X Nat
    BY <1>2, <1>4, <1>11
  <2>3. FrameTypeOK'
    <3>1. posted' \in Seq(Nat \X Nat)
      BY <1>2, <1>13, <2>2
    <3> QED
      BY <1>1, <1>2, <1>4, <1>13, <3>1 DEF FrameTypeOK, Bytes
  <2>4. BufferInv'
    <3>1. pi' <= Len(buffer) /\ start' <= pi' /\ Reached' \in Nat /\ doing' # "waiting"
      BY <1>1, <1>2, <1>4, <1>5, <1>6, <1>13, <2>1
    <3> QED
      BY <1>1, <1>2, <1>9, <3>1 DEF BufferInv
  <2>5. HandedOnInv'
    <3>1. ASSUME NEW s, NEW f, Extends(s)
          PROVE  ResultAt(s, f, Reached) = Handed(<<Place(pi), packetLen>>, f[Reached'])
      <4>1. BodyLength(s, e) = packetLen
        BY <1>3, <1>5, <1>7, <3>1, LengthsAgree
      <4>2. s[e + 3] = buffer[pi + 1] /\ n <= Len(s) /\ Len(s) \in Nat
        BY <1>5, <1>7, <1>8, <3>1 DEF Extends
      <4>3. /\ ~(e + Needed > Len(s)) /\ ~BadLength(BodyLength(s, e))
            /\ ~(e + 2 + BodyLength(s, e) > Len(s)) /\ ~Refused(s[e + 3])
        <5>1. ~(e + Needed > Len(s))
          BY <1>3, <1>4, <1>5, <4>2
        <5>2. ~(e + 2 + packetLen > Len(s))
          BY <1>2, <1>7, <4>2
        <5> QED
          BY <1>3, <1>13, <4>1, <4>2, <5>1, <5>2, Zenon
      <4>4. ResultAt(s, f, e) = Handed(<<e + 2, packetLen>>, f[e + 2 + packetLen])
        BY <1>1, <4>1, <4>3, Zenon DEF ResultAt, ParsedAt
      <4> QED
        BY <1>5, <1>11, <2>1, <4>4, Zenon
    <3>2. Reached' \in Nat /\ Reached' <= Len(received)
      BY <1>2, <1>4, <1>5, <1>7, <2>1
    <3>3. PICK x \in Nat \X Nat : x = <<Place(pi), packetLen>>
      BY <2>2
    <3>4. posted' = Append(posted, x)
      BY <1>13, <3>3
    <3>5. \A s, f : Extends(s) => ResultAt(s, f, Reached) = Handed(x, f[Reached'])
      BY <3>1, <3>3
    <3> QED
      BY <1>1, <3>2, <3>4, <3>5, HandedOnGrows
  <2>6. PacketInv'
    BY <1>1, <1>13 DEF PacketInv
  <2>7. LineInv'
    BY <1>1 DEF LineInv
  <2> QED
    BY <2>3, <2>4, <2>5, <2>6, <2>7 DEF FrameInv
<1> QED
  BY <1>1, <1>12, <1>13

LEMMA ScanLineKeeps ==
  ASSUME FrameInv, ScanLine
  PROVE  FrameInv'
<1>1. doing = "loop" /\ class = "gm" /\ class' = class
  BY DEF ScanLine, ReadMore
<1>2. /\ received \in Seq(Bytes) /\ buffer \in Seq(Bytes) /\ posted \in Seq(Nat \X Nat)
      /\ pi \in Nat /\ start \in Nat /\ packetLen \in Int
      /\ Len(buffer) <= Len(received) /\ pi <= Len(buffer) /\ start <= pi /\ Reached \in Nat
      /\ \A k \in 1..Len(buffer) : buffer[k] = received[Place(k)]
  BY DEF FrameInv, FrameTypeOK, BufferInv
<1>3. /\ mode = "len" /\ pi - start <= LineMax /\ LineMax \in Nat \ {0}
      /\ \A k \in start + 1..pi : buffer[k] # Newline
  BY <1>1, FramingAssumption DEF FrameInv, LineInv
<1>4. CASE pi >= Len(buffer)
  <2>1. ReadMore(start)
    BY <1>4 DEF ScanLine
  <2>2. pi = Len(buffer)
    BY <1>2, <1>4
  <2>3. PICK i : i = start
    OBVIOUS
  <2>4. ReadMore(i)
    BY <2>1, <2>3
  <2> QED
    BY <1>1, <2>2, <2>3, <2>4, ReadMoreKeeps
<1>5. CASE ~(pi >= Len(buffer))
  <2> DEFINE Ended == pi - start >= LineMax \/ buffer[pi + 1] = Newline
  <2>1. /\ pi' = pi + 1 /\ received' = received /\ buffer' = buffer /\ mode' = mode
        /\ packetLen' = packetLen /\ doing' = doing
        /\ IF Ended THEN posted' = Append(posted, <<Place(start), pi - start>>) /\ start' = pi + 1
           ELSE posted' = posted /\ start' = start
    BY <1>5 DEF ScanLine, Post
  <2>2. PICK n \in Nat, l \in Nat, e \in Nat :
          n = Len(received) /\ l = Len(buffer) /\ e = Reached
    BY <1>2
  <2>3. e = n - l + start /\ pi + 1 <= l /\ l <= n /\ Place(start) = e /\ Place(pi + 1) = e + (pi - start) + 1
    BY <1>1, <1>2, <1>5, <2>2 DEF Reached, Place
  <2>4. \A k : Place(k)' = Place(k)
    BY <2>1, Zenon DEF Place
  <2>5. PacketInv'
    BY <1>1 DEF PacketInv
  <2>6. CASE ~Ended
    <3>1. Reached' = Reached
      BY <1>1, <2>1, <2>4, <2>6, Zenon DEF Reached
    <3>2. FrameTypeOK'
      BY <1>2, <1>3, <1>1, <2>1, <2>6 DEF FrameTypeOK, Bytes
    <3>3. BufferInv'
      <4>1. pi' <= Len(buffer) /\ start' <= pi' /\ doing' # "waiting"
        BY <1>1, <1>2, <2>1, <2>2, <2>3, <2>6
      <4> QED
        BY <1>2, <2>1, <2>4, <3>1, <4>1 DEF BufferInv
    <3>4. HandedOnInv'
      <4>1. \A s : Extends(s)' => Extends(s)
        BY <2>1, Zenon DEF Extends, Bytes
      <4> QED
        BY <1>1, <2>1, <2>6, <3>1, <4>1, HandedOnStays DEF FrameInv
    <3>5. LineInv'
      <4>1. pi' - start' <= LineMax
        BY <1>2, <1>3, <2>1, <2>6
      <4>2. \A k \in start' + 1..pi' : k \in start + 1..pi \/ k = pi + 1
        BY <1>2, <2>1, <2>6
      <4>3. \A k \in start' + 1..pi' : buffer'[k] # Newline
        BY <1>3, <2>1, <2>6, <4>2
      <4> QED
        BY <1>1, <1>3, <2>1, <4>1, <4>3 DEF LineInv
    <3> QED
      BY <2>5, <3>2, <3>3, <3>4, <3>5 DEF FrameInv
  <2>7. CASE Ended
    <3>1. PICK k \in Nat : k = pi - start
      BY <1>2
    <3>2. Reached' = e + k + 1
      BY <1>1, <2>1, <2>3, <2>4, <2>7, <3>1, Zenon DEF Reached
    <3>3. PICK x \in Nat \X Nat : x = <<e, k>>
      OBVIOUS
    <3>4. posted' = Append(posted, x) /\ start' = pi + 1
      BY <2>1, <2>3, <2>7, <3>1, <3>3, Zenon
    <3>5. FrameTypeOK'
      BY <1>1, <1>2, <1>3, <2>1, <3>4 DEF FrameTypeOK, Bytes
    <3>6. BufferInv'
      <4>1. pi' <= Len(buffer) /\ start' <= pi' /\ doing' # "waiting" /\ Reached' \in Nat
        BY <1>1, <1>2, <2>1, <2>2, <2>3, <3>2, <3>4
      <4> QED
        BY <1>2, <2>1, <2>4, <4>1 DEF BufferInv
    <3>7. HandedOnInv'
      <4>1. ASSUME NEW s, NEW f, Extends(s)
            PROVE  ResultAt(s, f, Reached) = Handed(x, f[Reached'])
        <5>1. s \in Seq(Bytes) /\ Len(s) \in Nat /\ n <= Len(s) /\ \A j \in 1..n : s[j] = received[j]
          BY <2>2, <4>1 DEF Extends
        <5>2. \A j \in 0..k : /\ e + j + 1 \in 1..n /\ e + j < Len(s)
                              /\ start + j + 1 \in 1..l /\ Place(start + j + 1) = e + j + 1
          BY <1>2, <2>2, <2>3, <3>1, <5>1 DEF Place
        <5>3. \A j \in 0..k : s[e + j + 1] = buffer[start + j + 1]
          BY <1>2, <2>2, <5>1, <5>2
        <5>4. k \in LineEnds(s, e)
          <6>1. k <= LineMax /\ (k = LineMax \/ buffer[start + k + 1] = Newline)
            BY <1>2, <1>3, <2>7, <3>1
          <6>2. k \in 0..k /\ k \in 0..LineMax
            BY <1>3, <6>1
          <6> QED
            BY <5>2, <5>3, <6>1, <6>2 DEF LineEnds
        <5>5. \A j \in LineEnds(s, e) : k <= j
          <6> SUFFICES ASSUME NEW j \in LineEnds(s, e), ~(k <= j) PROVE FALSE
            OBVIOUS
          <6>1. j \in Nat /\ (j = LineMax \/ s[e + j + 1] = Newline)
            BY <1>3 DEF LineEnds
          <6>2. j < k /\ j \in 0..k /\ j # LineMax /\ start + j + 1 \in start + 1..pi
            BY <1>2, <1>3, <3>1, <6>1
          <6> QED
            BY <1>3, <5>3, <6>1, <6>2
        <5>6. Min(LineEnds(s, e)) = k
          <6>1. /\ Min(LineEnds(s, e)) \in LineEnds(s, e)
                /\ \A j \in LineEnds(s, e) : Min(LineEnds(s, e)) <= j
            BY <5>1, <5>4, LineEndsLeast
          <6>2. Min(LineEnds(s, e)) \in Nat
            BY <1>3, <6>1 DEF LineEnds
          <6> QED
            BY <5>4, <5>5, <6>1, <6>2
        <5>7. ResultAt(s, f, e) = Handed(<<e, k>>, f[e + k + 1])
          BY <1>1, <5>4, <5>6, Zenon DEF ResultAt, SplitAt
        <5> QED
          BY <2>2, <3>2, <3>3, <5>7, Zenon
      <4>2. Reached' \in Nat /\ Reached' <= Len(received)
        <5>1. e + k + 1 \in Nat
          OBVIOUS
        <5>2. e + k + 1 <= n
          <6>1. PICK f \in Nat, g \in Nat : f = pi /\ g = start
            BY <1>2
          <6>2. e = n - l + g /\ f + 1 <= l /\ l <= n /\ k = f - g
            BY <2>3, <3>1, <6>1, Zenon
          <6> QED
            BY <6>2
        <5> QED
          BY <2>2, <3>2, <5>1, <5>2, Zenon
      <4> QED
        BY <1>1, <2>1, <3>4, <4>1, <4>2, HandedOnGrows
    <3>8. LineInv'
      <4>1. pi' - start' <= LineMax /\ \A j \in start' + 1..pi' : FALSE
        BY <1>2, <1>3, <2>1, <3>4
      <4> QED
        BY <1>1, <1>3, <2>1, <4>1 DEF LineInv
    <3> QED
      BY <2>5, <3>5, <3>6, <3>7, <3>8 DEF FrameInv
  <2> QED
    BY <2>6, <2>7
<1> QED
  BY <1>4, <1>5

LEMMA StutterFrameInv ==
  ASSUME FrameInv, UNCHANGED frameVars
  PROVE  FrameInv'
<1>1. /\ class' = class /\ received' = received /\ buffer' = buffer /\ pi' = pi /\ start' = start
      /\ mode' = mode /\ packetLen' = packetLen /\ posted' = posted /\ doing' = doing
  BY DEF frameVars
<1>2. (\A k : Place(k)' = Place(k)) /\ Reached' = Reached
  BY <1>1, Zenon DEF Place, Reached
<1>3. FrameTypeOK' /\ BufferInv'
  BY <1>1, <1>2, Zenon DEF FrameInv, FrameTypeOK, BufferInv, Bytes
<1>4. PacketInv' /\ LineInv'
  BY <1>1, <1>2, Zenon DEF FrameInv, PacketInv, LineInv, HasLength, BadLength, BodyLength, Needed, Refused, Newline
<1>5. HandedOnInv'
  <2>1. \A s : Extends(s)' => Extends(s)
    BY <1>1, Zenon DEF Extends, Bytes
  <2> QED
    BY <1>1, <1>2, <2>1, HandedOnStays DEF FrameInv
<1> QED
  BY <1>3, <1>4, <1>5 DEF FrameInv

\* However the network cuts the stream, what was handed on is the beginning of what the
\* stream contains, and the buffer is the rest of it (the five OnRead).
THEOREM FramingInvariant == FrameSpec => []FrameInv
<1>1. FrameInv /\ [FrameNext]_frameVars => FrameInv'
  BY ReceiveKeeps, IncompleteKeeps, ReadLengthKeeps, ReadBodyKeeps, ScanLineKeeps, StutterFrameInv
     DEF FrameNext
<1> QED
  BY InitFrameInv, <1>1, PTL DEF FrameSpec

\* Between two reads what was handed on is what the stream contains, and a connection is
\* closed for a bad packet only (the five OnRead).
THEOREM PacketsAsSentHolds == FrameSpec => []PacketsAsSent
<1>1. FrameInv => PacketsAsSent
  <2>1. CASE doing = "loop"
    BY <2>1 DEF PacketsAsSent
  <2> QED
    BY <2>1, NothingMore
<1> QED
  BY FramingInvariant, <1>1, PTL
=============================================================================
