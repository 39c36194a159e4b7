--------------------------- MODULE IdleTimerProofs ---------------------------
(***************************************************************************)
(* What the unsigned difference of two readings of a clock that wraps says *)
(* about the silence of a connection, for any time-out, clock range and    *)
(* delay of the callback.                                                  *)
(***************************************************************************)
EXTENDS IdleTimer, TLAPS

-----------------------------------------------------------------------------
(* Remainders *)

LEMMA Quotient ==
  ASSUME NEW w \in Nat \ {0}, NEW a \in Int
  PROVE  \E q \in Int, r \in 0..w - 1 : a = w * q + r /\ a % w = r
<1>1. PICK q \in Int : q = a \div w
  OBVIOUS
<1>2. PICK r \in 0..w - 1 : r = a % w
  OBVIOUS
<1>3. a = w * q + r
  BY <1>1, <1>2
<1> QED
  BY <1>2, <1>3

LEMMA Remainder ==
  ASSUME NEW w \in Nat \ {0}, NEW q \in Int, NEW r \in 0..w - 1
  PROVE  (w * q + r) % w = r
OBVIOUS

LEMMA Multiples ==
  ASSUME NEW w \in Nat \ {0}, NEW k \in Int
  PROVE  /\ k >= 1 => w * k >= w
         /\ k <= -1 => w * k <= -w
         /\ k = 0 => w * k = 0
OBVIOUS

\* the remainder of a number within one range of zero
LEMMA SmallRemainder ==
  ASSUME NEW w \in Nat \ {0}, NEW a \in Int, -w <= a, a < w
  PROVE  a % w = IF a < 0 THEN a + w ELSE a
OBVIOUS

\* a clock of range w goes on by one
LEMMA NextRemainder ==
  ASSUME NEW w \in Nat \ {0}, NEW a \in Int
  PROVE  (a + 1) % w = IF a % w = w - 1 THEN 0 ELSE (a % w) + 1
<1>1. PICK q \in Int, r \in 0..w - 1 : a = w * q + r /\ a % w = r
  BY Quotient
<1>2. CASE r = w - 1
  <2>1. a + 1 = w * (q + 1) + 0
    BY <1>1, <1>2
  <2>2. (w * (q + 1) + 0) % w = 0
    <3>1. q + 1 \in Int /\ 0 \in 0..w - 1
      OBVIOUS
    <3> QED
      BY <3>1, Remainder
  <2> QED
    BY <1>1, <1>2, <2>1, <2>2
<1>3. CASE r # w - 1
  <2>1. a + 1 = w * q + (r + 1) /\ r + 1 \in 0..w - 1
    BY <1>1, <1>3
  <2>2. (w * q + (r + 1)) % w = r + 1
    BY <2>1, Remainder
  <2> QED
    BY <1>1, <1>3, <2>1, <2>2
<1> QED
  BY <1>2, <1>3

\* the difference of two remainders is not more than that of the numbers
LEMMA DifferenceOfRemainders ==
  ASSUME NEW w \in Nat \ {0}, NEW s \in Nat, NEW e \in Nat, e <= s,
         NEW x \in Int, NEW y \in Int, x = s % w, y = e % w, NEW h \in Int, h = x - y
  PROVE  h % w <= s - e
<1>0. s \in Int /\ e \in Int
  OBVIOUS
<1>1. PICK p \in Int, r \in 0..w - 1 : s = w * p + r /\ s % w = r
  BY <1>0, Quotient, Zenon
<1>2. PICK q \in Int, z \in 0..w - 1 : e = w * q + z /\ e % w = z
  BY <1>0, Quotient, Zenon
<1>3. x = r /\ y = z
  BY <1>1, <1>2, Zenon
<1>4. PICK k \in Int : k = p - q /\ s - e = w * k + h
  <2>1. s = w * p + x /\ e = w * q + y
    BY <1>1, <1>2, <1>3, Zenon
  <2> QED
    BY <2>1
<1>5. -w <= h /\ h < w
  BY <1>3
<1>6. h % w = IF h < 0 THEN h + w ELSE h
  BY <1>5, SmallRemainder
<1>7. /\ k >= 1 => w * k >= w
      /\ k <= -1 => w * k <= -w
      /\ k = 0 => w * k = 0
  BY Multiples
<1>8. PICK m \in Int : m = w * k
  OBVIOUS
<1> QED
  BY <1>4, <1>5, <1>6, <1>7, <1>8

-----------------------------------------------------------------------------
(* The clock *)

\* u was the tick n ticks before t, or some turns of the clock earlier
Ago(t, u, n) == (t - u) % Wrap = n % Wrap

(***************************************************************************)
(* lastIO is the tick of the last activity, as long as silence is counted, *)
(* and the tick a callback compares was read after its timer was due.      *)
(***************************************************************************)
ClockInv ==
  /\ TypeOK
  /\ silent < Horizon => Ago(tick, lastIO, silent)
  /\ pc = "compare" => \E e \in 0..late : Ago(tick, curTick, e)

LEMMA ClockTypes ==
  /\ TimeOut \in Nat /\ TimeOut > 0 /\ Wrap \in Nat \ {0} /\ MaxDelay \in Nat /\ Horizon \in Nat
  /\ Slack \in Nat /\ IdleLimit \in Nat
<1>1. TimeOut \in Nat /\ TimeOut > 0
  <2>1. CASE Configured = 0
    BY <2>1, IdleAssumption DEF TimeOut
  <2>2. CASE Configured # 0
    <3>1. PICK c \in Nat, s \in Nat : c = Configured /\ s = Second /\ c > 0 /\ s > 0
      BY <2>2, IdleAssumption
    <3>2. c * s \in Nat /\ c * s > 0
      BY <3>1
    <3> QED
      BY <2>2, <3>1, <3>2 DEF TimeOut
  <2> QED
    BY <2>1, <2>2
<1>2. IdleLimit \in Nat
  <2>1. PICK a \in Int : a = TimeOut - Slack
    BY <1>1, IdleAssumption
  <2>2. a % Wrap \in 0..Wrap - 1
    BY IdleAssumption
  <2> QED
    BY <2>1, <2>2, IdleAssumption DEF IdleLimit
<1> QED
  BY <1>1, <1>2, IdleAssumption

\* the clock goes on by a tick
LEMMA Older ==
  ASSUME NEW t \in 0..Wrap - 1, NEW u \in 0..Wrap - 1, NEW n \in Nat, Ago(t, u, n)
  PROVE  /\ Ago((t + 1) % Wrap, u, n + 1)
         /\ (t + 1) % Wrap \in 0..Wrap - 1
<1>w. PICK w \in Nat \ {0} : w = Wrap
  BY IdleAssumption
<1>1. t % w = t
  <2>1. t \in 0..w - 1
    BY <1>w
  <2> QED
    BY <2>1
<1>i. t \in Int /\ n \in Int /\ u \in Int
  BY <1>w
<1>2. PICK v \in 0..w - 1 : v = (t + 1) % w /\ v = IF t = w - 1 THEN 0 ELSE t + 1
  <2>1. (t + 1) % w = IF t % w = w - 1 THEN 0 ELSE (t % w) + 1
    BY <1>i, NextRemainder, Zenon
  <2>2. PICK v : v = (t + 1) % w
    OBVIOUS
  <2>3. v = IF t = w - 1 THEN 0 ELSE t + 1
    BY <1>1, <2>1, <2>2, Zenon
  <2>4. v \in 0..w - 1
    BY <1>w, <2>3
  <2> QED
    BY <2>2, <2>3, <2>4
<1>3. PICK d \in Int : d = t - u /\ -w <= d /\ d < w
  BY <1>w
<1>4. PICK c \in Int : c = v - u /\ -w <= c /\ c < w
  BY <1>w
<1>5. /\ d % w = IF d < 0 THEN d + w ELSE d
      /\ c % w = IF c < 0 THEN c + w ELSE c
  BY <1>3, <1>4, SmallRemainder
<1>6. (n + 1) % w = IF n % w = w - 1 THEN 0 ELSE (n % w) + 1
  BY <1>i, NextRemainder, Zenon
<1>7. d % w = n % w
  BY <1>w, <1>3 DEF Ago
<1>8. c % w = (n + 1) % w
  BY <1>w, <1>2, <1>3, <1>4, <1>5, <1>6, <1>7
<1> QED
  BY <1>w, <1>2, <1>4, <1>8 DEF Ago

\* no tick is later than itself
LEMMA Now ==
  ASSUME NEW t \in 0..Wrap - 1
  PROVE  Ago(t, t, 0)
<1>1. t - t = 0
  BY IdleAssumption
<1> QED
  BY <1>1 DEF Ago

LEMMA NextClockInv == ClockInv /\ [Next]_vars => ClockInv'
<1> SUFFICES ASSUME ClockInv, [Next]_vars PROVE ClockInv'
  OBVIOUS
<1> USE ClockTypes
<1>1. CASE Tick
  <2>1. /\ tick' = (tick + 1) % Wrap /\ tick \in 0..Wrap - 1 /\ lastIO \in 0..Wrap - 1
        /\ curTick \in 0..Wrap - 1 /\ UNCHANGED <<open, lastIO, pc, curTick>>
        /\ silent \in 0..Horizon /\ silent' = IF silent < Horizon THEN silent + 1 ELSE silent
        /\ due \in 0..TimeOut /\ due > 0 /\ due' = due - 1
        /\ late \in 0..MaxDelay /\ (pc # "idle" => late < MaxDelay)
        /\ late' = IF pc = "idle" THEN late ELSE late + 1
    BY <1>1 DEF Tick, ClockInv, TypeOK
  <2>2. tick' \in 0..Wrap - 1
    BY <2>1, ClockTypes
  <2>3. TypeOK'
    BY <2>1, <2>2 DEF ClockInv, TypeOK
  <2>4. ASSUME silent' < Horizon PROVE Ago(tick', lastIO', silent')
    <3>1. silent < Horizon /\ silent' = silent + 1 /\ silent \in Nat
      BY <2>1, <2>4
    <3>2. Ago(tick, lastIO, silent)
      BY <3>1 DEF ClockInv
    <3> QED
      BY <2>1, <3>1, <3>2, Older
  <2>5. ASSUME pc' = "compare" PROVE \E e \in 0..late' : Ago(tick', curTick', e)
    <3>1. PICK e \in 0..late : Ago(tick, curTick, e)
      BY <2>1, <2>5 DEF ClockInv
    <3>2. Ago(tick', curTick', e + 1)
      BY <2>1, <3>1, Older
    <3>3. e + 1 \in 0..late'
      BY <2>1, <2>5
    <3> QED
      BY <3>2, <3>3
  <2> QED
    BY <2>3, <2>4, <2>5 DEF ClockInv
<1>2. CASE Active
  <2>1. TypeOK' /\ lastIO' = tick /\ tick' = tick /\ silent' = 0 /\ tick \in 0..Wrap - 1
        /\ UNCHANGED <<pc, late, curTick>>
    BY <1>2 DEF Active, ClockInv, TypeOK
  <2>2. Ago(tick', lastIO', silent')
    BY <2>1, Now
  <2> QED
    BY <2>1, <2>2 DEF ClockInv, Ago
<1>3. CASE ReadTick
  <2>1. TypeOK' /\ UNCHANGED <<tick, lastIO, silent, late>> /\ tick \in 0..Wrap - 1
        /\ 0 \in 0..late
    BY <1>3 DEF ReadTick, ClockInv, TypeOK
  <2>2. pc' = "compare" => curTick' = tick
    BY <1>3 DEF ReadTick
  <2>3. Ago(tick, tick, 0)
    BY <2>1, Now
  <2> QED
    BY <2>1, <2>2, <2>3 DEF ClockInv, Ago
<1>4. CASE Drop \/ Fire \/ Find \/ Compare \/ CloseSocket \/ UNCHANGED vars
  <2>0. UNCHANGED <<tick, lastIO, silent>>
    BY <1>4 DEF Drop, Fire, Find, Compare, CloseSocket, vars
  <2>1. TypeOK'
    <3> USE DEF ClockInv, TypeOK
    <3>1. CASE Drop
      BY <3>1 DEF Drop
    <3>2. CASE Fire
      BY <3>2 DEF Fire
    <3>3. CASE Find
      BY <3>3 DEF Find
    <3>4. CASE Compare
      BY <3>4 DEF Compare
    <3>5. CASE CloseSocket
      BY <3>5 DEF CloseSocket
    <3>6. CASE UNCHANGED vars
      BY <3>6 DEF vars
    <3> QED
      BY <1>4, <3>1, <3>2, <3>3, <3>4, <3>5, <3>6
  <2>2. pc' = "compare" => pc = "compare" /\ UNCHANGED <<curTick, late>>
    BY <1>4 DEF Drop, Fire, Find, Compare, CloseSocket, vars
  <2> QED
    BY <2>0, <2>1, <2>2 DEF ClockInv, Ago
<1> QED
  BY <1>1, <1>2, <1>3, <1>4 DEF Next

\* ClockInv holds in every state of the timer.
THEOREM Invariance == Spec => []ClockInv
<1>1. Init => ClockInv
  <2> SUFFICES ASSUME Init PROVE ClockInv
    OBVIOUS
  <2>1. TypeOK
    BY ClockTypes DEF Init, TypeOK
  <2>2. Ago(tick, lastIO, silent)
    BY Now DEF Init
  <2> QED
    BY <2>1, <2>2 DEF ClockInv, Init
<1> QED
  BY <1>1, NextClockInv, PTL DEF Spec

\* The variables have their types; no clock value leaves the range of a DWORD.
THEOREM TypeOKHolds == Spec => []TypeOK
<1>1. ClockInv => TypeOK
  BY DEF ClockInv
<1> QED
  BY <1>1, Invariance, PTL

-----------------------------------------------------------------------------
(* The timer closes silent connections only *)

\* what OnTimerCallback computes
LEMMA Measured ==
  ASSUME ClockInv, silent < Horizon, NEW e \in Nat, Ago(tick, curTick, e),
         NEW x \in Int, NEW y \in Int, x = silent % Wrap, y = e % Wrap,
         NEW h \in Int, h = x - y
  PROVE  (curTick - lastIO) % Wrap = h % Wrap
<1>w. PICK w \in Nat \ {0} : w = Wrap
  BY ClockTypes
<1>1. PICK t \in 0..w - 1, c \in 0..w - 1, u \in 0..w - 1 : t = tick /\ c = curTick /\ u = lastIO
  BY <1>w DEF ClockInv, TypeOK
<1>2. PICK d \in Int : d = t - u /\ -w <= d /\ d < w
  BY <1>w
<1>3. PICK f \in Int : f = t - c /\ -w <= f /\ f < w
  BY <1>w
<1>4. PICK g \in Int : g = c - u /\ -w <= g /\ g < w
  BY <1>w
<1>5. d % w = (IF d < 0 THEN d + w ELSE d) /\ f % w = (IF f < 0 THEN f + w ELSE f)
      /\ g % w = (IF g < 0 THEN g + w ELSE g)
  BY <1>2, <1>3, <1>4, SmallRemainder
<1>6. x = d % w /\ y = f % w
  BY <1>w, <1>1, <1>2, <1>3 DEF ClockInv, Ago
<1>7. x = (IF d < 0 THEN d + w ELSE d) /\ y = (IF f < 0 THEN f + w ELSE f)
  BY <1>5, <1>6, Zenon
<1>8. -w <= h /\ h < w
  BY <1>2, <1>3, <1>7
<1>9. h % w = IF h < 0 THEN h + w ELSE h
  BY <1>8, SmallRemainder
<1>10. g % w = h % w
  <2>1. (IF g < 0 THEN g + w ELSE g) = (IF h < 0 THEN h + w ELSE h)
    BY <1>2, <1>3, <1>4, <1>7
  <2> QED
    BY <1>5, <1>9, <2>1, Zenon
<1>11. curTick - lastIO = g
  BY <1>1, <1>4
<1> QED
  BY <1>w, <1>10, <1>11, Zenon

\* The decision to close was right when it was taken; what has happened since is not
\* older than the callback.
DecidedInv == pc = "close" /\ open => silent >= IdleLimit \/ silent <= late

\* The timer closes a connection only if it was silent for SocketTimeOut less 500 ms,
\* or became active while the callback ran, wherever the clock wraps.  The history
\* variable must be able to count that far.
THEOREM OnlySilentIsClosedHolds ==
  ASSUME IdleLimit <= Horizon
  PROVE  Spec => OnlySilentIsClosed
<1>1. Init => DecidedInv
  BY DEF Init, DecidedInv
<1>2. ClockInv /\ DecidedInv /\ [Next]_vars => DecidedInv'
  <2> SUFFICES ASSUME ClockInv, DecidedInv, [Next]_vars PROVE DecidedInv'
    OBVIOUS
  <2>t. silent \in 0..Horizon /\ late \in 0..MaxDelay /\ Horizon \in Nat /\ MaxDelay \in Nat
        /\ IdleLimit \in Nat
    BY ClockTypes DEF ClockInv, TypeOK
  <2>1. CASE Tick
    BY <2>t, <2>1 DEF Tick, DecidedInv, IdleLimit, TimeOut
  <2>2. CASE Active
    BY <2>t, <2>2 DEF Active, DecidedInv
  <2>3. CASE Compare
    <3> SUFFICES ASSUME pc' = "close" PROVE silent >= IdleLimit \/ silent <= late
      BY <2>3 DEF Compare, DecidedInv
    <3>1. pc = "compare" /\ (curTick - lastIO) % Wrap >= IdleLimit
      BY <2>3 DEF Compare
    <3>2. CASE silent = Horizon
      BY <2>t, <3>2
    <3>3. CASE silent # Horizon
      <4>1. PICK e \in 0..late : Ago(tick, curTick, e)
        BY <3>1 DEF ClockInv
      <4>2. silent < Horizon /\ silent \in Nat /\ e \in Nat /\ e <= late
        BY <2>t, <3>3
      <4>3. PICK m : m = (curTick - lastIO) % Wrap
        OBVIOUS
      <4>4. PICK x \in Int, y \in Int, h \in Int :
              x = silent % Wrap /\ y = e % Wrap /\ h = x - y
        <5>1. PICK x \in Int : x = silent % Wrap
          BY <4>2, ClockTypes
        <5>2. PICK y \in Int : y = e % Wrap
          BY <4>2, ClockTypes
        <5>3. PICK h \in Int : h = x - y
          OBVIOUS
        <5> QED
          BY <5>1, <5>2, <5>3
      <4>6. m = h % Wrap
        BY <4>1, <4>2, <4>3, <4>4, Measured, Zenon
      <4>5. CASE e <= silent
        <5>1. Wrap \in Nat \ {0}
          BY ClockTypes
        <5>2. h % Wrap <= silent - e
          BY <4>2, <4>4, <4>5, <5>1, DifferenceOfRemainders, Zenon
        <5>3. m <= silent - e /\ m >= IdleLimit
          BY <3>1, <4>3, <4>6, <5>2, Zenon
        <5>4. m \in Int
          BY <4>3, <5>1 DEF ClockInv, TypeOK
        <5> QED
          BY <2>t, <4>2, <5>3, <5>4
      <4> QED
        BY <2>t, <4>2, <4>5
    <3> QED
      BY <3>2, <3>3
  <2>4. CASE Drop \/ Fire \/ Find \/ ReadTick \/ CloseSocket \/ UNCHANGED vars
    <3>1. UNCHANGED silent /\ (pc' = "close" /\ open' => pc = "close" /\ open /\ UNCHANGED late)
      BY <2>4 DEF Drop, Fire, Find, ReadTick, CloseSocket, vars
    <3> QED
      BY <3>1 DEF DecidedInv
  <2> QED
    BY <2>1, <2>2, <2>3, <2>4 DEF Next
<1>3. DecidedInv /\ [Next]_vars => [pc = "close" /\ pc' = "idle" /\ open
                                     => silent >= IdleLimit \/ silent <= late]_vars
  BY DEF DecidedInv
<1> QED
  BY <1>1, <1>2, <1>3, Invariance, PTL DEF Spec, OnlySilentIsClosed

-----------------------------------------------------------------------------
(* The timer closes every silent connection *)

Bound == 2 * TimeOut - Slack + MaxDelay

(***************************************************************************)
(* What the code needs of its numbers: a time-out of more than the 500 ms  *)
(* it subtracts (a second is), and two of them within the range of         *)
(* GetTickCount.  The history variable must be able to count that far.     *)
(***************************************************************************)
Roomy == Slack < TimeOut /\ Bound <= Wrap /\ Bound <= Horizon

\* At the moment the timer fired last a connection that is still open had been silent
\* for less than the limit, or, while the callback runs, less than a period more.
PeriodInv ==
  /\ pc # "idle" => due + late = TimeOut
  /\ open => silent < TimeOut - Slack + (TimeOut - due) + (IF pc = "idle" THEN 0 ELSE TimeOut)

\* A connection that stays silent is closed in time, although the timer is periodic and
\* the clock may wrap (SocketServerEx.cpp:358-361).
THEOREM SilentIsClosedHolds ==
  ASSUME Roomy
  PROVE  Spec => []SilentIsClosed
<1>t. ClockInv => /\ silent \in 0..Horizon /\ late \in 0..MaxDelay /\ due \in 0..TimeOut
                  /\ Horizon \in Nat /\ MaxDelay \in Nat /\ TimeOut \in Nat /\ Slack \in Nat
  BY ClockTypes DEF ClockInv, TypeOK
<1>b. /\ Bound \in Nat /\ Wrap \in Nat /\ Slack < TimeOut /\ Bound <= Wrap /\ Bound <= Horizon
      /\ Bound = TimeOut - Slack + TimeOut + MaxDelay
      /\ TimeOut \in Nat /\ Slack \in Nat /\ MaxDelay \in Nat /\ Horizon \in Nat
  <2>1. /\ TimeOut \in Nat /\ Slack \in Nat /\ MaxDelay \in Nat /\ Wrap \in Nat /\ Horizon \in Nat
    BY ClockTypes
  <2> QED
    BY <2>1 DEF Roomy, Bound
<1>l. IdleLimit = TimeOut - Slack
  <2>1. PICK d \in 0..Wrap - 1 : d = TimeOut - Slack
    BY <1>b
  <2>2. Wrap \in Nat \ {0}
    BY ClockTypes
  <2>3. d % Wrap = d
    BY <2>2
  <2> QED
    BY <2>1, <2>3 DEF IdleLimit
<1>1. Init => PeriodInv
  <2> SUFFICES ASSUME Init PROVE PeriodInv
    OBVIOUS
  <2>1. pc = "idle" /\ silent = 0 /\ due = TimeOut
    BY DEF Init
  <2> QED
    BY <1>b, <2>1 DEF PeriodInv
<1>2. ClockInv /\ PeriodInv => SilentIsClosed
  <2> SUFFICES ASSUME ClockInv, PeriodInv, open PROVE silent < Bound
    BY DEF SilentIsClosed, Bound
  <2>1. CASE pc = "idle"
    BY <1>t, <1>b, <2>1 DEF PeriodInv
  <2>2. CASE pc # "idle"
    BY <1>t, <1>b, <2>2 DEF PeriodInv
  <2> QED
    BY <2>1, <2>2
<1>3. ClockInv /\ PeriodInv /\ [Next]_vars => PeriodInv'
  <2> SUFFICES ASSUME ClockInv, PeriodInv, [Next]_vars PROVE PeriodInv'
    OBVIOUS
  <2>1. CASE Tick
    <3>1. /\ due > 0 /\ due' = due - 1 /\ pc' = pc /\ open' = open
          /\ late' = IF pc = "idle" THEN late ELSE late + 1
          /\ silent' = IF silent < Horizon THEN silent + 1 ELSE silent
      BY <2>1 DEF Tick
    <3>2. CASE pc = "idle"
      BY <1>t, <1>b, <3>1, <3>2 DEF PeriodInv
    <3>3. CASE pc # "idle"
      BY <1>t, <1>b, <3>1, <3>3 DEF PeriodInv
    <3> QED
      BY <3>2, <3>3
  <2>2. CASE Active
    BY <1>t, <1>b, <2>2 DEF Active, PeriodInv
  <2>3. CASE Fire
    BY <1>t, <1>b, <2>3 DEF Fire, PeriodInv
  <2>4. CASE Compare
    <3>0. /\ pc = "compare" /\ pc' \in {"close", "idle"}
          /\ (pc' = "idle" => ~((curTick - lastIO) % Wrap >= IdleLimit))
          /\ UNCHANGED <<open, silent, due, late>>
      BY <2>4 DEF Compare
    <3>1. CASE pc' = "close"
      BY <3>0, <3>1 DEF PeriodInv
    <3>2. CASE pc' = "idle" /\ open
      <4>1. PICK e \in 0..late : Ago(tick, curTick, e)
        BY <3>0 DEF ClockInv
      <4>2. silent < Bound
        BY <1>2, <3>2 DEF SilentIsClosed, Bound
      <4>w. PICK w \in Nat \ {0} : w = Wrap
        BY ClockTypes
      <4>3. PICK s \in 0..w - 1, f \in 0..w - 1 : s = silent /\ f = e
        BY <1>t, <1>b, <4>1, <4>2, <4>w
      <4>4. s % w = s /\ f % w = f
        <5>1. s % w = s
          OBVIOUS
        <5>2. f % w = f
          OBVIOUS
        <5> QED
          BY <5>1, <5>2
      <4>6. PICK h \in Int : h = s - f /\ -w <= h /\ h < w
        BY <4>3
      <4>7. h % w = IF h < 0 THEN h + w ELSE h
        BY <4>6, SmallRemainder
      <4>8. (curTick - lastIO) % w = h % w
        <5>1. silent < Horizon /\ e \in Nat
          BY <1>t, <1>b, <4>1, <4>2
        <5>2. s = silent % Wrap /\ f = e % Wrap
          BY <4>w, <4>3, <4>4, Zenon
        <5>3. s \in Int /\ f \in Int
          OBVIOUS
        <5> QED
          BY <4>1, <4>w, <4>6, <5>1, <5>2, <5>3, Measured, Zenon
      <4>9. PICK m \in Int : m = IdleLimit /\ m = TimeOut - Slack
        BY <1>l, <1>b
      <4>10. ~(h % w >= m)
        BY <3>0, <3>2, <4>w, <4>8, <4>9, Zenon
      <4>11. PICK k \in Int : k = h % w /\ k = IF h < 0 THEN h + w ELSE h
        BY <4>3, <4>7
      <4>12. h < m
        <5>1. ~(k >= m)
          BY <4>10, <4>11, Zenon
        <5> QED
          BY <1>b, <4>9, <4>11, <5>1
      <4>13. silent - late < TimeOut - Slack /\ due + late = TimeOut
        BY <1>t, <1>b, <3>0, <4>1, <4>3, <4>6, <4>9, <4>12 DEF PeriodInv
      <4> QED
        BY <1>t, <1>b, <3>0, <3>2, <4>13 DEF PeriodInv
    <3>3. CASE pc' = "idle" /\ ~open
      BY <3>0, <3>3 DEF PeriodInv
    <3> QED
      BY <3>0, <3>1, <3>2, <3>3
  <2>5. CASE Drop \/ Find \/ ReadTick \/ CloseSocket \/ UNCHANGED vars
    <3>1. /\ UNCHANGED <<silent, due, late>> /\ (open' => open)
          /\ (pc' # "idle" => pc # "idle")
          /\ (open' /\ pc' = "idle" => pc = "idle")
      BY <2>5 DEF Drop, Find, ReadTick, CloseSocket, vars
    <3> QED
      BY <3>1 DEF PeriodInv
  <2> QED
    BY <2>1, <2>2, <2>3, <2>4, <2>5 DEF Next
<1> QED
  BY <1>1, <1>2, <1>3, Invariance, PTL DEF Spec
=============================================================================
