------------------------------ MODULE IdleTimer ------------------------------
(***************************************************************************)
(* The idle timer of one client connection (CSocketServerEx): a periodic   *)
(* timer-queue timer whose callback compares GetTickCount with m_lastIO,   *)
(* in unsigned arithmetic, while other threads that read or send set       *)
(* m_lastIO.  Time is a number of clock ticks; GetTickCount is a DWORD,    *)
(* whose range is scaled down to Wrap.  How FindSocket and CloseSocket     *)
(* work is in Gate and IOSocket.                                           *)
(***************************************************************************)
EXTENDS Integers

CONSTANTS
  Configured,      \* the SocketTimeOut of config.txt, in seconds
  Second,          \* the ticks of a second
  DefaultTimeOut,  \* the 180 that replaces a SocketTimeOut of 0
  Slack,           \* the 500 ms OnTimerCallback subtracts
  Wrap,            \* the range of GetTickCount
  MaxDelay,        \* bound on the ticks between a timer being due and its callback ending
  Horizon          \* bound: silence is counted up to here

ASSUME IdleAssumption ==
  /\ Configured \in Nat /\ Second \in Nat \ {0} /\ DefaultTimeOut \in Nat \ {0}
  /\ Slack \in Nat /\ Wrap \in Nat \ {0} /\ MaxDelay \in Nat /\ Horizon \in Nat

VARIABLES
  tick,     \* GetTickCount()
  open,     \* the connection is in the socket map
  lastIO,   \* m_lastIO
  silent,   \* history: the ticks since the connection was last active
  due,      \* the ticks until the timer fires
  late,     \* the ticks since the timer of the running callback was due
  pc,       \* the timer thread: "idle", "find", "read", "compare", "close"
  curTick   \* the local variable of OnTimerCallback

vars == <<tick, open, lastIO, silent, due, late, pc, curTick>>

\* Config::Load gives milliseconds; WinMain replaces 0 by the number of the default
TimeOut == IF Configured = 0 THEN DefaultTimeOut ELSE Configured * Second

\* (DWORD)SocketTimeOut - (DWORD)500
IdleLimit == (TimeOut - Slack) % Wrap

Init ==
  /\ tick \in 0..Wrap - 1 /\ lastIO = tick
  /\ open = TRUE /\ silent = 0 /\ due = TimeOut /\ late = 0
  /\ pc = "idle" /\ curTick = tick

-----------------------------------------------------------------------------
\* The clock.  A timer that is due fires before the next tick, and its callback ends
\* within MaxDelay ticks.
Tick ==
  /\ tick' = (tick + 1) % Wrap
  /\ silent' = IF silent < Horizon THEN silent + 1 ELSE silent
  /\ due > 0 /\ due' = due - 1
  /\ pc # "idle" => late < MaxDelay
  /\ late' = IF pc = "idle" THEN late ELSE late + 1
  /\ UNCHANGED <<open, lastIO, pc, curTick>>

\* the bug of a Send that does not count as activity
ActiveForgets ==
  /\ open
  /\ silent' = 0
  /\ UNCHANGED <<tick, open, lastIO, due, late, pc, curTick>>

\* OnRead has a whole packet, or Send writes one
Active ==
  /\ open
  /\ lastIO' = tick /\ silent' = 0
  /\ UNCHANGED <<tick, open, due, late, pc, curTick>>

\* the connection is closed for another reason, which deletes the timer
Drop ==
  /\ open /\ open' = FALSE
  /\ UNCHANGED <<tick, lastIO, silent, due, late, pc, curTick>>

\* the timer fires again and again, after SocketTimeOut, until it is deleted
Fire ==
  /\ open /\ due = 0 /\ due' = TimeOut
  /\ pc = "idle" /\ pc' = "find" /\ late' = 0
  /\ UNCHANGED <<tick, open, lastIO, silent, curTick>>

\* SocketExTimerCallback finds the connection by its handle
Find ==
  /\ pc = "find" /\ pc' = IF open THEN "read" ELSE "idle"
  /\ UNCHANGED <<tick, open, lastIO, silent, due, late, curTick>>

\* mode is SM_CLOSE once the connection is closed
ReadTick ==
  /\ pc = "read"
  /\ IF open THEN pc' = "compare" /\ curTick' = tick
             ELSE pc' = "idle" /\ UNCHANGED curTick
  /\ UNCHANGED <<tick, open, lastIO, silent, due, late>>

\* the bug of comparing the two clock values instead of their difference
CompareSigned ==
  /\ pc = "compare"
  /\ pc' = IF curTick >= lastIO + IdleLimit THEN "close" ELSE "idle"
  /\ UNCHANGED <<tick, open, lastIO, silent, due, late, curTick>>

\* m_lastIO may be later than curTick by now: the difference is unsigned
Compare ==
  /\ pc = "compare"
  /\ pc' = IF (curTick - lastIO) % Wrap >= IdleLimit THEN "close" ELSE "idle"
  /\ UNCHANGED <<tick, open, lastIO, silent, due, late, curTick>>

CloseSocket ==
  /\ pc = "close" /\ pc' = "idle"
  /\ open' = FALSE
  /\ UNCHANGED <<tick, lastIO, silent, due, late, curTick>>

Next == Tick \/ Active \/ Drop \/ Fire \/ Find \/ ReadTick \/ Compare \/ CloseSocket

Spec == Init /\ [][Next]_vars

-----------------------------------------------------------------------------
(* Properties *)

TypeOK ==
  /\ tick \in 0..Wrap - 1 /\ open \in BOOLEAN /\ lastIO \in 0..Wrap - 1
  /\ silent \in 0..Horizon /\ due \in 0..TimeOut /\ late \in 0..MaxDelay
  /\ pc \in {"idle", "find", "read", "compare", "close"} /\ curTick \in 0..Wrap - 1

\* A silent connection is closed: the callback that finds it silent for less than
\* SocketTimeOut less Slack is followed by one that does not, SocketTimeOut later,
\* whether or not GetTickCount has gone through zero (SocketServerEx.cpp:358-361).
SilentIsClosed == open => silent < 2 * TimeOut - Slack + MaxDelay

\* The timer closes a connection that was silent for SocketTimeOut less Slack when
\* the callback ran, or one that became active while the callback was running: then
\* m_lastIO is after curTick, or the decision was made before it (SocketServerEx.cpp:358-361).
OnlySilentIsClosed ==
  [][pc = "close" /\ pc' = "idle" /\ open => silent >= IdleLimit \/ silent <= late]_vars

\* "if SocketTimeOut is 0 the connection is cut at once; it is set to 180" (message,
\* GlobalAuth.cpp:409), which config.txt:28 gives in seconds: an idle connection
\* is closed after the default number of seconds, as after a configured one.
ZeroIsDefault == open => silent < 2 * DefaultTimeOut * Second + MaxDelay
=============================================================================
