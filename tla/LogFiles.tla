------------------------------ MODULE LogFiles ------------------------------
(***************************************************************************)
(* A log (CFileLog, CLogdFilelog) that writes the lines of many threads    *)
(* into one file an hour, or one for each half of an hour.  The thread     *)
(* that finds the hour changed opens the next file and closes the old one, *)
(* with the critical section taken; every line is written after it has     *)
(* been left.  The hour is read before the critical section is entered,    *)
(* and CLogdFilelog's half of the hour is kept in members no lock guards.  *)
(*                                                                         *)
(* A handle is the number of its CreateFile.  A file is opened for writing *)
(* by one handle at a time (FILE_SHARE_READ); CreateFile fails for no      *)
(* other reason here, and a handle value is not used again.  CLogdFilelog  *)
(* is used by WriteLogD alone, which no handler of this tree calls.  What  *)
(* is written, the day, message types and CLog's window are left out.      *)
(***************************************************************************)
EXTENDS Integers, FiniteSets

CONSTANTS
  LogThreads,  \* the threads that log
  NoThread,
  NoFile,      \* INVALID_HANDLE_VALUE
  LastClock    \* half hours that pass: bounds the history

ASSUME LogAssumption ==
  LastClock \in Nat /\ NoFile \notin Nat /\ NoThread \notin LogThreads

VARIABLES
  logd,                \* the log is a CLogdFilelog
  clock,               \* half hours
  logFile,             \* the member logFile
  opened, openNow,     \* the file of every handle so far; the handles not closed
  prevHour, currFlag, prevFlag,
  section,             \* the owner of criticalSection
  gpc, tm, handle      \* per thread: control point, hour of its tm, handle in hand

logVars == <<logd, clock, logFile, opened, openNow, prevHour, currFlag, prevFlag,
             section, gpc, tm, handle>>
files == <<logFile, opened, openNow>>
marks == <<prevHour, currFlag, prevFlag>>

Hour == clock \div 2
Half == clock % 2

LogPCs == {"idle", "stamp", "enter", "open", "close", "leave", "write"}

\* after SetDirectory: the file of the hour is open
LogInit ==
  /\ logd \in BOOLEAN /\ clock \in {0, 1}
  /\ logFile = 0 /\ opened = [h \in {0} |-> <<0, 0>>] /\ openNow = {0}
  /\ prevHour = 0 /\ currFlag = 0 /\ prevFlag = (IF logd THEN Half ELSE 0)
  /\ section = NoThread
  /\ gpc = [t \in LogThreads |-> "idle"]
  /\ tm = [t \in LogThreads |-> 0] /\ handle = [t \in LogThreads |-> NoFile]

LogGoto(t, label) == gpc' = [gpc EXCEPT ![t] = label]

HalfHour ==
  /\ clock < LastClock
  /\ clock' = clock + 1
  /\ UNCHANGED <<logd, files, marks, section, gpc, tm, handle>>

\* AddLog; CLogdFilelog's sets the half of the hour first
AddLog(t) ==
  /\ gpc[t] = "idle"
  /\ currFlag' = IF logd THEN Half ELSE currFlag
  /\ LogGoto(t, "stamp")
  /\ UNCHANGED <<logd, clock, files, prevHour, prevFlag, section, tm, handle>>

\* time and localtime of AddLogEx, which may be later than AddLog's
Stamp(t) ==
  /\ gpc[t] = "stamp"
  /\ tm' = [tm EXCEPT ![t] = Hour]
  /\ LogGoto(t, "enter")
  /\ UNCHANGED <<logd, clock, files, marks, section, handle>>

StartNewLog(t) == tm[t] # prevHour \/ currFlag # prevFlag

\* the bug of a file that is changed outside the critical section
MayEnter_Always == TRUE
MayEnter == section = NoThread

EnterSection(t) ==
  /\ gpc[t] = "enter"
  /\ MayEnter
  /\ section' = t
  /\ LogGoto(t, IF StartNewLog(t) /\ logFile # NoFile THEN "open" ELSE "leave")
  /\ UNCHANGED <<logd, clock, files, marks, tm, handle>>

\* ConstructLogPath, OpenLogFile and the exchange of the member
OpenNew(t) ==
  /\ gpc[t] = "open"
  /\ LET name == <<tm[t], currFlag>>
         h    == Cardinality(DOMAIN opened)
         busy == \E g \in openNow : opened[g] = name
     IN  IF busy THEN logFile' = NoFile /\ UNCHANGED <<opened, openNow>>
         ELSE /\ logFile' = h
              /\ opened' = [g \in DOMAIN opened \cup {h} |-> IF g = h THEN name ELSE opened[g]]
              /\ openNow' = openNow \cup {h}
  /\ handle' = [handle EXCEPT ![t] = logFile]
  /\ LogGoto(t, "close")
  /\ UNCHANGED <<logd, clock, marks, section, tm>>

CloseOld(t) ==
  /\ gpc[t] = "close"
  /\ openNow' = openNow \ {handle[t]}
  /\ prevHour' = tm[t]
  /\ handle' = [handle EXCEPT ![t] = NoFile]
  /\ LogGoto(t, "leave")
  /\ UNCHANGED <<logd, clock, logFile, opened, currFlag, prevFlag, section, tm>>

LeaveSection(t) ==
  /\ gpc[t] = "leave"
  /\ section' = NoThread
  /\ LogGoto(t, "write")
  /\ UNCHANGED <<logd, clock, files, marks, tm, handle>>

\* WriteFile, into the file of that moment, if there is one; CLogdFilelog's AddLog
\* then remembers the half of the hour
EndLog(t) ==
  /\ gpc[t] = "write"
  /\ prevFlag' = IF logd THEN currFlag ELSE prevFlag
  /\ tm' = [tm EXCEPT ![t] = 0]
  /\ LogGoto(t, "idle")
  /\ UNCHANGED <<logd, clock, files, prevHour, currFlag, section, handle>>

-----------------------------------------------------------------------------
LogNext ==
  \/ HalfHour
  \/ \E t \in LogThreads :
       \/ AddLog(t) \/ Stamp(t) \/ EnterSection(t) \/ OpenNew(t)
       \/ CloseOld(t) \/ LeaveSection(t) \/ EndLog(t)

LogSpec == LogInit /\ [][LogNext]_logVars

-----------------------------------------------------------------------------
(* Properties *)

LogTypeOK ==
  /\ logd \in BOOLEAN /\ clock \in 0..LastClock
  /\ openNow \subseteq DOMAIN opened /\ logFile \in DOMAIN opened \cup {NoFile}
  /\ prevHour \in Nat /\ currFlag \in {0, 1} /\ prevFlag \in {0, 1}
  /\ section \in LogThreads \cup {NoThread}
  /\ gpc \in [LogThreads -> LogPCs] /\ tm \in [LogThreads -> Nat]

\* A file that is changed is closed and no handle is lost, in either class; and a
\* CFileLog always has a file to write to, even when a thread that read the hour
\* before the others changes back to the last file.  A CLogdFilelog has not: two
\* threads at the turn of the half hour open one file twice, the second CreateFile
\* fails, and the log ends for good.
LogGoesOn ==
  /\ openNow = ({logFile} \cup {handle[t] : t \in LogThreads}) \ {NoFile}
  /\ ~logd => logFile # NoFile
=============================================================================
