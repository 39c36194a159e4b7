\* Three objects: a failed attempt between two connections, or three connections.
\* Two timer threads, as a routine may be at its end while the next one fires.
SPECIFICATION FairSpec
CONSTANTS
  Timers = {t1, t2}
  Worker = w
  User = u
  Main = m
  Listener = l
  MaxSocks = 3
  None = None
INVARIANTS
  RetryChain
  PointerIsLive
  UnlockedUse
  OnlyTheseLeak
PROPERTY AttemptEnds
CHECK_DEADLOCK FALSE
