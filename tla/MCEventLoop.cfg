\* Two ports of two connections each: the second waits while the first is accepted, and
\* the port of the smaller index can outrun the other for ever.
SPECIFICATION JobFairSpec
CONSTANTS
  PortCount = 2
  Backlog = 2
INVARIANT TopTimerStays
PROPERTIES
  EveryoneAccepted
  StopEnds
CHECK_DEADLOCK FALSE
