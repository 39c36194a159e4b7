\* Two connections for four users, so that two of them poll; three callbacks of
\* UpdateDB that may overlap.  No symmetry: there are liveness properties.
SPECIFICATION FairSpec
CONSTANTS
  ConnCount = 2
  UI = ui
  Timers = {t1, t2, t3}
  Acceptors = {a1}
  NoSlot = NULL
PROPERTIES
  ImplementsQueue
  PoolServes
  UpdateLetsGo
CHECK_DEADLOCK FALSE
