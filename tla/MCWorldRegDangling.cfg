SPECIFICATION Spec
CONSTANTS
  Workers = {w1, w2}
  UI = ui
  Timer = timer
  Conns = {c1, c2, c3}
  Addrs = {a1, a2}
  None = None
  IdRange = 3
INVARIANT ClosedIsRemoved
CHECK_DEADLOCK FALSE
