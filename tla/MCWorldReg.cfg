\* Three connections of two servers; with an IdRange of 2 the second server gets the
\* invalid id.
SPECIFICATION FairSpec
CONSTANTS
  Workers = {w1, w2}
  UI = ui
  Timer = timer
  Conns = {c1, c2, c3}
  Addrs = {a1, a2}
  None = None
  IdRange = 2
INVARIANTS
  OneEntryPerAddress
  IdNamesServer
  EntryHasConnection
  ServerHasOneConnection
PROPERTY AcceptReturns
CHECK_DEADLOCK FALSE
