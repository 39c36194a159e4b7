\* Pools: two slots and three objects wanted at a time, so that lists hold two.
\* Ranges: 16 addresses of octets of one bit; three lines, so that one joins two.
\* Framing: packets and lines longer than a read, and bodies that fill the buffer.
\* Logs: two hours of two halves.
\* Idle timer: SocketTimeOut of 2 seconds of 3 ticks; GetTickCount wraps within three periods.
SPECIFICATION PartsSpec
CONSTANTS
  PoolThreads = {p1, p2}
  SlotCount = 2
  MaxInUse = 3
  NoObject = NULL
  Bits = 4
  OctetBits = 1
  MaxLines = 3
  ByteSize = 3
  BufferSize = 4
  LineMax = 2
  MaxProtocol = 2
  MaxBytes = 7
  LogThreads = {g1, g2}
  NoThread = NoThread
  NoFile = INVALID
  LastClock = 3
  Configured = 2
  Second = 3
  DefaultTimeOut = 1
  Slack = 2
  Wrap = 16
  MaxDelay = 2
  Horizon = 14
INVARIANTS
  PoolOnce
  PoolBounded
  SearchMatchesFile
  PacketsAsSent
  LogGoesOn
  SilentIsClosed
PROPERTY OnlySilentIsClosed
CHECK_DEADLOCK FALSE
