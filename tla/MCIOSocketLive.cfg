SPECIFICATION FairSpec
CONSTANTS
  Workers = {w1, w2}
  Others = {o1}
  Packets = {p1}
  Buffers = {b1, b2}
  NoBuf = NoBuf
  NoPacket = NoPacket
  BufferSize = 2
  MaxWrites = 2
  MaxShort = 0
PROPERTIES
  Reclaimed
  WritesDrain
CHECK_DEADLOCK FALSE
