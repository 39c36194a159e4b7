SPECIFICATION Spec
CONSTANTS
  Workers = {w1, w2}
  Others = {o1, o2}
  Packets = {p1, p2}
  Buffers = {b1, b2, b3}
  NoBuf = NoBuf
  NoPacket = NoPacket
  BufferSize = 2
  MaxWrites = 3
  MaxShort = 1
SYMMETRY Symmetry
INVARIANTS
  RefLedger
  NoUseAfterDelete
  ListedIsAlive
  OneSend
  WriteOrder
  BufferStable
CHECK_DEADLOCK FALSE
