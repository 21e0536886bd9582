SPECIFICATION Spec
CONSTANTS
  Socks = {s1, s2}
  Listener = l
  FileLen = 5
  Chunk = 2
  Room = 2
  UIntMod = 16
  MaxPackets = 2
  MaxConns = 2
CHECK_DEADLOCK FALSE
INVARIANTS
  TableConsistent
  FileInOrder
  WellBehavedIsSafe
PROPERTY
  FileServed
