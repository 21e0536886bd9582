SPECIFICATION Spec
CONSTANTS
  Socks = {s1}
  Listener = l
  FileLen = 4
  Chunk = 2
  Room = 2
  UIntMod = 16
  MaxPackets = 1
  MaxConns = 1
CHECK_DEADLOCK FALSE
INVARIANT FileSentWhole
