SPECIFICATION Spec
CONSTANTS
  Headers = {"GET_URI", "HTTP", "ORIGIN", "UPGRADE", "VERSION", "PEER_ADDRESS", "URI"}
  MaxValue = 2
  NFrags = 5
  DataSize = 7
  MaxLines = 3
CHECK_DEADLOCK FALSE
INVARIANTS
  TableSound
  HeadersCollected
