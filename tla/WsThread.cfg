SPECIFICATION Spec
CONSTANTS
  MaxTurns = 2
  MaxNoise = 2
  MaxTweets = 1
CHECK_DEADLOCK FALSE
INVARIANTS
  SocketTable
  QueueScheduled
PROPERTIES
  ImplementsSession
  QuietAfterClose
  ConnectEnds
  ClientEnds
