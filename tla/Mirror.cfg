SPECIFICATION Spec
CONSTANTS
  Conns = {a, b}
  Partial = {a}
  MAX_MESSAGE_QUEUE = 4
  Slack = 3
  MaxMessages = 5
CHECK_DEADLOCK FALSE
INVARIANTS
  KeptThenDeaf
  MirroredInOrder
  NothingLost
PROPERTIES
  ReadAgain
