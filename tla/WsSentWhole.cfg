SPECIFICATION Spec
CONSTANTS
  MaxTurns = 1
  MaxNoise = 0
  MaxTweets = 0
CHECK_DEADLOCK FALSE
INVARIANT SentWhole
