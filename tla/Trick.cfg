SPECIFICATION TrickSpec
CONSTANTS
  Pack = {0, 1, 2, 28, 29, 32, 36, 52}
  Rule = "B"
CHECK_DEADLOCK FALSE
INVARIANTS
  TrickMonotone
  CodecRoundTrip
