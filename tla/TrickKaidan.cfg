SPECIFICATION TrickSpec
CONSTANTS
  Pack = {0, 4, 8, 13}
  Rule = "B"
CHECK_DEADLOCK FALSE
INVARIANT KaidanMayLead
