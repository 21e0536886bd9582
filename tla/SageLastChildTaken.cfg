SPECIFICATION Spec
CONSTANTS
  Universe = {0, 1, 2, 44, 45, 52}
  Deals = {{0, 44, 52}, {44, 45, 52}, {0, 1, 45, 52}}
  MaxOthers = 2
CHECK_DEADLOCK FALSE
INVARIANT LastChildTaken
