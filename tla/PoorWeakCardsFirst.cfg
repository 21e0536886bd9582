SPECIFICATION Spec
CONSTANTS
  Universe = {0, 1, 2, 5, 48, 52}
  SizeModulus = 128
  FaultIndex = 2
CHECK_DEADLOCK FALSE
INVARIANT WeakCardsFirst
