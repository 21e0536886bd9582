SPECIFICATION Spec
CONSTANTS
  MaxFile = 5
  Files <- SampleFiles
  Wants = {1, 4}
  Lens = {3}
  Offsets = {0, 2}
  MaxPos = 6
  MaxPushed = 3
  Want = 2
  Bytes = {1, 2}
  Gaps = {0, 3}
  MaxGiven = 4
CHECK_DEADLOCK FALSE
INVARIANT
  GetcAtTold
