SPECIFICATION RxSpec
CONSTANTS
  Small = 3
  Base = 2
  RxBuf = 2
  Lens = {0, 2, 3, 5}
  Keys = {0, 11}
  MaxFrames = 3
CHECK_DEADLOCK FALSE
INVARIANTS
  Reassembled
  PiecesDescribed
