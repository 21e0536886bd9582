SPECIFICATION Spec
CONSTANTS
  Byte = {0, 1}
  MAX_MATCH = 4
  WSize = 16
  LitBuf = 8
  MaxStored = 10
  TOO_FAR = 5
  Base = 11
  FastIn = 2
  Jobs <- SampleJobs
  Setups <- SampleSetups
  Chunks = {11, 30}
  Outs = {5, 60}
  ParamOuts = {60}
  Flushes = {0, 1, 2, 3}
  Kinds = {"stored", "dynamic"}
  MaxExtras = 1
  Readers <- SampleReaders
CHECK_DEADLOCK FALSE
INVARIANTS
  Decodable
  FlushPoints
  WindowWritten
  ReadBack
PROPERTY StreamEnds
