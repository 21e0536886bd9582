SPECIFICATION Spec
CONSTANTS
  Elems = 5
  MaxLength = 3
  MaxBits = 3
  Roots = {1, 2}
  Enough = 100
  Freqs = {0, 1, 2, 5}
  RunLengths = {1, 2, 3, 4, 6, 7, 8, 10, 11, 138, 139}
  Dists = {1, 2, 4, 5, 6, 7, 8, 256, 257, 16384, 16385, 24577, 32768}
CHECK_DEADLOCK FALSE
INVARIANTS
  CodeIsOptimal
  TableDecodes
  SymbolsArrive
