SPECIFICATION Spec
CONSTANTS
  Reqs = {r1, r2}
  Blocks = {b1, b2, b3}
  Groups = 1
  HiddenGroup = 1
  Need = 2
  ChunkedPrefill = TRUE
  MaxBatch = 1
  Depth = 2
  Writers = 1
  AbortsFrom = {}
  WritesFail = FALSE
INVARIANT CompleteRows
