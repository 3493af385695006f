SPECIFICATION Spec
CONSTANTS
  Reqs = {r1, r2}
  Blocks = {b1, b2}
  Groups = 1
  HiddenGroup = 1
  Need = 1
  ChunkedPrefill = FALSE
  MaxBatch = 1
  Depth = 1
  Writers = 1
  AbortsFrom = {"waiting", "running"}
  WritesFail = FALSE
INVARIANT EngineSurvives
