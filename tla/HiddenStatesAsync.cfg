\* The data-generation server: asynchronous scheduling, no chunked prefill.
SPECIFICATION FairSpec
CONSTANTS
  Reqs = {r1, r2}
  Blocks = {b1, b2}
  Groups = 1
  HiddenGroup = 1
  Need = 1
  ChunkedPrefill = FALSE
  MaxBatch = 2
  Depth = 2
  Writers = 1
  AbortsFrom = {"running"}
  WritesFail = TRUE
INVARIANTS TypeOK CompleteRows
PROPERTIES FinishedIsReleased ClientServed ImplementsHandOff
