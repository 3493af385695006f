SPECIFICATION Spec
CONSTANTS
  NumSamples = 6
  Workers = {w1, w2}
  Concurrency = 1
  QueueSize = 4
  Threshold = 1
  Settings <- MCUnchecked
  SameFilesystem = TRUE
  MaxRuns = 1
SYMMETRY Symmetric
INVARIANT SentinelsFit
