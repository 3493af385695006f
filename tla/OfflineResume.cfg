SPECIFICATION Spec
CONSTANTS
  NumSamples = 2
  Workers = {w1, w2}
  Concurrency = 1
  QueueSize = 4
  Threshold = 2
  Settings <- MCValidated
  SameFilesystem = TRUE
  MaxRuns = 2
SYMMETRY Symmetric
INVARIANT ResumesAfterCompleted
