SPECIFICATION FairSpec
CONSTANTS
  NumSamples = 3
  Workers = {w1, w2}
  Concurrency = 1
  QueueSize = 1
  Threshold = 2
  Settings <- MCSettings
  SameFilesystem = FALSE
  MaxRuns = 2
INVARIANTS TypeOK ConservesSamples DoneIsAccounted MovesFinishedFiles
PROPERTIES KeepsSaved RunEnds
