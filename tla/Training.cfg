SPECIFICATION Spec
CONSTANTS
  NumEpochs = 2
  NumSteps = 4
  Settings <- MCSettings
  Losses <- MCLosses
  MaxRuns = 3
INVARIANTS TypeOK TrainedOnce BestIsLowest AlwaysLoadable
PROPERTY ResumesWhereSaved
