SPECIFICATION Spec
CONSTANTS
  NumEpochs = 1
  NumSteps = 5
  Settings <- MCAccum
  Losses <- MCLosses
  MaxRuns = 2
INVARIANT EpochIsFlushed
