SPECIFICATION FairSpec
CONSTANTS
  Replicas = 2
  MaxLen = 4
  Datasets <- MCDatasets
  MaxPresses = 1
INVARIANTS SharesFitTogether Safe
PROPERTIES EpochEnds InterruptedEnds
CHECK_DEADLOCK FALSE
