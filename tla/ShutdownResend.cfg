SPECIFICATION Spec
CONSTANTS
  Replicas = 2
  MaxLen = 4
  Datasets <- TwoBatches
  MaxPresses = 1
INVARIANT ResendsAreIgnored
CHECK_DEADLOCK FALSE
