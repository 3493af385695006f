SPECIFICATION Spec
CONSTANTS
  NumLayers = 5
  Configs <- MCSmallConfigs
  Batches <- MCBatches
  DecodeThreshold = 1
  Entropies <- MCEntropies
  Faults = {"none"}
  MaxForwards = 2
INVARIANTS QuietFallbackIsDummy
