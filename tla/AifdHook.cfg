SPECIFICATION Spec
CONSTANTS
  NumLayers = 5
  Configs <- MCConfigs
  Batches <- MCBatches
  DecodeThreshold = 1
  Entropies <- MCEntropies
  Faults = {"none", "some", "all"}
  MaxForwards = 2
INVARIANTS TypeOK ChannelContract AifdChannelLast SelectionIsRight SelectsAsDocumentedUnlessCancelled
