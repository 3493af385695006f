SPECIFICATION Spec
CONSTANTS
  NumLayers = 5
  Configs <- MCSampleConfig
  Batches <- MCPrompt
  DecodeThreshold = 1
  Entropies <- MCEntropies
  Faults = {"some"}
  MaxForwards = 1
INVARIANT EngineSurvives
