SPECIFICATION FairSpec
CONSTANTS
  Ranks = {0, 1}
  OutputRank = 0
  BatchQueue = 2
  Chunks = 7
  MaxCalls = 8
  MaxUtilities = 1
  MaxFaults = 1
INVARIANTS Safe ViewsStable
PROPERTY WaitsEnd
