SPECIFICATION Spec
CONSTANTS
  Ranks = {0, 1}
  OutputRank = 0
  BatchQueue = 2
  Chunks = 7
  MaxCalls = 2
  MaxUtilities = 2
  MaxFaults = 1
INVARIANT EachWorkersReply
