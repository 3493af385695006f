\* Three prompts that share prefixes, two cache groups with blocks of two tokens,
\* asynchronous scheduling, chunks of two tokens, seven usable blocks.
SPECIFICATION FairSpec
CONSTANTS
  Reqs = {1, 2, 3}
  Prompt <- ThreePrompts
  BlockSize = 2
  Groups = 2
  HiddenGroup = 2
  NumBlocks = 8
  Budget = 4
  Threshold = 2
  Depth = 2
  ByPriority = FALSE
  Priority <- Equal
INVARIANTS PoolIsConsistent PrefixesReachable HitsAreRight
PROPERTIES EvictsCachedLast Served
CHECK_DEADLOCK FALSE
