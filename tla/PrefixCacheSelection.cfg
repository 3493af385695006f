\* Two requests share a block: one is saved with rows selected for the other.
SPECIFICATION Spec
CONSTANTS
  Reqs = {1, 2, 3}
  Prompt <- ThreePrompts
  BlockSize = 2
  Groups = 2
  HiddenGroup = 2
  NumBlocks = 8
  Budget = 9
  Threshold = 9
  Depth = 1
  ByPriority = FALSE
  Priority <- Equal
CHECK_DEADLOCK FALSE
INVARIANT OneSelection
