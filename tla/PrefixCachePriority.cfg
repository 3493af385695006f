\* Priority scheduling: the first request is preempted in the step that
\* scheduled it, by a request of higher priority that is behind it.
SPECIFICATION Spec
CONSTANTS
  Reqs = {1, 2}
  Prompt <- TwoPrompts
  BlockSize = 1
  Groups = 1
  HiddenGroup = 1
  NumBlocks = 10
  Budget = 4
  Threshold = 2
  Depth = 1
  ByPriority = TRUE
  Priority <- LastFirst
INVARIANTS ReadsOwnPrefix
CHECK_DEADLOCK FALSE
