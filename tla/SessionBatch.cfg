SPECIFICATION Spec
CONSTANTS
  MaxBatch = 2
  MaxCalls = 2
  Capacity = 4
  Aborting = FALSE
INVARIANT
  OwnReplies
CHECK_DEADLOCK FALSE
