SPECIFICATION FairSpec
CONSTANTS
  MaxBatch = 1
  MaxCalls = 3
  Capacity = 3
  Aborting = TRUE
INVARIANTS
  OwnReplies
  OkMeansDone
  ServerSurvives
PROPERTIES
  ExecReturns
  HandlerReturns
CHECK_DEADLOCK FALSE
