SPECIFICATION Spec
CONSTANTS
  Count = 4
  Kinds <- OneKind
  PageSize = 3
  BatchSize = 2
  RpcBatchSize = 3
  MaxFailures = 0
  MaxRuns = 2
INVARIANT
  ResumeCoversAll
CHECK_DEADLOCK FALSE
