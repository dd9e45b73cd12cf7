SPECIFICATION FairSpec
CONSTANTS
  Count = 3
  Kinds <- MCKinds
  PageSize = 2
  BatchSize = 2
  RpcBatchSize = 3
  MaxFailures = 1
  MaxRuns = 2
INVARIANTS
  TypeOK
  EachAccountOnce
  CleanRunIsEqual
  SummaryAddsUp
PROPERTIES
  RunEnds
CHECK_DEADLOCK FALSE
