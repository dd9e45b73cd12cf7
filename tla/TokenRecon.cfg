SPECIFICATION Spec
CONSTANTS
  Files <- MCFiles
  Malformed = "malformed"
  Erc20General <- General
  Erc20Roles <- Roles
  Erc721General <- Paused
  RpcBatchSize = 2
  MaxFailures = 1
  MaxBlocks = 1
  WordLength = 2
INVARIANTS
  TypeOK
  CleanRunIsEqual
  NoFalseAlarm
  CancelledRunIsNotClean
  SummaryAddsUp
  ConfigReadersAgree
CHECK_DEADLOCK FALSE
