SPECIFICATION FairSpec
CONSTANTS
  p1 = p1
  p2 = p2
  k1 = k1
  k2 = k2
  Proc <- MCProc
  Key <- MCKey
  MaxAttempts <- MCMaxAttempts
INVARIANTS
  TypeOK
  
  SessionOwnsItsConnection
  EndedHoldsNothing
PROPERTIES
  LateConnectionClosed
  CancelledRunEnds
CHECK_DEADLOCK FALSE
