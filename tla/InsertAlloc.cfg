SPECIFICATION Spec
CONSTANTS
  h = h
  t = t
  d = d
  v = v
  w = w
  Addr <- MCAddr
  HeadLettered <- MCHeadLettered
  TailLettered <- MCTailLettered
  Value <- MCValue
  Configs <- MCConfigs
  LineKeys <- MCLineKeys
  MaxLines = 2
INVARIANTS
  TypeOK
  RightEntryWins
  OneSpelling
  RerunAddsNothing
CHECK_DEADLOCK FALSE
