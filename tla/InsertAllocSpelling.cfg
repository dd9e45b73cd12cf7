SPECIFICATION Spec
CONSTANTS
  h = h
  t = t
  d = d
  v = v
  w = w
  Addr <- MCAddr
  HeadLettered <- MCHeadLettered
  TailLettered <- MCTailLettered
  Value <- MCValue
  Configs <- MCConfigs
  LineKeys <- MCLineKeys
  MaxLines = 2
INVARIANT
  NoOverwrites
CHECK_DEADLOCK FALSE
