SPECIFICATION Spec
CONSTANTS
  t1 = t1
  t2 = t2
  r1 = r1
  r2 = r2
  noContract = noContract
  chain = chain
  noRow = noRow
  noToken = noToken
  Token <- MCToken
  Run <- MCRun
  NoContract = noContract
  Chain = chain
  NoRow = noRow
  NoToken = noToken
  MaxActivity = 1
  Supplies <- MCTexts
  MaxTokenDecimals = 2
SYMMETRY Symmetry
INVARIANTS
  TypeOK
  OwnMetadata
  CompleteRunCoversTokens
  ForcedRunRepairs
  SupplyExact
PROPERTIES
  PlainRunsOverwriteNothing
CHECK_DEADLOCK FALSE
