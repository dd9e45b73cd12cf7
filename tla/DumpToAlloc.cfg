SPECIFICATION FairSpec
CONSTANTS
  z = z
  p = p
  code1 = code1
  code2 = code2
  noCode = noCode
  badCode = badCode
  slots = slots
  noStorage = noStorage
  Addr <- MCAddr
  ZeroAddress = z
  Code <- MCCode
  NoCode = noCode
  BadCode = badCode
  Storage <- MCStorage
  NoStorage = noStorage
  L1Accounts <- MCL1Accounts
  Bases <- MCBases
  MaxLines = 3
INVARIANTS
  TypeOK
  ProtectedContractsKept
  NothingDropped
  EntryCount
  ClosingChecksPass
  SupplyConserved
PROPERTIES
  MergesAsPromised
  RunEnds
CHECK_DEADLOCK FALSE
