SPECIFICATION PipelineSpec
CONSTANTS
  z = z
  p = p
  code1 = code1
  code2 = code2
  noCode = noCode
  badCode = badCode
  slots = slots
  zeros = zeros
  noStorage = noStorage
  noAddr = noAddr
  noKey = noKey
  noRoot = noRoot
  Addr <- MCAddr
  ZeroAddress = z
  Code <- MCCode
  NoCode = noCode
  BadCode = badCode
  Storage <- MCStorage
  NoStorage = noStorage
  KeyOf <- MCKeyOf
  NoAddr = noAddr
  NoKey = noKey
  NoRoot = noRoot
  ZeroSlots <- MCZeroSlots
  Word = 3
  Genesis <- MCGenesis
  ExpectedRoots <- MCExpectedRoots
  MaxEntries = 6
  DumpLines = {}
  AllocPairs = {}
  L1Accounts <- MCRecordAccounts
  Bases <- MCBases
  MaxLines = 6
  L1States <- MCL1States
  DumpsOf <- MCDumpsOf
INVARIANTS
  SignedOffIsMerge
PROPERTIES
  NoFalseAlarm
CHECK_DEADLOCK FALSE
