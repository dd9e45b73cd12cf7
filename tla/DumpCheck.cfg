SPECIFICATION CheckSpec
CONSTANTS
  z = z
  p = p
  code1 = code1
  code2 = code2
  noCode = noCode
  badCode = badCode
  slots = slots
  zeros = zeros
  noStorage = noStorage
  noAddr = noAddr
  noKey = noKey
  noRoot = noRoot
  Addr <- MCAddr
  ZeroAddress = z
  Code <- MCCode
  NoCode = noCode
  BadCode = badCode
  Storage <- MCStorage
  NoStorage = noStorage
  KeyOf <- MCKeyOf
  NoAddr = noAddr
  NoKey = noKey
  NoRoot = noRoot
  ZeroSlots <- MCZeroSlots
  Word = 3
  DumpLines <- MCDumpLines
  AllocPairs <- MCAllocPairs
  Genesis <- MCGenesis
  ExpectedRoots <- MCExpectedRoots
  MaxEntries = 3
INVARIANTS
  CheckTypeOK
  VerifiedDumpIsState
  VerifiedAllocIsMerge
CHECK_DEADLOCK FALSE
