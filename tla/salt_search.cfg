SPECIFICATION KveiSpec
CONSTANTS
  TopSalt = 4
  MaxThreads = 3
  Asked = {0, 2, 9}
  HintLists <- MCHintLists
  WordBits = 4
  HashValue <- MCHashValue
  Mix <- MCMix
  Sizes = {4, 5}
  MaxKeys = 3
  HashTables <- MCHashTables
  SearchCap = 1
  ValidateCap = 3
INVARIANTS
  TypeOK
  FoundIsLeastReport
  FoundIffOneExists
  HintsComeFirst
  NoFalseNegative
  ActiveIsValidated
  OwnFilterAccepted
PROPERTIES
  CallReturns
