SPECIFICATION HuffFairSpec
CONSTANTS
  BitsPerByte = 2
  TableBits = 3
  MaxDepth = 4
  MaxSymbols = 6
  Uses <- MCUses
  MaxMessage = 2
  GroupBits = 2
  MaxBytes = 2
  ValueBits = 3
CHECK_DEADLOCK FALSE
INVARIANTS
  OptimalCode
  TablesComplete
  ReadsWhatWasWritten
  RefusedOnlyWhenHuge
PROPERTIES
  Decodes
