SPECIFICATION Spec
CONSTANTS
  x = 2
  y = 5
  Byte = {2, 5}
  MaxWordLen = 4
  MaxWords = 2
  PatternSets <- MCPatternSets
  MaxInterrupts = 2
  ByteBits = 2
  GroupBits = 2
  MaxBytes = 3
  ValueBits = 5
  CodeLengths <- MCCodeLengths
CHECK_DEADLOCK FALSE
INVARIANTS
  CursorOnWord
  ReadsBack
  NeverPanics
  FailsOnlyInterrupted
