SPECIFICATION BtSpec
CONSTANTS
  WordBits = 8
  Q = 2
  SuperQ = 8
  Plans <- MCPlans
  EfAlign = 4
  MaxKeyLen = 2
CHECK_DEADLOCK FALSE
INVARIANTS
  GetIsOffset
  OnlyCutJumpsPanic
  OpenedIsWhole
  NodesAreKeys
PROPERTIES
  GetReturns
