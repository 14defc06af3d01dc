SPECIFICATION LockFairSpec
CONSTANTS
  Thread = {t1, t2}
  Readers = 1
  Size <- MCSize
  Limits = {2, 4}
  Wants = {1, 6}
  MaxCalls = 2
CHECK_DEADLOCK FALSE
PROPERTIES
  NeverLowered
