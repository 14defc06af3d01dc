SPECIFICATION LockFairSpec
CONSTANTS
  Thread = {t1, t2}
  Readers = 2
  Size <- MCSize
  Limits = {2, 4, 6}
  Wants = {1, 8}
  MaxCalls = 2
CHECK_DEADLOCK FALSE
INVARIANTS
  OkMeansPinned
  UnlockedMeansFree
  LockedAtTheLimit
PROPERTIES
  UnprivilegedNeverLowered
  CallsReturn
