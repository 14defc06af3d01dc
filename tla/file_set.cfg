SPECIFICATION Spec
CONSTANTS
  TopKey = 3
  Key <- MCKey
  NoKey = NoKey
  Absent = Absent
  MaxWriters = 2
  MaxFailures = 2
CHECK_DEADLOCK FALSE
INVARIANTS
  OkMeansComplete
  NoStaleSiblings
  TmpCleanedUp
