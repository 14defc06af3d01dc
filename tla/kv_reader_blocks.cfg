SPECIFICATION Spec
CONSTANTS
  Reader = {r1}
  TopKey = 6
  Key <- MCKey
  MaxKeys = 6
  Fanout = {1, 2, 3, 4}
  Salt <- MCSalt
  BuildSalt = 1
  OfferedSalt = {1, 2}
  HashValue <- MCHashValue
  Hash <- MCHash
  SampleCap = 2
  Empty = Empty
  NotFound = NotFound
  NoSalt = NoSalt
INVARIANTS
  NeverAnotherValue
  NeverMissed
  SearchKeepsKey
