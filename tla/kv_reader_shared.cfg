SPECIFICATION FairSpec
CONSTANTS
  Reader = {r1, r2}
  TopKey = 2
  Key <- MCKey
  MaxKeys = 3
  Fanout = {2}
  Salt <- MCSalt
  BuildSalt = 1
  OfferedSalt = {1, 2}
  HashValue <- MCHashValue
  Hash <- MCHash
  SampleCap = 3
  Empty = Empty
  NotFound = NotFound
  NoSalt = NoSalt
PROPERTIES
  ImplementsPointLookup
