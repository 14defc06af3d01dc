SPECIFICATION FairSpec
CONSTANTS
  Client = {c1}
  Key = {k}
  Value = {Empty, u, v}
  Empty = Empty
  NotFound = NotFound
  NoRange = NoRange
  RangeLists <- MCSuccessive
  MaxSamples = 1
  MaxCompactions = 2
CHECK_DEADLOCK FALSE
PROPERTIES
  ImplementsPointLookup
  DeletionsKept
