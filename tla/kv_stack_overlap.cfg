SPECIFICATION FairSpec
CONSTANTS
  Client = {c1}
  Key = {k}
  Value = {Empty, u, v}
  Empty = Empty
  NotFound = NotFound
  NoRange = NoRange
  RangeLists <- MCOverlapping
  MaxSamples = 1
  MaxCompactions = 1
CHECK_DEADLOCK FALSE
PROPERTIES
  CompactionKeepsAnswers
