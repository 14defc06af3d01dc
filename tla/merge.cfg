SPECIFICATION FairSpec
CONSTANTS
  TopKey = 2
  Inputs = 3
  Input <- MCInput
  Key <- MCKey
  Value = {Empty, v}
  Empty = Empty
  NoKey = NoKey
  NoStep = NoStep
CHECK_DEADLOCK FALSE
INVARIANTS
  HeadsMatchHeap
  NeverRejected
  MergeCorrect
PROPERTIES
  Terminates
