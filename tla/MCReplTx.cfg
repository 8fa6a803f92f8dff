CONSTANTS
  Strings <- SomeStrings
  FifoDepth = 2
  SrcWait = 2
  EndWait = 1
  MaxCalls = 3
SPECIFICATION FairSpec
CHECK_DEADLOCK FALSE
INVARIANTS
  NoDanglingSource
  OutputComplete
  StoppedIsEmpty
PROPERTIES
  CallsReturn
