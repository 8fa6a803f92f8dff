CONSTANTS
  MaxObjs = 2
  FifoDepth = 2
  Lens = {2}
  MaxCalls = 2
SPECIFICATION FairSpec
CHECK_DEADLOCK FALSE
INVARIANTS
  OwnResult
  NoForeignMemory
PROPERTIES
  Settles
