CONSTANTS
  MaxObjs = 2
  MaxAddr = 1
  Devices = {1}
  Lens = {2}
  MaxCalls = 2
SPECIFICATION FairSpec
CHECK_DEADLOCK FALSE
INVARIANTS
  OwnResult
  NoWildAccess
  ContinuationIsHeld
PROPERTIES
  Settles
