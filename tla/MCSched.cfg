CONSTANTS
  Depth = 2
  MaxCalls = 5
  MaxResets = 1
SPECIFICATION FairSpec
INVARIANTS
  NeverPreempted
  InOrderOnce
  NoStrandedWork
PROPERTIES
  AcceptedRuns
