CONSTANTS
  Depth = 2
  MaxCalls = 3
  MaxResets = 0
SPECIFICATION Spec
INVARIANTS
  AcceptedRunOnce
