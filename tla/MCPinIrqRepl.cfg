CONSTANTS
  Pins = {p1, p2}
  Handlers = {h1, h2}
  None = None
  NotCallable = NotCallable
  Depth = 2
  MaxCalls = 1
  MaxEdges = 0
  MaxResets = 0
SPECIFICATION Spec
CHECK_DEADLOCK FALSE
INVARIANTS
  OnlyOwnVector
