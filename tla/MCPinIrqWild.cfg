CONSTANTS
  Pins = {p1}
  Handlers = {h1}
  None = None
  NotCallable = NotCallable
  Depth = 2
  MaxCalls = 1
  MaxEdges = 1
  MaxResets = 1
SPECIFICATION Spec
CHECK_DEADLOCK FALSE
INVARIANTS
  EdgeFindsContext
