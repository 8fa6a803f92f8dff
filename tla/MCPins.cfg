CONSTANTS
  Pins = {p1, p2}
  Handlers = {h1, h2}
  None = None
  NotCallable = NotCallable
  Depth = 1
  MaxCalls = 3
  MaxEdges = 2
  MaxResets = 1
  Scan = {0, 1}
  Manual = 7
  Inputs = {1000}
  Bytes = {1, 255}
  MaxReads = 3
SPECIFICATION PinsSpec
INVARIANTS
  HandlerIsCurrent
  NoStaleEdge
  QueuedAlive
  FreshSample
  DacReadsBack
PROPERTIES
  ReadsReturn
