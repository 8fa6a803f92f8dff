CONSTANTS
  Size = 3
  Newlines <- SomeNewlines
  MaxBytes = 7
  MaxReads = 4
  Objs = {o1, o2}
  NULL = NULL
  FifoDepth = 2
  MaxLen = 3
  MaxWrites = 3
  MaxResets = 1
SPECIFICATION UartSpec
CHECK_DEADLOCK FALSE
INVARIANTS
  ReadCountExact
  AnyIsHonest
  OneOwner
  TxDoneNotEarly
  DiscardNeedsBusy
PROPERTIES
  RingIsFifo
  TxDoneEventually
