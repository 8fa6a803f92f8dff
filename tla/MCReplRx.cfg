\* A ring of three usable slots and a two-byte FIFO: both fill up and wrap.
CONSTANTS
  RxBufSize = 4
  FifoDepth = 2
  MaxBytes = 7
SPECIFICATION FairSpec
INVARIANTS
  TypeOK
  ReadHasTarget
  ChainUnbroken
  ReadIsStable
  InOrder
  NothingVanishes
PROPERTIES
  RingIsFifo
  LossHasCause
  EveryByteSettles
