SPECIFICATION Spec
CONSTANTS
  Fifo = 2
  RxInterrupt = FALSE
  Pbufs = {p1, p2}
  Null = Null
  MaxSize = 4
  MaxFrames = 4
INVARIANTS TypeOK BusyServed IntactUntilFreed
PROPERTIES BytesInOrder TransferEnds
CHECK_DEADLOCK FALSE
