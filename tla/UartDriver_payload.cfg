SPECIFICATION Spec
CONSTANTS
  Fifo = 2
  RxInterrupt = TRUE
  Pbufs = {p1, p2}
  Null = Null
  MaxSize = 4
  MaxFrames = 4
INVARIANT SentAsReceived
CHECK_DEADLOCK FALSE
