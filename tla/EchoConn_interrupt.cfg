CONSTANTS
  b1 = b1
  b2 = b2
  Pbuf = {b1, b2}
  Null = Null
  SndBuf = 2
  Wnd = 2
  MaxSegs = 3
  RxInterrupt = TRUE
  MayAbort = TRUE
SYMMETRY Symmetry
SPECIFICATION Spec
INVARIANT ConfigNotToUart
CONSTRAINT ConsumedBound
