CONSTANTS
  b1 = b1
  b2 = b2
  b3 = b3
  Pbuf = {b1, b2, b3}
  Null = Null
  SndBuf = 2
  Wnd = 2
  MaxSegs = 3
  RxInterrupt = FALSE
  MayAbort = FALSE
SPECIFICATION FairSpec
PROPERTY ClosesWhenClientDone
