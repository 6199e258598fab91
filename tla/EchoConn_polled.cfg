CONSTANTS
  b1 = b1
  b2 = b2
  b3 = b3
  Pbuf = {b1, b2, b3}
  Null = Null
  SndBuf = 2
  Wnd = 3
  MaxSegs = 3
  RxInterrupt = FALSE
  MayAbort = TRUE
SPECIFICATION FairSpec
INVARIANTS TypeOK InOrder WindowConserved OnlyAbortLeaks
PROPERTIES InboxSpec SegmentConsumed
