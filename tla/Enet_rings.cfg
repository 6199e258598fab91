CONSTANTS
  TxNum = 3
  RxNum = 2
  MaxFrames = 4
  MaxRx = 2
SPECIFICATION Spec
INVARIANTS TypeOK WireFaithful NoGap WaitsBehindBad NoRxGap AtMostOneUncleaned
PROPERTIES FrameSent HandlerReturns
CHECK_DEADLOCK FALSE
