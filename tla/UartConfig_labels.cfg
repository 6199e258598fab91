CONSTANT
  UartClock = 120000000
SPECIFICATION Spec
INVARIANT AsLabelled
