CONSTANT
  UartClock = 120000000
SPECIFICATION Spec
INVARIANTS TypeOK RateFrom1200 DefaultRestores
