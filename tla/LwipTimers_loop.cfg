CONSTANTS
  Started <- MCStarted
  TCP = "tcp"
  Interval <- MCInterval
  Pool = 5
  MaxLate = 4
  MaxPcbs = 2
SPECIFICATION Spec
INVARIANTS TypeOK TcpTimersBounded TimerWhenNeeded CyclicKept PoolSuffices
PROPERTIES AlarmSpec HandlersRun TcpTimerRuns
CHECK_DEADLOCK FALSE
