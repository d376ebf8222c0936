SPECIFICATION Spec
CONSTANTS
  r1 = r1  r2 = r2
  None = None
  Run <- MCRun
  Call <- MCRun
  Request <- MCRequest
  Interval <- MCInterval
  FirstFile <- MCFirstFile
  Profit <- MCProfit
  InitialBalance = 1000
  CacheSize = 2
INVARIANTS
  BacktestReachesEnd
CHECK_DEADLOCK FALSE
