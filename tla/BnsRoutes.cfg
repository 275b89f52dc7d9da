SPECIFICATION SessionSpec
CONSTANTS
  Lookback = 6
  Clusters = 64
  Generations = 3
  INF = 1000000
  kInf = 1000000
  Sessions <- MCRouteSessions
  Problems <- MCRouteProblems
INVARIANT NoMateTrue
CHECK_DEADLOCK FALSE
