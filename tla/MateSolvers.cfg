SPECIFICATION FairSpec
CONSTANTS
  Lookback = 6
  Clusters = 7
  Generations = 3
  INF = 1000000
  kInf = 1000000
  Sessions <- MCSessions
  Problems <- MCProblems
INVARIANTS
  VerdictsSound
  LinesMate
  DescentsProgress
  ChildrenAllocated
  ShallowMateSound
PROPERTY SearchEnds
CHECK_DEADLOCK FALSE
