SPECIFICATION FairSpec
CONSTANTS
  Nodes <- MCNodes
  Root = "r"
  Kids <- MCKids
  Parent <- MCParent
  Kind <- MCKind
  Val <- MCVal
  GuardMate = {"c"}
  Threads = {t1, t2}
  NoThread = NoThread
  Mutexes = {1, 2}
  MutexOf <- MCMutexOf
  Evals <- FaultyEvals
  DrawScore <- MCDrawScore
  Prior <- MCPrior
  MaxNodes = 7
  CheckInterval = 1
  TreeLimit = 4
  MaxRuns = 2
INVARIANTS
  StatisticsSound
  TreeOvershootBounded
PROPERTIES
  Terminates
