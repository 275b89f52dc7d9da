SPECIFICATION Spec
CONSTANTS
  Nodes <- MCNodes
  Root = "r"
  Kids <- MCKids
  Parent <- MCParent
  Kind <- MCKind
  Val <- MCVal
  GuardMate = {"c"}
  Threads = {t1, t2}
  NoThread = NoThread
  Mutexes = {1, 2}
  MutexOf <- MCMutexOf
  Evals = {1}
  DrawScore <- MCDrawScore
  Prior <- MCPrior
  MaxNodes = 5
  CheckInterval = 1
  TreeLimit = 100
  MaxRuns = 1
SYMMETRY ThreadSymmetry
INVARIANTS
  FlagsSound
  PlayoutsBounded
  OnlyPublishedScanned
  BestMoveVerified
PROPERTIES
  ChildrenBuiltOnce
  ImplementsProvenTree
