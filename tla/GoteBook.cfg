SPECIFICATION FairSpec
CONSTANTS
  MaxUint32 = 6
  Keys = {0, 1, 2, 3, 4, 5, 6, 7, 8, 9}
  Workers = {w1, w2}
  Tasks <- MCTasks
INVARIANTS
  DistancesExact
  PolicyExits
  ProbeExact
PROPERTIES
  NothingLost
  GeneratorEnds
CHECK_DEADLOCK FALSE
