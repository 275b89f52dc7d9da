SPECIFICATION LiveSpec
CONSTANTS
  Threads = {t1, t2}
  Moves = {m1, m2}
  GoCommands <- Clocks
  Options <- CapOrNone
  Instants <- Around
  MaxSearches = 1
INVARIANTS
  UpdateExclusive
  DecisionSound
  LastWordRecorded
  BudgetOrdered
PROPERTIES
  DecisionStands
  TimedSearchEnds
CHECK_DEADLOCK FALSE
