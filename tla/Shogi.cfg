SPECIFICATION Spec
CONSTANTS
  Files = 4
  Ranks = 5
  Zone = 2
  Starts <- MCStarts
INVARIANTS
  LegalMovesExact
  ChecksExact
  ApproxMatesSound
  UndoRestores
  HashExact
  RepetitionExact
CHECK_DEADLOCK FALSE
