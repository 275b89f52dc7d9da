SPECIFICATION Spec
CONSTANTS
  Files = 4
  Ranks = 5
  Zone = 2
  Starts <- ProbeStarts
INVARIANTS
  MateInOneIsMate
CHECK_DEADLOCK FALSE
