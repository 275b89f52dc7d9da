SPECIFICATION Spec
CONSTANTS
  MaxGos = 1
INVARIANTS
  HardDeadlineStopsBoth
