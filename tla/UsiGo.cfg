SPECIFICATION LiveSpec
CONSTANTS
  MaxGos = 2
INVARIANTS
  SignalsKept
  QuietWhenIdle
PROPERTIES
  MatePlayedIfItStoppedSearch
  EveryGoAnswered
