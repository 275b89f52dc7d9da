SPECIFICATION Spec
CONSTANTS
  a = a
  b = b
  Objects = {o1, o2, o3, o4, o5}
  Null = Null
  Threads = {t1, t2}
  Moves = {a, b}
  Keys = {1, 2}
  Games <- Lines
  MaxPly = 2
  Reserve = 2
  MaxCommands = 3
SYMMETRY TreeSymmetry
INVARIANTS
  TreeSound
  BytesExact
