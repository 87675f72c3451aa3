SPECIFICATION Spec
SYMMETRY Symmetry
CONSTANTS
  s1 = s1
  s2 = s2
  Sessions <- MCSessions
  WALL_CAP = 2
  MaxStarts = 2
  MaxTicks = 3
INVARIANTS
  SessionsKeptApart
