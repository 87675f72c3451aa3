SPECIFICATION Spec
SYMMETRY Symmetry
CONSTANTS
  s1 = s1
  s2 = s2
  Sessions <- MCSessions
  Capacity = 2
  FIRST_INDEX = 1000
  MaxJobs = 2
  MaxEvents = 3
  MaxCount = 2
INVARIANTS
  IndexIsForGood
  LogsHold
PROPERTIES
  NothingUndone
