SPECIFICATION DumpSpec
CONSTANTS
  t1 = t1
  d1 = d1
  d2 = d2
  NoThread = NoThread
  Targets <- MCTargets
  Dumpers <- MCDumpers
  Wanted <- MCWanted
  MAX_THREADS = 2
  MaxStack = 2
  MaxDumps = 2
INVARIANTS
  StacksHold
  HandlerComesBack
CHECK_DEADLOCK FALSE
