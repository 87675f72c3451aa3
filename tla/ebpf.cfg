SPECIFICATION EbpfSpec
CONSTANTS
  Threads = {1}
  SymbolTable <- MCSymbols
  Maps <- MCMaps
  LoadedAt <- MCLoadedAt
  Functions <- MCFunctions
  Requests <- MCRequests
  MAX_ATTACH = 2
  SAMPLE_CAP = 2
  RingSize = 4
  MaxDepth = 2
  MaxCalls = 3
  MaxRequests = 2
  MaxFrames = 2
INVARIANTS
  ExactIfUndisturbed
  CountedIfNothingLost
  ReportsHold
PROPERTIES
  CommandTakesItsProbes
  TimedEnds
