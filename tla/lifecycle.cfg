SPECIFICATION FairSpec
CONSTANTS
  o1 = o1
  o2 = o2
  Operators <- MCOperators
  NoOne = NoOne
  MaxAgents = 3
  MaxBacklog = 2
INVARIANTS
  PathHolds
PROPERTIES
  StopAndAttach
