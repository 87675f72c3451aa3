SPECIFICATION FairSpec
CONSTANTS
  o1 = o1
  o2 = o2
  Operators <- MCOperators
  NoOne = NoOne
  MaxAgents = 4
  MaxBacklog = 2
PROPERTIES
  AttachRestarts
