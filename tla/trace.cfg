SPECIFICATION FairSpec
CONSTANTS
  Spans <- MCSpans
  Picked <- MCPicked
  MaxCount = 2
INVARIANTS
  Placed
  TreesWhole
PROPERTIES
  DeadlineEndsIt
