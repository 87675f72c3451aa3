SPECIFICATION Spec
CONSTANTS
  Numerals = {"5", "7", "8"}
  MAX_DEPTH = 3
  BadPaths = {"bad"}
  MaxPattern = 5
  MaxPath = 4
  MaxLines = 5
  MaxText = 4
  MaxEvents = 4
  MaxBytes = 4
  MaxSegments = 4
  MaxItems = 2
  MaxChunks = 4
  MaxSamples = 3
  MaxNodes = 5
  MaxTrace = 5
  DayRanges <- MCDayRanges
INVARIANTS
  GlobIsGlob
  GrepIsGrep
  PipelineIsComposition
  TablesAgree
  DatesAreCalendar
  Base64RoundTrip
  EachFunctionOnce
  BusiestThreadsShown
  LineIsUnderstood
  TargetAnywhere
  MarkerFound
  ProfileAccounts
  TreeReadable
CHECK_DEADLOCK FALSE
