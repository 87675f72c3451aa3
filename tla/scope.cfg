SPECIFICATION Spec
CONSTANTS
  Probes = {1, 2}
  Commands = {"t", "n", "x", "r"}
  Kind <- MixKind
  Scope <- MixScope
INVARIANTS
  UndisturbedStreams
  CountedAndNested
CHECK_DEADLOCK FALSE
