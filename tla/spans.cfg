SPECIFICATION Spec
CONSTANTS
  t1 = t1
  t2 = t2
  a = a
  b = b
  f = f
  g = g
  Threads = {t1, t2}
  Tasks = {a, b}
  Probes = {f, g}
  AsyncProbes = {f}
  MaxSpan = 4
SYMMETRY Permuted
INVARIANTS
  LinksHold
  EventsHold
CHECK_DEADLOCK FALSE
