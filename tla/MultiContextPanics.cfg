SPECIFICATION Spec
CONSTANTS
  c1 = c1
  c2 = c2
  k1 = k1
  k2 = k2
  Client = {c1}
  Key = {k1, k2}
  Context <- MCContext
  Start <- MCStart
  Adapter = {"nop"}
  TTL = 1
  MaxTime = 2
  MaxStarts = 3
  MaxUpdates = 1
CHECK_DEADLOCK FALSE
INVARIANT NeverPanics
