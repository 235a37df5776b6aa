SPECIFICATION Spec
CONSTANTS
  c1 = c1
  c2 = c2
  k1 = k1
  k2 = k2
  Client = {c1, c2}
  Key = {k1, k2}
  Context <- MCContext
  Start <- MCStart
  Adapter = {"memory", "redis"}
  TTL = 1
  MaxTime = 2
  MaxStarts = 2
  MaxUpdates = 1
CHECK_DEADLOCK FALSE
SYMMETRY Clients
INVARIANT TypeOK
INVARIANT KeysAreIsolated
INVARIANT AgeBoundedByRestores
INVARIANT IdentitySurvives
INVARIANT ConfigFollowsOptions
