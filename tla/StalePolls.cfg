SPECIFICATION FairSpec
CONSTANTS
  f1 = f1
  x1 = x1
  x2 = x2
  a = a
  b = b
  v1 = v1
  v2 = v2
  Fetch = {f1}
  Closer = {}
  Context = {a}
  Config = {v1, v2}
  MaxChanges = 2
  NoContext = NoContext
  NoFlags = NoFlags
PROPERTY PollsConverge
CHECK_DEADLOCK FALSE
