SPECIFICATION FairSpec
CONSTANTS
  f1 = f1
  p1 = p1
  s1 = s1
  c1 = c1
  x1 = x1
  x2 = x2
  Fetcher = {f1}
  Push = {p1}
  Sub = {}
  Caller = {c1}
  Closer = {x1, x2}
  Unmarshalable = {}
  StartContexts = {NoContext}
  CacheEnabled = FALSE
  CacheFaults = FALSE
  Mode = "auto"
  CacheRestore = CacheRestore
  InitFetch = InitFetch
  NoFlags = NoFlags
  NoContext = NoContext
  EmptyContext = EmptyContext
  GivenContext = GivenContext
  SavedContext = SavedContext
CHECK_DEADLOCK FALSE
INVARIANT CloseWaitsForPushes
PROPERTY CloseReturns
PROPERTY ShutdownDrains
