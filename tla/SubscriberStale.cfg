SPECIFICATION Spec
CONSTANTS
  f1 = f1
  p1 = p1
  s1 = s1
  c1 = c1
  x1 = x1
  x2 = x2
  Fetcher = {}
  Push = {p1}
  Sub = {s1}
  Caller = {}
  Closer = {}
  Unmarshalable = {}
  StartContexts = {GivenContext}
  CacheEnabled = FALSE
  CacheFaults = FALSE
  Mode = "auto"
  CacheRestore = CacheRestore
  InitFetch = InitFetch
  NoFlags = NoFlags
  NoContext = NoContext
  EmptyContext = EmptyContext
  GivenContext = GivenContext
  SavedContext = SavedContext
CHECK_DEADLOCK FALSE
INVARIANT SubscribersSeeCurrentFlags
