SPECIFICATION Spec
CONSTANTS
  f1 = f1
  p1 = p1
  s1 = s1
  c1 = c1
  x1 = x1
  x2 = x2
  CacheRestore = CacheRestore
  InitFetch = InitFetch
  NoFlags = NoFlags
  NoContext = NoContext
  EmptyContext = EmptyContext
  GivenContext = GivenContext
  SavedContext = SavedContext
  Fetcher = {f1}
  Push = {p1}
  Sub = {s1}
  Caller = {}
  Closer = {x1}
  Unmarshalable = {SavedContext, GivenContext}
  StartContexts = {NoContext, GivenContext}
  CacheEnabled = TRUE
  CacheFaults = FALSE
  Mode = "auto"
CHECK_DEADLOCK FALSE
INVARIANT TypeOK
INVARIANT FetchAfterConnect
INVARIANT DegradedModeHasFlags
INVARIANT CacheLagsOnlyByOverlap
PROPERTY CacheNeverOverwritesLive
PROPERTY FirstFetchIsNeverLate
PROPERTY CallbackOnlyWhileRegistered
PROPERTY ImplementsBroadcast
