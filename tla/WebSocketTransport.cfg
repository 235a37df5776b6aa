SPECIFICATION FairSpec
CONSTANTS
  f1 = f1
  f2 = f2
  x1 = x1
  x2 = x2
  a = a
  b = b
  Fetch = {f1, f2}
  Closer = {x1, x2}
  MaxConn = 2
  MaxSends = 1
  Context = {a}
  NoContext = NoContext
  NoConn = NoConn
  NoFetch = NoFetch
  NoFlags = NoFlags
INVARIANT TypeOK
INVARIANT ReaderOwnsConn
INVARIANT SteadyContext
PROPERTY OnlyANewerCallTakesTheSlot
PROPERTY ImplementsTransport
PROPERTY ShutdownEnds
CHECK_DEADLOCK FALSE
