SPECIFICATION FairSpec
CONSTANTS
  x1 = x1
  x2 = x2
  x3 = x3
  Closer = {x1, x2, x3}
  Cleanup = Cleanup
CHECK_DEADLOCK FALSE
INVARIANT TypeOK
INVARIANT OneTransport
PROPERTY ConnectEnds
PROPERTY ImplementsTransport
