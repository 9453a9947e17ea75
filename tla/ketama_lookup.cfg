SPECIFICATION FairSpec
CHECK_DEADLOCK FALSE
CONSTANTS
  NumContinuum = 5
  NumServers = 2
  MaxPoint = 4
INVARIANT TypeOK
INVARIANT NearestServer
INVARIANT ReadsInside
PROPERTY Halves
PROPERTY Returns
