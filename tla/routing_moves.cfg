SPECIFICATION FairSpec
CHECK_DEADLOCK FALSE
CONSTANTS
  NumVBuckets = 2
  NumServers = 3
  NumReplicas = 1
  MaxReplicas = 2
  NULL = NULL
  Requests = {r1, r2}
  Digests <- MCDigests
  Maps <- MCMaps
  ForwardMaps <- MCForwardMaps
  MaxMoves = 2
  FollowsForward = TRUE
  Masters <- AnyMaster
INVARIANT MasterNotItsReplica
PROPERTY BetterAnswer
PROPERTY EveryRequestServed
