SPECIFICATION Spec
CHECK_DEADLOCK FALSE
CONSTANTS
  NumVBuckets = 2
  NumServers = 3
  NumReplicas = 1
  MaxReplicas = 2
  NULL = NULL
  Requests = {r1, r2, r3}
  Digests <- MCDigests
  Maps <- MCMaps
  ForwardMaps <- NoForwardMap
  MaxMoves = 0
  FollowsForward = FALSE
  Masters <- AnyMaster
SYMMETRY RequestSymmetry
INVARIANT TypeOK
PROPERTY CloserToOwner
PROPERTY SearchSpec
