SPECIFICATION Spec
CONSTANTS
  Authorities <- MCAuthorities
  PointsPerServer = 2
  MaxPoint = 2
  NodeLists <- MCNodeLists
  MaxNodes = 2
INVARIANT TypeOK
INVARIANT ContinuumReady
PROPERTY OrderIndependent
PROPERTY MinimalDisruption
