SPECIFICATION ReconfigureSpec
CHECK_DEADLOCK FALSE
CONSTANTS
  a = a
  b = b
  c = c
  NULL = NULL
  Handles <- MCHandles
  Requests = {r1, r2}
  Digests <- MCDigests
  MaxChanges = 1
INVARIANT ListsEnd
INVARIANT ListsDescribeChange
INVARIANT QuietMeansSame
INVARIANT InFlightMeansSame
INVARIANT ConnectionsFit
PROPERTY KeptHandleIsCurrent
PROPERTY EveryRequestServed
