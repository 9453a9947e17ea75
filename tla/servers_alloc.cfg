SPECIFICATION Spec
CONSTANTS
  MaxReplicas = 1
  HashMask = 7
  MaxServers = 2
  MaxRows = 4
  MaxParses = 1
  Locators = {"vbucket"}
  AllocFails = {"servers"}
  MaxConfigSize = 1
  Credentials = {}
  NULL = NULL
INVARIANT ParseReturns
