SPECIFICATION Spec
CONSTANTS
  MaxReplicas = 1
  HashMask = 7
  MaxServers = 2
  MaxRows = 4
  MaxParses = 2
  Locators = {"vbucket"}
  AllocFails = {}
  MaxConfigSize = 1
  Credentials = {}
  NULL = NULL
INVARIANT StoresResult
