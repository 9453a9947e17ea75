SPECIFICATION Spec
CONSTANTS
  MaxReplicas = 1
  HashMask = 7
  MaxServers = 2
  MaxRows = 3
  MaxParses = 2
  MaxConfigSize = 2
  Credentials = {"user"}
  Locators = {"absent", "ketama", "other", "not a string"}
  AllocFails = {"map", "servers", "nodes", "continuum", "credential", "message"}
  NULL = NULL
INVARIANT TypeOK
INVARIANT UsableAfterSuccess
INVARIANT DestroyStaysInside
INVARIANT MaskIsRemainder
INVARIANT WholeFile
