SPECIFICATION Spec
CHECK_DEADLOCK FALSE
CONSTANTS
  a = a
  b = b
  d1 = d1
  d2 = d2
  MaxAuthoritySize = 7
  PortRoom = 3
  Characters <- MCCharacters
  Colon = Colon
  Marker = Marker
  Listed <- MCListed
  Hostnames <- MCHostnames
  Ports <- MCPorts
  Bases <- MCBases
  LocalAddresses <- MCLocalAddresses
  Tails <- MCTails
  MaxServers = 2
  MaxNodes = 2
  NULL = NULL
INVARIANT ServersAreStrings
