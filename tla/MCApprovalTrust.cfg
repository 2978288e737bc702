SPECIFICATION Spec
CONSTANTS
  k1 = k1 k2 = k2 k3 = k3
  shell = shell mcp = mcp chat = chat firing = firing telegram = telegram ide = ide
  Calls = {k1, k2}
  Tools <- MCTools
  Sessions <- MCSessions
  Clients <- MCClients
  Requests <- MCRequests
  Policy <- MCPolicy
  McpTools = {mcp}
  FiringSessions = {firing}
  MaxBoot = 2
  MaxIncarnation = 2
INVARIANT
  TrustNotInherited
CHECK_DEADLOCK FALSE
