CONSTANTS
  s1 = s1
  p1 = p1
  p2 = p2
  e1 = e1
  None = None
  Client <- MCReroute
  SessionId = {s1}
  Pid = {p1}
  Endpoint = {e1}
  Configs <- MCConfigs
  EndpointOf <- MCEndpointOf
  MaxTime = 1
SPECIFICATION FairIpcSpec
INVARIANTS
  IpcTypeOK
  GrantInForce
PROPERTIES
  ImplementsPidRoutes
  EveryTaskEnds
