CONSTANTS
  UdpPort = {pt}
  SessionTtl = 1
  EndpointTtl = 3
  MaxInbox = 2
  NoSession = NoSession
SPECIFICATION UdpSpec
INVARIANT RedirectedIsServed
CHECK_DEADLOCK FALSE
