CONSTANTS
  Size = 3
  MaxBytes = 5
  pt = pt
  h1 = h1
  s1 = s1
  s2 = s2
  s3 = s3
  NoEntry = NoEntry
  Port = {pt}
  Host = {h1}
  Service = {s1, s2, s3}
  DirectDest <- MCDirect
  MapperTtl = 2
  RedirectTtl = 3
  Reordering = FALSE
  c1 = c1
  c2 = c2
  c3 = c3
  Peer = {c1, c2, c3}
  MaxEvents = 3
  MaxRuns = 2
  NoClient = NoClient
  w1 = w1
  w2 = w2
  o1 = o1
  o2 = o2
  Worker = {w1, w2}
  Owner = {o1, o2}
  MaxKey = 2
  NoOwner = NoOwner
  UdpPort = {pt}
  SessionTtl = 1
  EndpointTtl = 3
  MaxInbox = 2
  NoSession = NoSession
  a = a
  b = b
  e1 = e1
  Process = {a, b}
  Pid = {1}
  PidOf <- MCPidOf
  Named = {b}
  Excluded = {b}
  Opaque = {}
  TcpEndpoint = {e1}
  UdpEndpoint = {}
  Serves = {"tcp"}
  MaxQueue = 1
  MaxAge = 1
  Nobody = Nobody
  q1 = q1
  q2 = q2
  q3 = q3
  svc = svc
  noTag = noTag
  Program = {q1, q2, q3}
  Number = {1, 2}
  NumberOf <- MCNumberOf
  Tag = {noTag, svc}
  NoTag = noTag
  MaxCache = 2
  NoProgram = NoProgram
  x1 = x1
  x2 = x2
  n1 = n1
  Adapter = {x1, x2}
  Callback = {n1}
  NoThread = NoThread
  MaxBinds = 1
  SocksServer = {s1, s2}
  MaxAdds = 2
  MaxRefusals = 1
  y1 = y1
  y2 = y2
  y3 = y3
  Bound = {y1, y2, y3}
  Caller = {n1, x1}
  ListSize = 2
  Free = Free
  MaxFetches = 3
  d1 = d1
  d2 = d2
  PortNumber = {1, 2}
  App = {d1, d2}
  AddressBits = 2
  NoSlash = NoSlash
  AppText = {{d1}}
  CidrText <- MCCidr
  Bad = Bad
  MaxTexts = 1
  MaxRules = 2
  HalfBase = 4
  Address = {6, 13}
  PortWord = {3, 15}
  MaxPayload = 3
  v1 = v1
  v2 = v2
  v3 = v3
  Buffer = {v1, v2, v3}
  Capacity <- MCCapacity
  PoolLimit = 1
  DatagramSize = {1, 2, 3, 4}
  LogWriter = {w1, w2}
  LogLimit = 1
  MaxLines = 3
SPECIFICATION MCSpec
INVARIANTS
  DataPathTypeOK
  NeverStalls
  MapperServesConnections
  SnapshotIsCurrent
  
  HandledByItsServer
  CredentialsOnlyIfAsked
  UdpTablesAgree
  DecisionIsCurrent
  CacheNamesItsProgram
  TunnelsFollowFilter
  DriverPassesWhatIsAsked
  HandlesLeadBack
  DirectAsConfigured
  RewrittenPacketsVerify
  LentPacketsAreSound
  LogIsDelivered
PROPERTIES
  RelayInOrder
CHECK_DEADLOCK FALSE
