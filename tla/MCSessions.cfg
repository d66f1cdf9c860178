CONSTANTS
  Client = {c1, c2}
  SessionId = {s1}
  Pid = {p1}
  e1 = e1
  e2 = e2
  Endpoint <- MCEndpoint
  Configs <- MCConfigs
  MaxTime = 2
  None = None
  m1 = m1
  m2 = m2
  Absent = Absent
  Member = {m1, m2}
  Root = m1
  Kinds <- MCAllKinds
SPECIFICATION MCSpec
INVARIANTS
  TypeOK
  ProxyIndexInRange
  RoutedAsGranted
  LifecycleTypeOK
  Attended
PROPERTIES
  MaintenanceInvisible
  PromiseKept
  StaleEventuallySwept
  EveryRequestEnds
  EveryWaitEnds
  EndedStaysEnded
