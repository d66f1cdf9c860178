CONSTANTS
  p1 = p1
  p2 = p2
  Absent = Absent
  Member = {p1, p2}
  Root = p1
  Kinds = {"target"}
SPECIFICATION FairLifecycleSpec
PROPERTIES
  EndsWithItsProcesses
CHECK_DEADLOCK FALSE
