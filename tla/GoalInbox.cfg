SPECIFICATION FairSpec
CONSTANTS
  g1 = g1
  x1 = x1
  k1 = k1
  k2 = k2
  Requests <- All
  Kind <- Of
  Subject <- Same
  Seconds = {1}
INVARIANTS
  AcceptedIsKept
  AuditedIsDone
PROPERTIES
  RequestsEnd
CHECK_DEADLOCK FALSE
