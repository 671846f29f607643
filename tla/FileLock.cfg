SPECIFICATION FairSpec
CONSTANTS
  u1 = u1
  u2 = u2
  a1 = a1
  r1 = r1
  p1 = p1
  NoFile = NoFile
  Calls <- AllCalls
  Kind <- Of
  Strict = {u2}
INVARIANTS
  LockedReadersSeeWholeLines
PROPERTIES
  ImplementsAtomicLog
  PollingEnds
CHECK_DEADLOCK FALSE
