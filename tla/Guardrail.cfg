SPECIFICATION FairSpec
CONSTANTS
  c1 = c1
  c2 = c2
  eng = eng
  lead = lead
  chief = chief
  NoRole = NoRole
  Calls = {c1, c2}
  Retries = 1
  Roles = {eng, lead, chief}
  Boss <- Chain
INVARIANTS
  FeedbackIsKept
  HaltCostsOneRun
  SelfReviewOnlyAtTop
PROPERTIES
  HaltIsKept
  CallsEnd
CHECK_DEADLOCK FALSE
