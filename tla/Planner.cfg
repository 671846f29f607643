SPECIFICATION FairSpec
CONSTANTS
  w1 = w1
  w2 = w2
  N = 3
  Waves = {w1, w2}
  MaxSize = 2
  Fields <- MCFields
  Edits <- Unblock
INVARIANTS
  ZoneExclusive
  PlanFollowsPriority
PROPERTIES
  PlansAtOneInstant
  EveryTicketIsDone
CHECK_DEADLOCK FALSE
