SPECIFICATION QSpec
CONSTANTS
  Callers = {c1, c2}
  Principals = {p1, p2}
  Limit = 2
  Window = 3
  Patience = 1
  MaxTime = 5
  MaxCalls = 4
INVARIANTS
  WithinQuota
  RecentGrantsKept
  RefusalJustified
CHECK_DEADLOCK FALSE
