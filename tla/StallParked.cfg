SPECIFICATION Spec
CONSTANTS
  r1 = r1
  Loops = {r1}
  Threshold = 1
  Budget = 0
  Base = 10
  MaxWaves = 4
  MaxCards = 2
  MaxDeaths = 0
INVARIANT
  UnansweredStaysParked
CHECK_DEADLOCK FALSE
