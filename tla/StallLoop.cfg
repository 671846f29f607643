SPECIFICATION Spec
CONSTANTS
  Loops = {r1, r2}
  r1 = r1
  r2 = r2
  Threshold = 1
  Budget = 1
  Base = 3
  MaxWaves = 5
  MaxCards = 3
  MaxDeaths = 2
SYMMETRY Symmetry
INVARIANTS
  StuckLoopPauses
  PauseIsEarned
  EventsMatchReplans
  CardsKept
  NewestCardIsFound
CHECK_DEADLOCK FALSE
