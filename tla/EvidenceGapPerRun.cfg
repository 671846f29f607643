SPECIFICATION Spec
CONSTANTS
  RunIds = {1, 2}
  MaxStarts = 3
  Overlap = FALSE
  Restarts = FALSE
  NoReceipt = NoReceipt
INVARIANTS
  WavesGapFreePerRun
CHECK_DEADLOCK FALSE
