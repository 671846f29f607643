SPECIFICATION Spec
CONSTANTS
  RunIds = {1, 2}
  MaxStarts = 4
  Overlap = TRUE
  Restarts = TRUE
  NoReceipt = NoReceipt
INVARIANTS
  WavesGapFree
  RecordedWaveReconciles
  LinksOutliveOverlap
PROPERTIES
  ImplementsChainedLedger
CHECK_DEADLOCK FALSE
