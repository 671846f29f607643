SPECIFICATION HungSpec
CONSTANTS
  N = 1
  MaxParallel = 1
  MaxAttempts = 2
  MaxRuns = 3
INVARIANTS
  VerdictJustified
  IsolatedUnlessAbandoned
  LossNeedsAbandonment
  OutcomesMatchJournal
PROPERTIES
  ImplementsResumableWave
  WaveEnds
  ProcessExits
CHECK_DEADLOCK FALSE
