SPECIFICATION HSpec
CONSTANTS
  N = 1
  RunIds = {r1, r2}
  MaxStarts = 2
  MaxConcurrent = 1
  NoFile = NoFile
  Half = Half
  NoStamp = NoStamp
INVARIANT OneWaveInFlight
CHECK_DEADLOCK FALSE
