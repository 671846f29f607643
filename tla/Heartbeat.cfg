SPECIFICATION HSpec
CONSTANTS
  N = 1
  RunIds = {r1, r2}
  r1 = r1
  r2 = r2
  MaxStarts = 3
  MaxConcurrent = 1
  NoFile = NoFile
  Half = Half
  NoStamp = NoStamp
SYMMETRY Symmetry
INVARIANTS
  RecordedStatesRecoverable
  TrailInOrder
  HalfCheckpointOvertaken
  StampedIsCovered
  InFlightIsHalfEmitted
  OverrideStopsLaterTicks
CHECK_DEADLOCK FALSE
