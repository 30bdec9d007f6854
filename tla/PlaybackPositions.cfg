SPECIFICATION Spec
CONSTANTS
  Items <- Recordings
  Sources <- RecordingSources
  SourceOf <- SourceOfRecording
  Live <- NoStations
  Nobody = Nobody
  Positions <- TwoPositions
  MaxClock = 1
  MaxHeard = 1
  LateErrors = FALSE
  MaxFaults = 1
  MaxCrashes = 1
CHECK_DEADLOCK FALSE
INVARIANTS TypeOK SavesSurvive SavesAreRead ClosedIsPublished
PROPERTIES SavesAreAtomic
