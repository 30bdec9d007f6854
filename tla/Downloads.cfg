SPECIFICATION FairSpec
CONSTANTS
  Media <- VideoAndTrack
  Native <- Tracks
  Unfit <- Signed
  NoMedia = NoMedia
  MaxJobs = 3
  MaxEntries = 2
  Fits <- OneFileFits
  MaxTroubles = 2
CHECK_DEADLOCK FALSE
INVARIANTS CompletedIsFetched SlotIsOwned OnlyLimitsAndFaultsBlock
PROPERTIES AttemptsAreFresh CancelledIsLeftAlone RestartKeepsTheQueue JobsEnd
