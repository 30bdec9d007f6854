SPECIFICATION FairSpec
CONSTANTS
  Jobs <- OneWorker
  Items <- OneVideo
  Nobody = Nobody
  QuitWhileLoading = FALSE
  Positions <- Few
  MaxChanges = 2
  MaxUnsaved = 1
  MaxHeard = 1
  MaxFaults = 1
INVARIANTS PublicPositionsOnly PublicSecondsOnly NothingPrivateKept OnePolicy
PROPERTIES OffIsSilent LeasesEnd ChangesEnd
