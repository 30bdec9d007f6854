SPECIFICATION Spec
CONSTANTS
  Jobs <- NoWorkers
  Items <- OneVideo
  Nobody = Nobody
  QuitWhileLoading = TRUE
  Positions <- Few
  MaxChanges = 2
  MaxUnsaved = 0
  MaxHeard = 0
  MaxFaults = 0
INVARIANT PublicPositionsOnly
