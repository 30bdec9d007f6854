SPECIFICATION Spec
CONSTANTS
  Items <- Pair
  Sources <- PairSources
  SourceOf <- SourceOfPair
  Live <- Stations
  Nobody = Nobody
  Positions <- OnePosition
  MaxClock = 0
  MaxHeard = 2
  LateErrors = TRUE
  MaxFaults = 2
  MaxCrashes = 2
CHECK_DEADLOCK FALSE
INVARIANTS EverySecondOnce CountIsDurable
