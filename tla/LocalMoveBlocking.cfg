SPECIFICATION Spec
CONSTANTS
  NoFile = NoFile
  Paths <- MCPaths
  Files <- MCFiles
  Playable <- NoPaths
  Mappings <- MCMappings
  InitialFs <- MCInitialFs
  InitialRows <- MCInitialRows
  Renames = FALSE
  SlowMoves = FALSE
  PlayUnresolved = TRUE
  WorkerMayDie = FALSE
  LateErrors = FALSE
  LateStarts = FALSE
  MaxFaults = 0
  MaxCrashes = 2
CHECK_DEADLOCK FALSE
INVARIANTS IntentRemembered
PROPERTIES BlockedWhileUnsettled
