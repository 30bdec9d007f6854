SPECIFICATION Spec
CONSTANTS
  NoFile = NoFile
  Paths <- MCPaths
  Files <- MCFiles
  Playable <- MCPaths
  Mappings <- MCMappings
  InitialFs <- MCInitialFs
  InitialRows <- MCInitialRows
  Renames = FALSE
  SlowMoves = TRUE
  PlayUnresolved = FALSE
  WorkerMayDie = FALSE
  LateErrors = FALSE
  LateStarts = FALSE
  MaxFaults = 0
  MaxCrashes = 1
CHECK_DEADLOCK FALSE
INVARIANTS IdentityRecoverable
