SPECIFICATION Spec
CONSTANTS
  NoFile = NoFile
  Paths <- MCPaths
  Files <- KnownFiles
  Playable <- MCPaths
  Mappings <- MCMappings
  InitialFs <- MCInitialFs
  InitialRows <- MCInitialRows
  Renames = TRUE
  SlowMoves = FALSE
  PlayUnresolved = FALSE
  WorkerMayDie = FALSE
  LateErrors = FALSE
  LateStarts = FALSE
  MaxFaults = 2
  MaxCrashes = 1
CHECK_DEADLOCK FALSE
INVARIANTS TypeOK IdentityRecoverable RemapStaysPossible
PROPERTIES MovesAreAtomic
