SPECIFICATION Spec
CONSTANTS
  NoFile = NoFile
  Paths <- MCPaths
  Files <- ThreeFiles
  Playable <- NoPaths
  Mappings <- ThreeMoves
  InitialFs <- MCInitialFs
  InitialRows <- KnownRows
  Renames = TRUE
  SlowMoves = TRUE
  PlayUnresolved = FALSE
  WorkerMayDie = TRUE
  LateErrors = TRUE
  LateStarts = FALSE
  MaxFaults = 1
  MaxCrashes = 1
CHECK_DEADLOCK FALSE
INVARIANTS MemoryPublished
PROPERTIES FilesKept MoveReported CallsReturn ShutdownEnds
