SPECIFICATION Spec
CONSTANTS
  MaxBacklog = 1
  MaxLines = 2
  MaxPerDrain = 2
  MaxPerPass = 1
  MaxPerTick = 2
  MaxRequests = 1
  MaxSeeks = 1
  MaxFaults = 1
INVARIANTS TypeOK FrontIsTold NothingStranded
PROPERTIES RequestsAnswered ExitIsNoticed
