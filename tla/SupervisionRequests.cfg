SPECIFICATION Spec
CONSTANTS
  MaxBacklog = 3
  MaxLines = 2
  MaxPerDrain = 1
  MaxPerPass = 1
  MaxPerTick = 3
  MaxRequests = 2
  MaxSeeks = 1
  MaxFaults = 0
INVARIANTS WakeIsQueued TicketIsLatest SeekReachesItsLoad
