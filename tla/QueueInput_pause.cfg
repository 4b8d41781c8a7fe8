SPECIFICATION Spec
CONSTANTS
  NumTracks = 2
  Items <- MCPausedItems
  Placed <- MCMixed
  ItemLength <- MCItemLength
  Period <- MCPeriod
  Stretch = 1
  MaxSize = 2
  MaxPending = 1
  StaleTimeout = 1
  Required = FALSE
  AheadOfTime = FALSE
  PauseEarly = TRUE
  MaxPauses = 1
  MaxAborts = 1
  StartBy = 1
  QueueBy = 9
  MaxClock = 2
  MaxTime = 3
INVARIANTS TypeOK ExactFrame TimelyAudio EosOnTime
PROPERTIES OffsetPlaced PauseKeepsOffset PauseStopsConsumption
CHECK_DEADLOCK FALSE
