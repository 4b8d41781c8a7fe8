SPECIFICATION LiveSpec
CONSTANTS
  NumTracks = 2
  Items <- MCShortItems
  Placed <- MCPlaced
  ItemLength <- MCItemLength
  Period <- MCPeriod
  Stretch = 1
  MaxSize = 2
  MaxPending = 1
  StaleTimeout = 3
  Required = TRUE
  AheadOfTime = TRUE
  PauseEarly = FALSE
  MaxPauses = 0
  MaxAborts = 0
  StartBy = 0
  QueueBy = 1
  MaxClock = 1
  MaxTime = 7
PROPERTIES TracksPlay
CHECK_DEADLOCK FALSE
