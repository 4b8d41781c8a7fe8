SPECIFICATION LiveProducersSpec
CONSTANTS
  Inputs = {i1}
  Required = {i1}
  Waits = {i1}
  Events = {e1}
  EventPts = {2}
  Heads = {9}
  AheadOfTime = FALSE
  RunLate = FALSE
  NeverDrop = FALSE
  MaxTime = 3
  MaxStart = 0
  MaxBatches = 4
  Period <- MCPeriod
  Ahead <- MCAhead
  Chunk <- MCChunk
  Cap <- MCCap
PROPERTY EventsRun
PROPERTY ScheduleReturns
CHECK_DEADLOCK FALSE
