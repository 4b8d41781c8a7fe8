SPECIFICATION Spec
CONSTANTS
  Inputs = {}
  Required = {}
  Waits = {}
  Events = {e1, e2}
  EventPts = {0, 2, 3}
  Heads = {}
  AheadOfTime = FALSE
  RunLate = FALSE
  NeverDrop = FALSE
  MaxTime = 6
  MaxStart = 1
  MaxBatches = 4
  Period <- MCPeriod
  Ahead <- MCAhead
  Chunk <- MCChunk
  Cap <- MCCap
INVARIANT TypeOK
INVARIANT Interleaved
INVARIANT LastPtsSeparates
INVARIANT EventsInPlace
INVARIANT ChannelsInOrder
CHECK_DEADLOCK FALSE
