SPECIFICATION LiveSpec
CONSTANTS
  Inputs = {i1}
  Required = {}
  Waits = {i1}
  Events = {}
  EventPts = {}
  Heads = {1,4}
  AheadOfTime = FALSE
  RunLate = FALSE
  NeverDrop = FALSE
  MaxTime = 4
  MaxStart = 1
  MaxBatches = 4
  Period <- MCPeriod
  Ahead <- MCAhead
  Chunk <- MCChunk
  Cap <- MCCap
PROPERTY OptionalInputsNeverStall
PROPERTY ShutdownCompletes
INVARIANT EosExactlyOnce
CHECK_DEADLOCK FALSE
