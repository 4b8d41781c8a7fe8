SPECIFICATION LiveSpec
CONSTANTS
  NumTracks = 2
  SeqMod = 16
  First = 14
  Final <- MCFinal
  Pts <- MCPts
  Window = 2
  MaxLate = 2
  MaxSkip = 1
INVARIANTS TypeOK LeavesInTime
PROPERTIES ImplementsOrderedStream EosInTheEnd
CHECK_DEADLOCK FALSE
