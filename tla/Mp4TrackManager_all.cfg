SPECIFICATION LiveSpec
CONSTANTS
  Streams = {"video", "audio"}
  Fits = {"video"}
  MaxPending = 1
  MaxCalls = 2
  MaxLoops = 2
INVARIANTS TypeOK LoopsFollowTheEnd
PROPERTIES RequestsServed
CHECK_DEADLOCK FALSE
