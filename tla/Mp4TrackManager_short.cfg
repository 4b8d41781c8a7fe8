SPECIFICATION LiveSpec
CONSTANTS
  Streams = {"video", "audio"}
  Fits = {"video"}
  MaxPending = 1
  MaxCalls = 2
  MaxLoops = 3

PROPERTIES ResumeEndsPause
CHECK_DEADLOCK FALSE
