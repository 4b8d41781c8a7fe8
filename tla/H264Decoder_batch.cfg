SPECIFICATION Spec
CONSTANTS
  MaxFrameNum = 3
  MaxRefs = 2
  MaxGapSize = 1
  MaxPics = 9
  MaxGop = 4
  MaxLost = 1
  Scenarios <- MCStrict
  MaxDelay = 2
  MaxInFlight = 1
INVARIANT StrictReferencesAreRight
CHECK_DEADLOCK FALSE
