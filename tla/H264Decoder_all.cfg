SPECIFICATION Spec
CONSTANTS
  MaxFrameNum = 3
  MaxRefs = 2
  MaxGapSize = 1
  MaxPics = 9
  MaxGop = 4
  MaxLost = 1
  Scenarios <- MCScenarios
  MaxDelay = 1
  MaxInFlight = 1
INVARIANTS TypeOK SlotsApart DecodedAsEncoded WholeStreamAccepted BufferMirrorsReferences StrictReferencesAreRight
CHECK_DEADLOCK FALSE
