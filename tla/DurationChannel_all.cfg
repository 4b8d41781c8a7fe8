SPECIFICATION FairSpec
CONSTANTS
  s1 = s1
  s2 = s2
  s3 = s3
  Senders <- MCSenders
  First = s1
  Ranges <- MCRanges
  Capacity = 2
  MaxItems = 2
INVARIANTS TypeOK NobodySleepsInVain
PROPERTIES ImplementsChannel
CHECK_DEADLOCK FALSE
