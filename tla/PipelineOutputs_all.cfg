SPECIFICATION FairSpec
CONSTANTS
  i1 = i1
  i2 = i2
  InputIds = {i1, i2}
  OutputIds = {o1}
  Sides = {"video"}
  Options <- MCOptions
  Cap = 1
  ReuseInputs = FALSE
  MaxRefs = 2
INVARIANTS TypeOK KnowsItsInputs NothingAfterEos NothingForTheGone
PROPERTIES EndsRightly EosInTheEnd
