SPECIFICATION FairSpec
CONSTANTS
  Target = {t1, t2}
  Setups <- MCSetups
INVARIANTS
  TypeOK
  SuccessIsComplete
  OneByOne
  LeftDownIsRecorded
  AbortReverts
PROPERTIES
  AbortEnds
CHECK_DEADLOCK FALSE
