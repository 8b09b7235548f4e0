SPECIFICATION FairSpec
CONSTANTS
  t1 = t1
  t2 = t2
  Target = {t1, t2}
  Setups <- MCSetups
  Steps = 2
  MaxEdits = 1
INVARIANTS
  TypeOK
  SuccessIsComplete
  LeftIsRecorded
  AbortReverts
  OthersKept
PROPERTIES
  AbortEnds
CHECK_DEADLOCK FALSE
