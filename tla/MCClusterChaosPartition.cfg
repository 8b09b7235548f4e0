SPECIFICATION FairSpec
CONSTANTS
  t1 = t1
  t2 = t2
  Target = {t1}
  Setups <- PartitionSetups
  Steps = 2
  MaxEdits = 0
PROPERTIES
  RevertTriedThrice
CHECK_DEADLOCK FALSE
