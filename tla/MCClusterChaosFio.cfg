SPECIFICATION Spec
CONSTANTS
  t1 = t1
  t2 = t2
  Target = {t1, t2}
  Setups <- FioSetups
  Steps = 2
  MaxEdits = 0
INVARIANTS
  BreaksOffForThisPod
CHECK_DEADLOCK FALSE
