SPECIFICATION Spec
CONSTANTS
  Target = {t1}
  Setups <- OtherInterface
INVARIANT ReportedRevertIsReal
CHECK_DEADLOCK FALSE
