SPECIFICATION FairSpec
CONSTANTS
  Target = {t1, t2}
  Setups <- MCSetups
INVARIANTS TypeOK RevertIsReal SuccessIsComplete OneByOne
PROPERTIES AbortReverts LibReturns
CHECK_DEADLOCK FALSE
