SPECIFICATION Spec
CONSTANTS
  ProbeLists <- MCProbeLists
  OldResults <- MCOldResults
  Cases <- AbortCases
  Target = {}
  HasEngine = TRUE
  MaxRV = 6
INVARIANT AbortedRunNeverPasses
CHECK_DEADLOCK FALSE
