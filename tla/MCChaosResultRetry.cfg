SPECIFICATION Spec
CONSTANTS
  ProbeLists <- MCProbeLists
  Thread = {main, abort}
  Target = {p1}
  ChaosStatus = {"injected"}
  HasEngine = TRUE
  MaxRV = 3
  MaxPassed = 1
INVARIANT RetriesCanSucceed
