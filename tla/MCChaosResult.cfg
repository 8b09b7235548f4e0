SPECIFICATION Spec
CONSTANTS
  ProbeLists <- MCProbeLists
  Thread = {main, abort}
  Target = {p1, p2}
  ChaosStatus = {"injected"}
  HasEngine = TRUE
  MaxRV = 3
  MaxPassed = 1
INVARIANTS TypeOK SnapshotsAreCurrent
PROPERTY ImplementsLedger
SYMMETRY ThreadSymmetry
VIEW View
