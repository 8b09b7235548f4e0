SPECIFICATION FairSpec
CONSTANTS
  ProbeLists <- MCProbeLists
  OldResults <- MCOldResults
  Cases <- MCCases
  Target = {}
  HasEngine = TRUE
  MaxRV = 6
INVARIANTS TypeOK PassIsEarned RunIsClosed SummaryMatchesResult
PROPERTY ExperimentEnds
CHECK_DEADLOCK FALSE
