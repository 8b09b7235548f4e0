SPECIFICATION Spec
CONSTANT ProbeLists <- MCProbeLists
INVARIANT VerdictFollowsEvaluation
CHECK_DEADLOCK FALSE
