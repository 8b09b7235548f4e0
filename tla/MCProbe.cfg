SPECIFICATION FairSpec
CONSTANT ProbeLists <- MCProbeLists
INVARIANTS TypeOK VerdictsAreRight PreChaosGate EveryProbeJudged NoPodLeftRunning ScoreBound
PROPERTIES FailureIsReported RunProbesReturns
CHECK_DEADLOCK FALSE
