---------------------------- MODULE MCExperiment ----------------------------
(* Instances of Experiment: at most one probe, with or without an old result. *)
EXTENDS Experiment

Q(type, mode, stop) ==
  <<[type |-> type, mode |-> mode, stopOnFailure |-> stop, source |-> FALSE,
     noTime |-> FALSE]>>

SOT == Q("cmdProbe", "SOT", TRUE)
Edge == Q("k8sProbe", "Edge", FALSE)
Continuous == Q("httpProbe", "Continuous", TRUE)
MCProbeLists == {<<>>, SOT, Edge, Continuous}

\* No result, and the completed result of an earlier run that failed.
MCOldResults ==
  {R!NoResult,
   [R!NoResult EXCEPT !.exists = TRUE, !.rv = 1, !.phase = "Completed",
                      !.verdict = "Fail", !.score = 0, !.runs["Fail"] = 1]}

Quiet(script, list) == [script |-> script, probes |-> list, signal |-> FALSE]
Signalled(script, list) == [script |-> script, probes |-> list, signal |-> TRUE]

\* Every experiment, every shape of script with probes, and a signal where
\* the abort watcher exits and where it does not.
MCCases ==
  { Quiet(script, <<>>) : script \in Main } \union
  { Quiet(PodDelete, Edge), Quiet(PodDelete, Continuous), Quiet(NodeTaint, SOT),
    Quiet(PodAutoscaler, Edge), Quiet(KafkaBrokerPodFailure, SOT),
    Quiet(EC2TerminateByID, Edge), Quiet(AzureInstanceStop, SOT),
    Signalled(PodDelete, <<>>), Signalled(PodNetworkPartition, <<>>) }

AbortCases == {Signalled(PodDelete, <<>>)}
=============================================================================
