------------------------- MODULE ExperimentScripts -------------------------
(***************************************************************************)
(* experiments/*: the functions that main of bin/experiment dispatches to, *)
(* as scripts: sequences of the operations module Experiment executes.     *)
(*                                                                         *)
(* An operation has an argument and says what happens when it fails:       *)
(*   ignore   the script goes on                                           *)
(*   return   the function returns                                         *)
(*   record   result.RecordAfterFailure, return                            *)
(*   event    an event in the chaosengine, then record                     *)
(*   warn     an event in the chaosengine, and the script goes on          *)
(*   complete an event, types.SetResultAfterCompletion, return             *)
(*   update   the same, and ChaosResult(EOT) before the return             *)
(* A check that is only made if a variable is set is always made here, and *)
(* may pass.  Events in the chaosengine only tell by what they leave in    *)
(* the event details.  An unknown CHAOS_LIB is a failure of the chaos.     *)
(***************************************************************************)
EXTENDS Sequences

CONSTANT HasEngine    \* ENGINE_NAME is set

Handlers == {"ignore", "return", "record", "event", "warn", "complete", "update"}
OpNames == {"initProbes", "update", "setResultEvent", "generateEvents",
            "setEngineEvent", "watch", "check", "probes", "chaos", "pass",
            "complete", "exit"}
Reasons == {"none", "Awaited", "Pass", "Fail", "Stopped", "Summary", "Engine"}
Args == {"", "SOT", "EOT", "byVerdict", "exit", "stay", "PreChaos", "PostChaos"}
          \union Reasons
Ops == [op : OpNames, arg : Args, onError : Handlers]

Op(op, arg, onError) == <<[op |-> op, arg |-> arg, onError |-> onError]>>

InitProbes(onError)    == Op("initProbes", "", onError)
Update(state, onError) == Op("update", state, onError)
Check(onError)         == Op("check", "", onError)
ResultEvent(reason)    == Op("setResultEvent", reason, "ignore")
                            \o Op("generateEvents", "", "ignore")
EngineEvent            == Op("setEngineEvent", "", "ignore")
Watch(kind)            == Op("watch", kind, "ignore")
IfEngine(script)       == IF HasEngine THEN script ELSE <<>>
Probes(ph)             == IfEngine(Op("probes", ph, "event") \o EngineEvent)
Pass                   == Op("pass", "", "ignore")
Complete(v)            == Op("complete", v, "ignore")

\* own: the chaoslib has abort watchers of its own, which exit the process.
Chaos(own) == Op("chaos", IF own THEN "exit" ELSE "stay", "record")

\* Mutant: types.SetResultAfterCompletion is forgotten.
RecordWithoutVerdict ==
  Update("EOT", "ignore") \o ResultEvent("Fail") \o IfEngine(EngineEvent)

RecordAfterFailure ==
  Complete("Fail") \o Update("EOT", "ignore") \o ResultEvent("Fail")
    \o IfEngine(EngineEvent)

\* Mutant: no return after the event of a failed check.
OnErrorWithoutReturn(handler, rest) ==
  CASE handler \in {"ignore", "warn"} -> rest
    [] handler = "return"   -> <<>>
    [] handler = "record"   -> RecordAfterFailure
    [] handler = "event"    -> EngineEvent \o rest
    [] handler = "complete" -> EngineEvent \o Complete("Fail")
    [] handler = "update"   -> EngineEvent \o Complete("Fail") \o Update("EOT", "ignore")

\* What is left to do when an operation of a script has failed.
OnError(handler, rest) ==
  CASE handler = "ignore"   -> rest
    [] handler = "return"   -> <<>>
    [] handler = "record"   -> RecordAfterFailure
    [] handler = "event"    -> EngineEvent \o RecordAfterFailure
    [] handler = "warn"     -> EngineEvent \o rest
    [] handler = "complete" -> EngineEvent \o Complete("Fail")
    [] handler = "update"   -> EngineEvent \o Complete("Fail") \o Update("EOT", "ignore")

\* common.AbortWatcherWithoutExit and, with the exit, common.AbortWatcher,
\* after the signal.
AbortWatcherWithoutExit ==
  Complete("Stopped") \o Update("EOT", "ignore") \o EngineEvent
    \o ResultEvent("Stopped")
AbortWatcher == AbortWatcherWithoutExit \o Op("exit", "", "ignore")

----------------------------------------------------------------------------
(* The experiments *)

Start == IfEngine(InitProbes("return")) \o Update("SOT", "record")
           \o ResultEvent("Awaited")

\* Mutant: the summary event comes before the update.
FinishBySummary == ResultEvent("byVerdict") \o Update("EOT", "return")
                     \o IfEngine(EngineEvent)

Finish == Update("EOT", "return") \o ResultEvent("byVerdict")
            \o IfEngine(EngineEvent)

\* Between the start and the end: the watcher (which leaves the exit to the
\* chaoslib if that has watchers of its own), what comes before the chaos,
\* the chaos, and what comes after it.
Body(own, pre, post) ==
  Watch(IF own THEN "stay" ELSE "exit") \o pre \o Chaos(own) \o Pass \o post
Script(own, pre, post) == Start \o Body(own, pre, post) \o Finish

\* The AUT is checked, and told about in an event if it is not well.
PodScript(own) == Script(own, Check("event") \o Probes("PreChaos"),
                              Check("event") \o Probes("PostChaos"))

ContainerKill         == PodScript(FALSE)
PodCPUHog             == PodScript(FALSE)
PodDelete             == PodScript(FALSE)
PodDNSError           == PodScript(FALSE)
PodDNSSpoof           == PodScript(FALSE)
PodIOStress           == PodScript(FALSE)
PodMemoryHog          == PodScript(FALSE)
PodNetworkCorruption  == PodScript(FALSE)
PodNetworkDuplication == PodScript(FALSE)
PodNetworkLatency     == PodScript(FALSE)
PodNetworkLoss        == PodScript(FALSE)
PodCPUHogExec         == PodScript(TRUE)
PodFioStress          == PodScript(TRUE)
PodMemoryHogExec      == PodScript(TRUE)
PodNetworkPartition   == PodScript(TRUE)

DiskFill ==
  Script(FALSE, Check("event") \o Check("record") \o Probes("PreChaos"),
                Check("event") \o Check("record") \o Probes("PostChaos"))

PodAutoscaler ==
  Script(TRUE, Check("complete") \o Probes("PreChaos"),
               Check("update") \o Probes("PostChaos"))

\* AUT and auxiliary applications.
AUT == Check("record") \o Check("record")

\* After the chaos a target node that is not ready is only warned about.
NodeChecks == AUT \o Check("event") \o Probes("PreChaos")
NodeWarnings == AUT \o Check("warn") \o Probes("PostChaos")
NodeScript(own) == Script(own, NodeChecks, NodeWarnings)

DockerServiceKill  == NodeScript(FALSE)
KubeletServiceKill == NodeScript(FALSE)
NodeCPUHog         == NodeScript(FALSE)
NodeIOStress       == NodeScript(FALSE)
NodeMemoryHog      == NodeScript(FALSE)
NodeDrain          == NodeScript(TRUE)
NodeTaint          == NodeScript(TRUE)

\* No awaited event, and a summary whose reason tells no verdict.
NodeRestart ==
  IfEngine(InitProbes("return")) \o Update("SOT", "record")
    \o Body(FALSE, NodeChecks, NodeWarnings)
    \o Update("EOT", "return") \o IfEngine(EngineEvent) \o ResultEvent("Summary")

RedfishNodeRestart ==
  Script(FALSE, AUT \o Check("record") \o Check("record") \o Probes("PreChaos"),
                AUT \o Check("record") \o Check("record") \o Probes("PostChaos"))

\* The liveness deployment is created before the chaos and removed in the end.
CasssandraPodDelete ==
  Script(FALSE, Check("event") \o Check("record") \o Probes("PreChaos") \o Check("record"),
                Check("event") \o Check("record") \o Probes("PostChaos")
                  \o Check("record") \o Check("record"))

\* No abort watcher; the liveness stream is started, checked and removed.
KafkaBrokerPodFailure ==
  Start
    \o Check("event") \o Probes("PreChaos") \o Check("record") \o Chaos(FALSE) \o Pass
    \o Check("event") \o Probes("PostChaos") \o Check("record") \o Check("record")
    \o Finish

AWSSSMChaosByID ==
  Script(TRUE, AUT \o Probes("PreChaos") \o Check("record") \o Check("record"),
               Check("record") \o AUT \o Probes("PostChaos"))
AWSSSMChaosByTag ==
  Script(TRUE, AUT \o Check("record") \o Probes("PreChaos"),
               Check("record") \o AUT \o Probes("PostChaos"))

\* Node count and state of the target instances.
EC2TerminateByID ==
  Script(TRUE, Check("record") \o AUT \o Probes("PreChaos") \o Check("record"),
               Check("record") \o Check("record") \o AUT \o Probes("PostChaos"))
EC2TerminateByTag == EC2TerminateByID
VMInstanceStop    == EC2TerminateByID

EBSLossByID ==
  Script(TRUE, Check("record") \o Probes("PreChaos") \o AUT,
               AUT \o Check("record") \o Probes("PostChaos"))
EBSLossByTag ==
  Script(TRUE, AUT \o Probes("PreChaos") \o Check("record"),
               AUT \o Check("record") \o Probes("PostChaos"))
VMDiskLoss == EBSLossByID

AzureDiskLoss ==
  Script(TRUE, AUT \o Check("record") \o Check("record") \o Probes("PreChaos"),
               AUT \o Check("record") \o Probes("PostChaos"))
VMPoweroff == AzureDiskLoss

\* Errors of InitializeProbesInChaosResultDetails and of the last ChaosResult
\* are only logged; the awaited event follows the checks.
AzureInstanceStop ==
  IfEngine(InitProbes("ignore")) \o Update("SOT", "record")
    \o Body(TRUE, AUT \o Check("record") \o ResultEvent("Awaited")
                    \o Probes("PreChaos") \o Check("record"),
                  Check("record") \o AUT \o Probes("PostChaos"))
    \o Update("EOT", "ignore") \o ResultEvent("byVerdict") \o IfEngine(EngineEvent)

\* The dispatch in bin/experiment.  An unknown name ends the process.
Main ==
  { ContainerKill, DiskFill, KafkaBrokerPodFailure, KubeletServiceKill,
    DockerServiceKill, NodeCPUHog, NodeDrain, NodeIOStress, NodeMemoryHog, NodeTaint,
    PodAutoscaler, PodCPUHogExec, PodDelete, PodIOStress, PodMemoryHogExec,
    PodNetworkCorruption, PodNetworkDuplication, PodNetworkLatency, PodNetworkLoss,
    PodNetworkPartition, PodMemoryHog, PodCPUHog, CasssandraPodDelete, AWSSSMChaosByID,
    AWSSSMChaosByTag, EC2TerminateByID, EC2TerminateByTag, EBSLossByID, EBSLossByTag,
    NodeRestart, PodDNSError, PodDNSSpoof, VMPoweroff, AzureInstanceStop, AzureDiskLoss,
    VMDiskLoss, PodFioStress, VMInstanceStop, RedfishNodeRestart, <<>> }
=============================================================================
