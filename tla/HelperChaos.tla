---------------------------- MODULE HelperChaos ----------------------------
(***************************************************************************)
(* The chaos libraries that inject by helper pods (network, stress, dns    *)
(* chaos, disk-fill, container-kill): the part of the experiment process   *)
(* that creates the pods of HelperPod, waits for them and deletes them,    *)
(* for one target after the other or for all of them together.             *)
(*                                                                         *)
(* The five libraries have this code in common but for the name in         *)
(* DeletesByName.  Polls are one step: they see what they wait for, or     *)
(* their time is over.                                                     *)
(***************************************************************************)
EXTENDS HelperPod

VARIABLES
  lib,       \* where the library is
  left,      \* targets whose helper has yet to be created
  batch,     \* helpers that carry the label the library waits for
  aborted    \* the operator has deleted the helper pods

libVars == <<lib, left, batch, aborted>>
vars == <<setup, podVars, helperVars, targetVars, libVars>>

SetupType ==
  [kind : Kinds, sequence : {"serial", "parallel"}, policy : {"delete", "retain"},
   sidecar : BOOLEAN, grace : BOOLEAN, eth0 : BOOLEAN]

ASSUME SetupAssumption == Setups \subseteq SetupType

LibStates == {"start", "create", "check", "wait", "delete", "deleting",
              "cleanup", "cleaning", "ok", "failed", "aborted"}

Ops == {"prepare", "watch", "select", "inject", "complete", "injected", "wait",
        "revert", "reverted", "start", "join", "resume", "await", "fail", "size",
        "while", "strike", "verify", "targeted", "spawn", "kill"}

\* Type invariant.
TypeOK ==
  /\ setup \in SetupType
  /\ pod \in [Target -> Phases]
  /\ deleted \in [Target -> BOOLEAN]
  /\ exit \in [Target -> Exits]
  /\ todo \in [Target -> Seq(Ops)]
  /\ routine \in [Target -> {"none", "waiting", "reverting", "annotating", "exiting",
                             "select", "starting", "running"}]
  /\ attempts \in [Target -> 0..Attempts]
  /\ misses \in [Target -> 0..Attempts]
  /\ chaos \in [Target -> {"none", "paused", "injected"}]
  /\ annotation \in [Target -> Annotations \union {"none"}]
  /\ lib \in LibStates
  /\ left \subseteq Target /\ batch \subseteq Target
  /\ aborted \in BOOLEAN

Init ==
  /\ HelperInit
  /\ lib = "start" /\ left = Target /\ batch = {} /\ aborted = FALSE

Goto(state) == lib' = state /\ UNCHANGED <<left, batch>>

Present == {x \in batch : pod[x] # "gone"}

----------------------------------------------------------------------------
(* The library *)

\* The targets are chosen and the DuringChaos probes are run.
StartLib ==
  /\ lib = "start"
  /\ Goto("create") \/ Goto("failed")
  /\ UNCHANGED <<podVars, helperVars, targetVars>>

Create(x) ==
  /\ lib = "create" /\ x \in left
  /\ \/ /\ pod' = [pod EXCEPT ![x] = "pending"]
        /\ left' = left \ {x}
        /\ IF setup.sequence = "serial"
           THEN batch' = {x} /\ lib' = "check"
           ELSE batch' = batch \union {x} /\ UNCHANGED lib
     \/ Goto("failed") /\ UNCHANGED pod
  /\ UNCHANGED <<deleted, exit, helperVars, targetVars>>

Created ==
  /\ lib = "create" /\ left = {}
  /\ Goto(IF setup.sequence = "serial" THEN "ok" ELSE "check")
  /\ UNCHANGED <<podVars, helperVars, targetVars>>

\* Mutant: the check of a helper that does not start has no timeout.
CheckHelperStatusForEver ==
  /\ lib = "check"
  /\ \A x \in Present : pod[x] # "pending"
  /\ Goto("wait")
  /\ UNCHANGED <<podVars, helperVars, targetVars>>

\* status.CheckHelperStatus: every helper has started.
CheckHelperStatus ==
  /\ lib = "check"
  /\ \/ /\ \A x \in Present : pod[x] # "pending"
        /\ Goto("wait")
     \/ Goto("cleanup")
  /\ UNCHANGED <<podVars, helperVars, targetVars>>

\* A helper has completed: its pod has, or its container is no longer ready.
Completed(x) == pod[x] \in {"succeeded", "failed"} \/ exit[x] # "none"

Failed == \E x \in Present : pod[x] = "failed"

\* Mutant: the error of a wait that timed out is not looked at.
WaitForCompletionIgnoresTimeout ==
  /\ lib = "wait"
  /\ Goto(IF Failed THEN "cleanup" ELSE "delete")
  /\ UNCHANGED <<podVars, helperVars, targetVars>>

\* Mutant: the phase of a completed helper is not looked at.
WaitForAnyCompletion ==
  /\ lib = "wait"
  /\ \/ /\ \A x \in Present : Completed(x)
        /\ Goto("delete")
     \/ Goto("cleanup")
  /\ UNCHANGED <<podVars, helperVars, targetVars>>

\* status.WaitForCompletion and what is made of its result.
WaitForCompletion ==
  /\ lib = "wait"
  /\ \/ /\ \A x \in Present : Completed(x)
        /\ Goto(IF Failed THEN "cleanup" ELSE "delete")
     \/ Goto("cleanup")
  /\ UNCHANGED <<podVars, helperVars, targetVars>>

Delete(pods) == deleted' = [x \in Target |-> deleted[x] \/ x \in pods]

\* The helper of a serial batch is deleted by its name, others by their label.
NotFound == setup.sequence = "serial" /\ Present = {}

\* common.DeletePod, common.DeleteAllPod: the call.
DeleteHelpers ==
  /\ lib = "delete"
  /\ \/ ~NotFound /\ Delete(Present) /\ Goto("deleting")
     \/ Goto("failed") /\ UNCHANGED deleted
  /\ UNCHANGED <<pod, exit, helperVars, targetVars>>

\* The same: the wait.
HelpersDeleted ==
  /\ lib = "deleting"
  /\ \/ /\ Present = {}
        /\ Goto(IF setup.sequence = "serial" THEN "create" ELSE "ok")
     \/ Goto("failed")
  /\ UNCHANGED <<podVars, helperVars, targetVars>>

\* The name that the library gives to delete a failed helper is the helper's.
\* pod-dns-chaos gives <experiment>-<run id> for <experiment>-helper-<run id>.
DeletesByName == setup.kind # "dns"

\* common.DeleteHelperPodBasedOnJobCleanupPolicy, DeleteAllHelperPodBasedOnJobCleanupPolicy.
Cleanup ==
  /\ lib = "cleanup"
  /\ \/ /\ setup.policy = "delete" /\ ~NotFound
        /\ setup.sequence = "serial" => DeletesByName
        /\ Delete(Present) /\ Goto("cleaning")
     \/ Goto("failed") /\ UNCHANGED deleted
  /\ UNCHANGED <<pod, exit, helperVars, targetVars>>

CleanedUp ==
  /\ lib = "cleaning"
  /\ Goto("failed")
  /\ UNCHANGED <<podVars, helperVars, targetVars>>

Lib ==
  /\ \/ StartLib \/ (\E x \in Target : Create(x)) \/ Created
     \/ CheckHelperStatus \/ WaitForCompletion \/ DeleteHelpers \/ HelpersDeleted
     \/ Cleanup \/ CleanedUp
  /\ UNCHANGED aborted

----------------------------------------------------------------------------
(* The operator aborts the run: it deletes the helpers there are, and the   *)
(* experiment process, which goes on until its abort watcher exits.         *)

Abort ==
  /\ ~aborted
  /\ aborted' = TRUE
  /\ Delete({x \in Target : pod[x] \notin {"none", "gone"}})
  /\ UNCHANGED <<pod, exit, helperVars, targetVars, lib, left, batch>>

LibExits ==
  /\ aborted /\ lib \notin {"ok", "failed", "aborted"}
  /\ Goto("aborted")
  /\ UNCHANGED <<podVars, helperVars, targetVars, aborted>>

Next ==
  /\ \/ Lib \/ Abort \/ LibExits
     \/ \E x \in Target : Helper(x) /\ UNCHANGED libVars
  /\ UNCHANGED setup

Spec == Init /\ [][Next]_vars

(***************************************************************************)
(* A goroutine that can go on does, and the kubelet ends the pods that it  *)
(* is to end.  It need not start one, and no run need be aborted.          *)
(***************************************************************************)
Fairness ==
  /\ WF_vars(Lib /\ UNCHANGED setup)
  /\ \A x \in Target :
       /\ WF_vars(Main(x) /\ UNCHANGED <<setup, libVars>>)
       /\ WF_vars((AbortWatcher(x) \/ Injector(x)) /\ UNCHANGED <<setup, libVars>>)
       /\ WF_vars((SigKill(x) \/ PodGone(x)) /\ UNCHANGED <<setup, libVars>>)

FairSpec == Spec /\ Fairness

----------------------------------------------------------------------------
(* Properties *)

\* The chaos of x stays where it is: it is on another interface than eth0, or each of the
\* three attempts to revert it has failed.
Stuck(x) == (setup.kind = "network" /\ ~setup.eth0) \/ misses[x] = 3

\* "reverted" in the ChaosResult, and a helper that ends well or by its abort watcher,
\* mean that its target has no chaos, wherever the signal comes between the
\* select, the injection and the attempts of the two goroutines to revert it.
\* Except for what ReportedRevertIsReal is about: an interface other than eth0, and
\* three attempts that have all failed.
RevertIsReal ==
  \A x \in Target :
    annotation[x] = "reverted" \/ exit[x] \in {"ok", "aborted"} => chaos[x] = "none" \/ Stuck(x)

\* "retry thrice for the chaos revert", and "reverted" after it: a target that is
\* annotated so has no chaos.
ReportedRevertIsReal ==
  \A x \in Target : annotation[x] = "reverted" => chaos[x] = "none"

\* When the library reports success for a run that nobody aborted, each target's helper
\* has ended well and is deleted, and the result does not say that its target has
\* chaos.  It has none, but for another interface than eth0, and for dns chaos if the
\* interceptor could not be killed three times.  The result may say nothing: a helper
\* that finds no client for the cluster, or a disk that is full already, ends well and
\* has done nothing.  Pods with a sidecar are left out: theirs do not end.
SuccessIsComplete ==
  lib = "ok" /\ ~aborted /\ ~setup.sidecar =>
    \A x \in Target :
      /\ exit[x] = "ok" /\ pod[x] = "gone"
      /\ annotation[x] # "injected"
      /\ chaos[x] = "none" \/ Stuck(x)

\* "serially (one by one)": no two targets have chaos at a time, whatever fails in
\* the helper of the first, unless the chaos of one of them could not be reverted
\* (Stuck) and its helper has ended with 0 nevertheless.
OneByOne ==
  setup.sequence = "serial" /\ ~setup.sidecar =>
    \A x, y \in Target :
      chaos[x] = "injected" /\ chaos[y] = "injected" =>
        \/ x = y
        \/ \E z \in {x, y} : Stuck(z) /\ exit[z] = "ok"

\* A helper that is sent SIGTERM ends, and leaves no chaos unless a call of its
\* own main goroutine fails before the revert is done, or the chaos is Stuck.
AbortReverts ==
  \A x \in Target :
    Up(x) /\ deleted[x] /\ setup.grace ~>
      exit[x] # "none" /\ (chaos[x] = "none" \/ exit[x] = "failed" \/ Stuck(x))

\* The library returns, whatever becomes of its helpers.
LibReturns == <>(lib \in {"ok", "failed", "aborted"})
=============================================================================
