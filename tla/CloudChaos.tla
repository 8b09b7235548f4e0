----------------------------- MODULE CloudChaos -----------------------------
(***************************************************************************)
(* The chaos libraries that take resources of a cloud provider down and    *)
(* bring them back from inside the experiment process: instances (ec2, azure, *)
(* gcp, vmware), disks (ebs, azure, gcp), and commands of AWS SSM.          *)
(*                                                                         *)
(* Main works through the targets in rounds, one after the other or all at *)
(* once.  The abort watcher is a goroutine that brings every target back   *)
(* and exits, while main goes on.  The provider answers a request before   *)
(* it has carried it out, and both goroutines poll for the result with a   *)
(* timeout.  A poll is one step: it sees what it waits for, or times out.  *)
(***************************************************************************)
EXTENDS Naturals

CONSTANTS
  Target,     \* instances, disks or volumes
  Setups      \* the experiments that may be run

Instances == {"ec2Id", "ec2Tag", "gcpVM", "vmware", "azureVM"}
Disks == {"ebs", "gcpDisk", "azureDisk"}
Kinds == Instances \union Disks \union {"ssm"}

SetupType ==
  [kind : Kinds, sequence : {"serial", "parallel"},
   managed : BOOLEAN,           \* managed node group, auto scaling group
   targets : SUBSET Target]     \* those that the experiment has selected

ASSUME SetupAssumption == Setups \subseteq SetupType

VARIABLES
  setup,      \* the experiment
  resource,   \* the provider's resources; of ssm: up if no command runs
  record,     \* the targets' status in chaosDetails; of ssm: "injected" if the
              \* id of the command is in CommandIDs
  lib,        \* where the library is
  chosen,     \* the targets that the library works on
  step,       \* main's next operation on each of them in this round
  signal,     \* SIGTERM has come: it is in both channels
  watcher,    \* where the abort watcher is
  revert,     \* its next operation on each target
  unanswered, \* history: targets whose stop was requested, and the answer lost
  excused     \* history: targets that the watcher cannot restore; see Excuse

mainVars == <<lib, chosen, step>>
watcherVars == <<watcher, revert>>
history == <<unanswered, excused>>
vars == <<setup, resource, record, mainVars, signal, watcherVars, history>>

Is(kinds) == setup.kind \in kinds
Serial == setup.sequence = "serial"

States == {"up", "stopping", "down", "starting"}
Ops == {"details", "stop", "mark", "initiated", "down", "early", "markDown", "hold",
        "status", "start", "up", "unmark", "done"}
LibStates == {"ramp", "select", "running", "ok", "failed", "stopped", "aborted", "panic"}
RevertOps == {"check", "down", "start", "up", "mark", "done"}

----------------------------------------------------------------------------
(* A round *)

FirstOp == IF Is({"ebs"}) THEN "details" ELSE "stop"

\* Mutant: a target is recorded once it is down.
RoundMarksLate(op) ==
  CASE op = "details"            -> "stop"
    [] op = "stop"               -> "down"
    [] op = "down"               -> "markDown"
    [] op = "markDown"           -> "hold"
    [] op \in {"hold", "status"} -> "start"
    [] op = "start"              -> "up"
    [] op = "up"                 -> "unmark"
    [] OTHER                     -> "done"

\* The operation after op on the same target.  What most libraries have in common: stopped,
\* recorded, seen down, left so for the chaos interval, started, seen up, recorded.
Round(op) ==
  CASE op = "details"                          -> "stop"
    [] op = "stop"                             -> "mark"
    [] op \in {"mark", "initiated"}            -> "down"
    [] op \in {"down", "early", "markDown"}    -> "hold"
    [] op \in {"hold", "status"}               -> "start"
    [] op = "start"                            -> "up"
    [] op = "up"                               -> "unmark"
    [] OTHER                                   -> "done"

EC2TerminateByID(op) == IF op = "down" /\ ~Serial THEN "early" ELSE Round(op)
EC2TerminateByTag(op) == Round(op)
VMInstanceStop(op) == Round(op)
VMPoweroff(op) == Round(op)
VMDiskLoss(op) == IF op = "hold" THEN "status" ELSE Round(op)

EBSLoss(op) ==
  CASE op = "mark" /\ ~Serial -> "initiated"
    [] op = "hold"            -> "status"
    [] OTHER                  -> Round(op)

AzureInstanceStop(op) ==
  CASE op = "stop" -> "down"
    [] op = "up"   -> "done"
    [] OTHER       -> Round(op)

AzureDiskLoss(op) ==
  CASE op = "stop" -> "down"
    [] op = "down" -> "markDown"
    [] OTHER       -> Round(op)

AWSSSMChaos(op) ==
  CASE op = "hold" -> "up"
    [] op = "up"   -> "done"
    [] OTHER       -> Round(op)

\* The provider replaces instances that it manages: they are not started.
Follow(op) ==
  IF setup.managed /\ op = "hold" THEN "unmark"
  ELSE CASE Is({"ec2Id"})     -> EC2TerminateByID(op)
         [] Is({"ec2Tag"})    -> EC2TerminateByTag(op)
         [] Is({"gcpVM"})     -> VMInstanceStop(op)
         [] Is({"gcpDisk"})   -> VMDiskLoss(op)
         [] Is({"ebs"})       -> EBSLoss(op)
         [] Is({"azureVM"})   -> AzureInstanceStop(op)
         [] Is({"azureDisk"}) -> AzureDiskLoss(op)
         [] Is({"ssm"})       -> AWSSSMChaos(op)
         [] OTHER             -> VMPoweroff(op)

Rank(op) ==
  CASE op = "details" -> 1 [] op = "stop"      -> 2  [] op = "mark"     -> 3
    [] op = "initiated" -> 4 [] op = "down"    -> 5  [] op = "early"    -> 6
    [] op = "markDown" -> 7 [] op = "hold"     -> 8  [] op = "status"   -> 9
    [] op = "start"   -> 10 [] op = "up"       -> 11 [] op = "unmark"   -> 12
    [] OTHER          -> 13

\* Operations that the parallel mode does in one loop over the targets.
Loops ==
  {{"stop", "mark"}, {"down", "early"}}
    \union (IF Is({"ebs", "gcpDisk"}) THEN {{"status", "start", "up", "unmark"}} ELSE {})

SameLoop(a, b) ==
  \/ Serial /\ a # "done" /\ b # "done"
  \/ a = b
  \/ \E loop \in Loops : a \in loop /\ b \in loop

\* A loop starts with op: no operation of the same loop is before it.
Entry(op) ==
  IF Serial THEN op = FirstOp ELSE op \notin {"mark", "early"} /\
     (Is({"ebs", "gcpDisk"}) => op \notin {"start", "up", "unmark"})

\* What parallel mode does once for all targets; ssm sends one command to all instances.
Together(op) ==
  ~Serial /\ op \in {"hold", "initiated"} \union (IF Is({"ssm"}) THEN {"stop", "mark"} ELSE {})

\* The targets that the operation on x is for.
Batch(x) == IF Together(step[x]) THEN {y \in chosen : step[y] = step[x]} ELSE {x}

\* Mutant: the loops are not one after the other.
TurnOfAnyone(x) == TRUE

\* Main may turn to x: every other target waits for this loop or has left it.
Turn(x) ==
  \A y \in chosen \ Batch(x) :
    IF SameLoop(step[x], step[y]) THEN Entry(step[y])
    ELSE Rank(step[x]) < Rank(step[y])

At(x, op) == lib = "running" /\ x \in chosen /\ step[x] = op /\ Turn(x)

Go(x) ==
  /\ step' = [y \in Target |-> IF y \in Batch(x) THEN Follow(step[y]) ELSE step[y]]
  /\ UNCHANGED <<lib, chosen>>
Fail == lib' = "failed" /\ UNCHANGED <<chosen, step>>
GoOrFail(x) == Go(x) \/ Fail

----------------------------------------------------------------------------
(* The provider *)

\* The resources after a request to stop some, or to start one.
Stopped(targets) ==
  [y \in Target |-> IF y \in targets /\ resource[y] \in {"up", "starting"}
                    THEN "stopping" ELSE resource[y]]
Started(x) == [resource EXCEPT ![x] = IF @ = "down" THEN "starting" ELSE @]

\* What a poll takes for down and for up.  An ebs volume may have been attached again by
\* its persistent volume, and a disk of gcp has users until it is detached.
ReadsDown(x) ==
  resource[x] \in {"down"} \union (IF Is({"ebs"}) THEN {"up"} ELSE {})
                          \union (IF Is({"gcpDisk"}) THEN {"starting"} ELSE {})
ReadsUp(x) ==
  resource[x] \in {"up"} \union (IF Is({"gcpDisk"}) THEN {"stopping"} ELSE {})

Provider ==
  /\ \E x \in Target :
       \/ resource[x] = "stopping" /\ resource' = [resource EXCEPT ![x] = "down"]
       \/ resource[x] = "starting" /\ resource' = [resource EXCEPT ![x] = "up"]
       \/ /\ Is({"ebs", "ssm"}) /\ resource[x] = "down"    \* attached again; command over
          /\ resource' = [resource EXCEPT ![x] = "up"]
  /\ UNCHANGED <<setup, record, mainVars, signal, watcherVars, history>>

----------------------------------------------------------------------------
(* Main *)

\* The watcher will not undo what is done to x now.
Passed(x) == watcher = "reverting" /\ revert[x] # "check"
Excuse(targets) == excused' = excused \union targets

\* An operation on x that leaves the resource alone.
Local(x, op) == At(x, op) /\ UNCHANGED <<resource, history>>

\* The ramp, and what is looked up before the chaos.  GetInstanceNameForDisks returns
\* the disks found so far, and no error, when it cannot get one.
Ramp ==
  /\ lib = "ramp"
  /\ \/ /\ lib' = "select"
        /\ chosen' \in IF Is({"azureDisk"}) THEN SUBSET setup.targets ELSE {setup.targets}
        /\ step' = [x \in Target |-> IF x \in chosen' THEN FirstOp ELSE "done"]
        /\ watcher' = IF Is(Disks) THEN "none" ELSE "waiting"
     \/ Fail /\ UNCHANGED watcher
  /\ UNCHANGED <<resource, record, revert, history>>

\* select { case <-inject: os.Exit(0) }; the disk libraries launch their watcher after it.
Select ==
  /\ lib = "select"
  /\ lib' = IF signal THEN "stopped" ELSE "running"
  /\ watcher' = IF Is(Disks) /\ ~signal THEN "waiting" ELSE watcher
  /\ UNCHANGED <<resource, record, chosen, step, revert, history>>

\* GetVolumeAttachmentDetails takes the first of the attachments, which may not exist.
Details(x) ==
  /\ Local(x, "details")
  /\ IF resource[x] = "down"
     THEN lib' = "panic" /\ UNCHANGED <<chosen, step>>
     ELSE GoOrFail(x)
  /\ UNCHANGED record

\* The request is carried out and answered, its answer is lost, or it is refused.
Stop(x) ==
  /\ At(x, "stop")
  /\ record' = [y \in Target |-> IF Is({"ssm"}) /\ y \in Batch(x) THEN "none" ELSE record[y]]
  /\ \/ /\ resource' = Stopped(Batch(x)) /\ Excuse({y \in Batch(x) : Passed(y)})
        /\ \/ Go(x) /\ UNCHANGED unanswered
           \/ Fail /\ unanswered' = unanswered \union Batch(x)
     \/ Fail /\ UNCHANGED <<resource, history>>

SetTargets(targets, status) ==
  record' = [y \in Target |-> IF y \in targets THEN status ELSE record[y]]

Mark(x) ==
  /\ Local(x, "mark") \/ Local(x, "markDown")
  /\ SetTargets(Batch(x), "injected") /\ Go(x)

\* The parallel mode of ec2-terminate-by-id, once the instance is down.
MarkEarly(x) ==
  /\ Local(x, "early")
  /\ SetTargets({x}, "reverted") /\ Go(x)

\* CheckEBSDetachmentInitialisation
Initiated(x) ==
  /\ Local(x, "initiated")
  /\ \/ (\A y \in chosen : resource[y] # "up") /\ Go(x)
     \/ Fail
  /\ UNCHANGED record

WaitDown(x) ==
  /\ Local(x, "down")
  /\ (ReadsDown(x) /\ Go(x)) \/ Fail
  /\ UNCHANGED record

\* In serial mode the probes are run at the first target, or the first of an azure instance.
RunsProbes(x) ==
  Serial => Is({"azureDisk"}) \/ \A y \in chosen \ {x} : step[y] # "done"

\* The probes during chaos and the chaos interval.
Hold(x) ==
  /\ Local(x, "hold")
  /\ Go(x) \/ (RunsProbes(x) /\ Fail)
  /\ UNCHANGED record

Status(x) ==
  /\ Local(x, "status")
  /\ \/ /\ step' = [step EXCEPT ![x] = IF ReadsUp(x) THEN "unmark" ELSE "start"]
        /\ UNCHANGED <<lib, chosen>>
     \/ Fail
  /\ UNCHANGED record

Start(x) ==
  /\ At(x, "start")
  /\ \/ resource[x] # "stopping" /\ resource' = Started(x) /\ Go(x)
     \/ resource' = Started(x) /\ Fail
     \/ UNCHANGED resource /\ Fail
  /\ UNCHANGED <<record, history>>

\* Mutant: the error of the wait is not looked at.
WaitUpIgnoresTimeout(x) ==
  /\ Local(x, "up")
  /\ Go(x)
  /\ UNCHANGED record

WaitUp(x) ==
  /\ Local(x, "up")
  /\ (ReadsUp(x) /\ Go(x)) \/ Fail
  /\ UNCHANGED record

Unmark(x) ==
  /\ Local(x, "unmark")
  /\ SetTargets({x}, "reverted") /\ Go(x)

\* Mutant: a round goes through all targets there are.
RoundOverAll ==
  /\ lib = "running" /\ \A x \in chosen : step[x] = "done"
  /\ step' = [x \in Target |-> FirstOp]
  /\ UNCHANGED <<lib, resource, record, chosen, history>>

\* for duration < ChaosDuration
RoundOver ==
  /\ lib = "running" /\ \A x \in chosen : step[x] = "done"
  /\ \/ /\ step' = [x \in Target |-> IF x \in chosen THEN FirstOp ELSE "done"]
        /\ UNCHANGED lib
     \/ lib' = "ok" /\ UNCHANGED step
  /\ UNCHANGED <<resource, record, chosen, history>>

Operation(x) ==
  \/ Details(x) \/ Stop(x) \/ Mark(x) \/ Initiated(x) \/ WaitDown(x) \/ MarkEarly(x)
  \/ Hold(x) \/ Status(x) \/ Start(x) \/ WaitUp(x) \/ Unmark(x)

Main ==
  /\ \/ Ramp
     \/ Select
     \/ /\ RoundOver \/ \E x \in Target : Operation(x)
        /\ UNCHANGED watcher
  /\ UNCHANGED <<setup, signal, revert>>

----------------------------------------------------------------------------
(* The abort watcher *)

Exited == lib \in {"stopped", "aborted", "panic"}

Signal ==
  /\ ~signal /\ ~Exited
  /\ signal' = TRUE
  /\ UNCHANGED <<setup, resource, record, mainVars, watcherVars, history>>

\* ssm cancels the commands in CommandIDs: one that was sent may not be there yet.
Receive ==
  /\ watcher = "waiting" /\ signal
  /\ watcher' = "reverting"
  /\ revert' = [x \in Target |->
                  IF x \in chosen /\ (Is({"ssm"}) => record[x] = "injected")
                  THEN "check" ELSE "done"]
  /\ excused' = IF Is({"ssm"}) THEN excused \union {x \in chosen : record[x] = "none"}
                ELSE excused
  /\ UNCHANGED <<resource, record, lib>>

\* The watcher turns to x: it takes one target after the other.
Reverts(x, op) ==
  /\ watcher = "reverting" /\ x \in chosen /\ revert[x] = op
  /\ \A y \in chosen \ {x} : revert[y] \in {"check", "done"}
  /\ UNCHANGED watcher

Then(x, op) == revert' = [revert EXCEPT ![x] = op]

\* The volume that the watcher of ebs asks about, EBSVolumeID, is x: it is the only one.
Named(x) == chosen = {x}

\* Mutant: an instance that is not running is started at once.
CheckDoesNotWait(x) ==
  /\ Reverts(x, "check")
  /\ Then(x, IF resource[x] = "up" THEN "mark" ELSE "start")
  /\ UNCHANGED <<resource, record, lib, excused>>

\* The state of x is read; an error is logged.
CheckInstance(x) ==
  /\ Is(Instances) /\ Reverts(x, "check")
  /\ \/ Then(x, IF setup.managed THEN "mark"
                ELSE IF Is({"azureVM"})
                     THEN IF resource[x] \in {"up", "starting"} THEN "up" ELSE "down"
                ELSE IF resource[x] = "up" THEN "mark" ELSE "down")
     \/ ~setup.managed /\ Then(x, "down")
  /\ UNCHANGED <<resource, record, lib, excused>>

\* The watcher of azure-disk-loss waits until the provisioning of the instance is over.
CheckAzureDisk(x) ==
  /\ Is({"azureDisk"}) /\ Reverts(x, "check")
  /\ Then(x, IF resource[x] = "up" THEN "done" ELSE "start") \/ Then(x, "start")
  /\ IF resource[x] = "stopping" THEN Excuse({x}) ELSE UNCHANGED excused    \* timed out
  /\ UNCHANGED <<resource, record, lib>>

CheckGCPDisk(x) ==
  /\ Is({"gcpDisk"}) /\ Reverts(x, "check")
  /\ Then(x, IF ReadsUp(x) THEN "mark" ELSE "down") \/ Then(x, "down")
  /\ UNCHANGED <<resource, record, lib, excused>>

\* A volume without attachment ends the process.  Calls that name no volume fail.
CheckEBS(x) ==
  /\ Is({"ebs"}) /\ Reverts(x, "check")
  /\ \/ /\ resource[x] = "down"
        /\ lib' = "panic" /\ UNCHANGED revert
     \/ /\ Then(x, IF ~Named(x) \/ resource[x] = "up" THEN "mark" ELSE "down")
        /\ UNCHANGED lib
  /\ UNCHANGED <<resource, record, excused>>

CancelCommand(x) ==
  /\ Is({"ssm"}) /\ Reverts(x, "check")
  /\ \/ resource' = [resource EXCEPT ![x] = "up"] /\ UNCHANGED excused
     \/ UNCHANGED resource /\ Excuse({x})
  /\ Then(x, "done")
  /\ UNCHANGED <<record, lib>>

\* Mutant: the wait has no timeout.
RevertWaitDownForEver(x) ==
  /\ Reverts(x, "down")
  /\ ReadsDown(x) /\ Then(x, "start")
  /\ UNCHANGED <<resource, record, lib, excused>>

\* The error of a wait that timed out is logged.
RevertWaitDown(x) ==
  /\ Reverts(x, "down")
  /\ Then(x, "start")
  /\ IF resource[x] = "stopping" THEN Excuse({x}) ELSE UNCHANGED excused
  /\ UNCHANGED <<resource, record, lib>>

\* An instance or a disk that is stopping is not started.
RevertStart(x) ==
  /\ Reverts(x, "start")
  /\ \/ /\ resource[x] # "stopping"
        /\ resource' = Started(x)
        /\ Then(x, IF Is({"azureVM"}) THEN "up" ELSE "mark")
        /\ UNCHANGED excused
     \/ /\ UNCHANGED resource
        /\ Then(x, IF Is({"azureVM"}) THEN "up" ELSE IF Is({"azureDisk"}) THEN "done" ELSE "mark")
        /\ IF resource[x] = "down" THEN Excuse({x}) ELSE UNCHANGED excused
  /\ UNCHANGED <<record, lib>>

RevertWaitUp(x) ==
  /\ Reverts(x, "up")
  /\ Then(x, "done")
  /\ UNCHANGED <<resource, record, lib, excused>>

RevertMark(x) ==
  /\ Reverts(x, "mark")
  /\ SetTargets({x}, "reverted") /\ Then(x, "done")
  /\ UNCHANGED <<resource, lib, excused>>

Exit ==
  /\ watcher = "reverting" /\ \A x \in chosen : revert[x] = "done"
  /\ lib' = "aborted"
  /\ UNCHANGED <<resource, record, watcherVars, excused>>

Watcher ==
  /\ ~Exited
  /\ \/ Receive \/ Exit
     \/ \E x \in Target :
          \/ CheckInstance(x) \/ CheckAzureDisk(x) \/ CheckGCPDisk(x) \/ CheckEBS(x)
          \/ CancelCommand(x) \/ RevertWaitDown(x) \/ RevertStart(x) \/ RevertWaitUp(x)
          \/ RevertMark(x)
  /\ UNCHANGED <<setup, chosen, step, signal, unanswered>>

----------------------------------------------------------------------------
Init ==
  /\ setup \in Setups
  /\ resource = [x \in Target |-> "up"]
  /\ record = [x \in Target |-> "none"]
  /\ lib = "ramp" /\ chosen = {} /\ step = [x \in Target |-> "done"]
  /\ signal = FALSE
  /\ watcher = "none" /\ revert = [x \in Target |-> "done"]
  /\ unanswered = {} /\ excused = {}

Next == (~Exited /\ Main) \/ Watcher \/ Signal \/ Provider

Spec == Init /\ [][Next]_vars

(***************************************************************************)
(* Main and the abort watcher are goroutines of one process: each goes on, *)
(* for every call and every poll has a timeout.  Nothing is assumed of the *)
(* provider, nor of the signal.                                            *)
(***************************************************************************)
Fairness == WF_vars(~Exited /\ Main) /\ WF_vars(Watcher)

FairSpec == Spec /\ Fairness

----------------------------------------------------------------------------
(* Properties *)

\* Type invariant.
TypeOK ==
  /\ setup \in Setups
  /\ resource \in [Target -> States]
  /\ record \in [Target -> {"none", "injected", "reverted"}]
  /\ lib \in LibStates
  /\ chosen \subseteq setup.targets
  /\ step \in [Target -> Ops] /\ \A x \in Target : step[x] # "done" => x \in chosen
  /\ signal \in BOOLEAN
  /\ watcher \in {"none", "waiting", "reverting"}
  /\ revert \in [Target -> RevertOps]
  /\ unanswered \subseteq setup.targets /\ excused \subseteq setup.targets

\* A library that reports success, in a run without a signal, has brought back every
\* resource it took down, however often, and its result does not say that one is down.
SuccessIsComplete ==
  lib = "ok" /\ ~signal =>
    \A x \in Target :
      /\ resource[x] = "up" \/ setup.managed
      /\ record[x] = "injected" => setup.kind = "ssm"

\* The serial mode takes a target down when the one before is up again, also if a
\* call fails between the two.
OneByOne ==
  Serial /\ ~setup.managed /\ ~signal =>
    \A x, y \in Target : resource[x] # "up" /\ resource[y] # "up" => x = y

\* After an error, whatever the library has left down is in the result as injected,
\* unless the answer to the request was lost.  azure-instance-stop records
\* nothing, and azure-disk-loss only what was seen detached.  The parallel mode of
\* ec2-terminate-by-id records its instances as reverted while they are down.
LeftDownIsRecorded ==
  /\ lib = "failed" /\ ~signal /\ ~setup.managed
  /\ ~Is({"azureVM", "azureDisk", "ssm"}) /\ ~(Is({"ec2Id"}) /\ ~Serial)
  => \A x \in Target \ unanswered : resource[x] # "up" => record[x] = "injected"

\* When the abort watcher exits the process, every target is up or starting, wherever the
\* signal came, except where the watcher's own request failed or its wait timed out, where main
\* took the target down after the watcher had turned to it, and, of ssm, where the command
\* was not yet in CommandIDs.  The watchers of ebs-loss and gcp-vm-disk-loss do not keep this, and
\* those of managed groups start nothing.
AbortReverts ==
  lib = "aborted" /\ ~setup.managed /\ ~Is({"ebs", "gcpDisk"}) =>
    \A x \in chosen \ excused : resource[x] \in {"up", "starting"}

\* A signal that comes while the watcher runs ends the process, whatever the provider does.
AbortEnds == (signal /\ watcher # "none") ~> Exited
=============================================================================
