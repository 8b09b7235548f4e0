---------------------------- MODULE ClusterChaos ----------------------------
(***************************************************************************)
(* The chaos libraries that change objects of the cluster, or run commands *)
(* in its pods, from inside the experiment process: node-taint, node-drain,  *)
(* pod-autoscaler, pod-network-partition, powerfulseal's pod-delete, and the *)
(* exec libraries (cpu and memory hog, fio).                               *)
(*                                                                         *)
(* Main and, where there is one, the abort watcher are threads that run a   *)
(* program of operations.  Nodes, deployments and stateful sets are read     *)
(* and written back as a whole, under a resource version, while others edit *)
(* them.  The stress commands end in goroutines that report to main through *)
(* an unbuffered channel.                                                  *)
(***************************************************************************)
EXTENDS Naturals, Sequences

CONSTANTS
  Target,     \* nodes, applications, policies or pods
  Setups,     \* the experiments that may be run
  Steps,      \* attempts of RetryOnConflict
  MaxEdits    \* bound: changes that others make to an object

Watched == {"taint", "drain", "autoscaler", "partition"}
Hog == {"cpuExec", "memoryExec"}
Exec == Hog \union {"fio"}
Kinds == Watched \union Exec \union {"powerfulseal"}
Thread == {"main", "watcher"}

SetupType ==
  [kind : Kinds, sequence : {"serial", "parallel"}, targets : Seq(Target) \ {<<>>}]

ASSUME SetupAssumption == Setups \subseteq SetupType
ASSUME BoundAssumption == Steps \in Nat \ {0} /\ MaxEdits \in Nat

VARIABLES
  setup,      \* the experiment
  object,     \* per target: chaos in place, edits of others, resource version
  copy,       \* what a thread has read of an object
  record,     \* the targets' status in chaosDetails
  lib,        \* where the library, and with it the process, is
  failing,    \* isFailed of pod-autoscaler: main returns an error at the end
  pc,         \* the thread's place in its program
  tries,      \* attempts that the thread has left
  watching,   \* the abort watcher is there
  signal,     \* SIGTERM has come: it is in the channels inject and abort
  signChan,   \* the channel that the loop of an exec library listens to
  stress,     \* the goroutine of a stress command, and what it reports
  edited,     \* history: edits that others have made
  oomed,      \* history: targets whose command ran out of memory
  unanswered, \* history: targets whose chaos was requested, and the answer lost
  excused     \* history: targets that an abort leaves as they are; see LastAttempt, Passed, Undo

objectVars == <<object, copy, edited>>
execVars == <<signChan, stress, oomed>>
history == <<unanswered, excused>>
threadVars == <<lib, pc, tries>>
vars == <<setup, objectVars, record, threadVars, failing, watching, signal, execVars, history>>

Is(kinds) == setup.kind \in kinds
Serial == setup.sequence = "serial"
Targets == {setup.targets[i] : i \in DOMAIN setup.targets}
Versioned == {"taint", "autoscaler"}

----------------------------------------------------------------------------
(* Programs: stages of operations, done once or for each target in turn *)

Once(ops) == [each |-> FALSE, ops |-> ops]
Each(ops) == [each |-> TRUE, ops |-> ops]

\* Mutant: an application is recorded as reverted before it is.
RecoveryMarksFirst == <<Each(<<"get", "unmark", "undo">>), Once(<<"confirm">>)>>

\* The recovery of pod-autoscaler is the same for main and for the watcher.
Recovery == <<Each(<<"get", "undo", "unmark">>), Once(<<"confirm">>)>>

NodeTaint ==
  <<Once(<<"probes", "watch">>), Each(<<"get", "select", "apply", "mark">>),
    Once(<<"check">>), Each(<<"get", "undo", "unmark">>)>>

NodeDrain ==
  <<Once(<<"probes", "watch">>), Each(<<"select", "apply", "evict", "mark">>),
    Once(<<"verify", "check">>), Each(<<"undo", "unmark">>), Once(<<"confirm">>)>>

PodAutoscaler ==
  <<Once(<<"watch">>), Each(<<"get", "apply", "mark">>), Once(<<"scaled", "probes">>)>> \o Recovery

PodNetworkPartition ==
  <<Once(<<"watch", "probes", "select">>), Each(<<"apply", "mark">>), Once(<<"verify">>),
    Each(<<"undo", "confirm", "unmark">>)>>

Powerfulseal == <<Each(<<"apply">>), Once(<<"check">>), Each(<<"undo", "confirm">>)>>

PodCPUHogExec ==
  <<Once(<<"probes", "listen", "select">>)>> \o
  IF Serial THEN <<Each(<<"apply", "mark", "loop", "undo", "unmark">>)>>
  ELSE <<Each(<<"apply", "mark">>), Once(<<"loop">>), Each(<<"undo", "unmark">>)>>

PodMemoryHogExec ==
  <<Once(<<"probes", "listen", "select">>)>> \o
  IF Serial THEN <<Each(<<"apply", "mark", "loop", "undo", "unmark">>)>>
  ELSE <<Each(<<"apply">>), Once(<<"loop">>), Each(<<"undo", "unmark">>)>>

PodFioStress ==
  <<Once(<<"probes">>)>> \o
  IF Serial THEN <<Each(<<"apply", "listen", "loop", "undo">>)>>
  ELSE <<Each(<<"apply">>), Once(<<"listen", "loop">>), Each(<<"undo">>)>>

MainProgram ==
  CASE Is({"taint"})      -> NodeTaint
    [] Is({"drain"})      -> NodeDrain
    [] Is({"autoscaler"}) -> PodAutoscaler
    [] Is({"partition"})  -> PodNetworkPartition
    [] Is({"cpuExec"})    -> PodCPUHogExec
    [] Is({"memoryExec"}) -> PodMemoryHogExec
    [] Is({"fio"})        -> PodFioStress
    [] OTHER              -> Powerfulseal

\* What the abort watcher repeats.
NodeTaintWatcher == <<Each(<<"get", "undo", "unmark">>)>>
NodeDrainWatcher == <<Each(<<"undo", "unmark">>), Once(<<"confirm">>)>>
PodNetworkPartitionWatcher == <<Once(<<"look">>), Each(<<"undo", "confirm", "unmark">>)>>

WatcherProgram ==
  CASE Is({"taint"})      -> NodeTaintWatcher
    [] Is({"drain"})      -> NodeDrainWatcher
    [] Is({"autoscaler"}) -> Recovery
    [] OTHER              -> PodNetworkPartitionWatcher

Program(t) == IF t = "main" THEN MainProgram ELSE WatcherProgram
Stage(t) == Program(t)[pc[t].stage]
Op(t) == Stage(t).ops[pc[t].op]

\* The target in turn; powerfulseal deletes the deployment before the config map.
Item(t) ==
  LET n == Len(setup.targets)
  IN setup.targets[IF Is({"powerfulseal"}) /\ Op(t) \in {"undo", "confirm"} THEN n + 1 - pc[t].at ELSE pc[t].at]

\* Mutant: the loop over the targets goes one too far.
LastTargetMissed(t) == ~Stage(t).each \/ pc[t].at > Len(setup.targets)

LastTarget(t) == ~Stage(t).each \/ pc[t].at = Len(setup.targets)
LastOp(t) == pc[t].op = Len(Stage(t).ops)
AtEnd(t) == LastOp(t) /\ LastTarget(t) /\ pc[t].stage = Len(Program(t))

Exited == lib \in {"stopped", "aborted"}
Reverting == watching /\ signal /\ ~Exited
Running(t) ==
  IF t = "main" THEN lib \in {"running", "aborting"} ELSE Reverting /\ tries["watcher"] > 0

At(t, op) == Running(t) /\ Op(t) = op

----------------------------------------------------------------------------
(* How an operation ends *)

Goto(t, stage, op, at) == pc' = [pc EXCEPT ![t] = [stage |-> stage, op |-> op, at |-> at]]
End(result) == lib' = result /\ UNCHANGED <<pc, tries>>

\* Mutant: an attempt of pod-network-partition that finds a policy counts.
AttemptOverCounts ==
  /\ tries' = [tries EXCEPT !["watcher"] = IF Is({"autoscaler"}) THEN 0 ELSE @ - 1]
  /\ Goto("watcher", 1, 1, 1)
  /\ UNCHANGED lib

\* The watcher's next attempt.  One that has failed is logged, and counts as well; that of
\* pod-autoscaler is the only one, and those of pod-network-partition that find a policy
\* do not count.
AttemptOver ==
  /\ tries' = [tries EXCEPT !["watcher"] =
                 IF Is({"autoscaler"}) THEN 0
                 ELSE IF Is({"partition"}) /\ Op("watcher") # "look" THEN @ ELSE @ - 1]
  /\ Goto("watcher", 1, 1, 1)
  /\ UNCHANGED lib

MainEnds(failed) ==
  End(IF lib = "aborting" THEN "aborted" ELSE IF failed THEN "failed" ELSE "ok")

\* After the last operation.
Finish(t) == IF t = "main" THEN MainEnds(failing) ELSE AttemptOver

\* Mutant: an attempt that has failed is not counted.
ErrorUncounted(t) ==
  IF t = "main" THEN MainEnds(TRUE) ELSE Goto(t, 1, 1, 1) /\ UNCHANGED <<lib, tries>>

\* The operation returns an error.
Error(t) == IF t = "main" THEN MainEnds(TRUE) ELSE AttemptOver

\* It succeeds.  An exec library that is aborted in serial mode has this pod to care for.
Go(t) ==
  IF AtEnd(t) \/ (t = "main" /\ lib = "aborting" /\ Serial /\ LastOp(t)) THEN Finish(t)
  ELSE /\ IF ~LastOp(t) THEN Goto(t, pc[t].stage, pc[t].op + 1, pc[t].at)
          ELSE IF ~LastTarget(t) THEN Goto(t, pc[t].stage, 1, pc[t].at + 1)
          ELSE Goto(t, pc[t].stage + 1, 1, 1)
       /\ tries' = IF t = "main" /\ LastOp(t) /\ LastTarget(t)
                   THEN [tries EXCEPT ![t] = Steps] ELSE tries
       /\ UNCHANGED lib

\* RetryOnConflict goes through the targets again.
Retries(t) == Is({"autoscaler"}) /\ tries[t] > 1
Retry(t) ==
  /\ tries' = [tries EXCEPT ![t] = @ - 1]
  /\ Goto(t, pc[t].stage, 1, 1)
  /\ UNCHANGED lib

\* The targets that an error leaves as they are, if no attempt comes after it.
LastAttempt(t) ==
  IF t = "main" THEN lib = "aborting"
  ELSE Is({"autoscaler"}) \/ (tries[t] = 1 /\ (Is({"partition"}) => Op(t) = "look"))
Rest(t) == {setup.targets[i] : i \in pc[t].at .. Len(setup.targets)}
Excuse(targets) == excused' = excused \union targets /\ UNCHANGED unanswered
ErrorExcused(t) == Error(t) /\ Excuse(IF LastAttempt(t) THEN Rest(t) ELSE {})
GoOrError(t) == (Go(t) /\ UNCHANGED history) \/ ErrorExcused(t)

\* The watcher will not undo what main does to x now: its last attempt has done so, or has
\* read a node without the taint.
Passed(x) ==
  /\ Reverting
  /\ \/ tries["watcher"] = 0
     \/ /\ LastAttempt("watcher") /\ Op("watcher") # "look"
        /\ \/ pc["watcher"].stage > 1
           \/ \E i \in 1 .. pc["watcher"].at :
                /\ setup.targets[i] = x
                /\ i = pc["watcher"].at =>
                     Op("watcher") \in {"unmark"} \union (IF Is({"taint"}) THEN {"undo"} ELSE {})

----------------------------------------------------------------------------
(* Objects *)

Put(x, chaos) ==
  IF object[x].chaos = chaos THEN object
  ELSE [object EXCEPT ![x].chaos = chaos, ![x].version = @ + 1]

\* Others change the object between a read and a write, in fields that the library does not
\* set: it means to overwrite the replicas, and the taints of its own key.
Edit(x) ==
  /\ Is(Versioned) /\ x \in Targets /\ edited[x] < MaxEdits
  /\ object' = [object EXCEPT ![x].edits = @ + 1, ![x].version = @ + 1]
  /\ edited' = [edited EXCEPT ![x] = @ + 1]
  /\ UNCHANGED <<setup, copy, record, threadVars, failing, watching, signal, execVars, history>>

\* An operation op of thread t, and what no operation changes.
Does(t, op) == At(t, op) /\ UNCHANGED <<setup, signal, edited>>
Local(t, op) ==
  Does(t, op) /\ UNCHANGED <<object, copy, record, failing, watching, execVars>>

Get(t) ==
  /\ Does(t, "get")
  /\ \/ copy' = [copy EXCEPT ![t][Item(t)] = object[Item(t)]] /\ Go(t) /\ UNCHANGED history
     \/ UNCHANGED copy /\ ErrorExcused(t)
  /\ UNCHANGED <<object, record, failing, watching, execVars>>

\* Mutant: the update of an object is accepted whatever its version.
AcceptsAlways(t, x) == TRUE

Accepts(t, x) == copy[t][x].version = object[x].version

\* The copy is written back, whole.  node-taint does not write what is there already, and an
\* update that changes nothing leaves the version.
Written(t, x, chaos) ==
  IF copy[t][x].chaos = chaos THEN object
  ELSE [object EXCEPT ![x] = [chaos |-> chaos, edits |-> copy[t][x].edits, version |-> @.version + 1]]

\* What main does to x; the answer may be lost.
Injected(x) == Go("main") /\ Excuse({y \in {x} : Passed(y)})
Unanswered(x) ==
  /\ Error("main")
  /\ unanswered' = unanswered \union {x}
  /\ excused' = excused \union {y \in {x} : Passed(y)}

Succeeds(t, x, chaos) ==
  IF chaos THEN Injected(x) \/ Unanswered(x) ELSE GoOrError(t)

Update(t, x, chaos) ==
  \/ /\ Accepts(t, x) \/ (Is({"taint"}) /\ copy[t][x].chaos = chaos)
     /\ object' = Written(t, x, chaos)
     /\ Succeeds(t, x, chaos)
  \/ /\ ~Accepts(t, x) /\ UNCHANGED object
     /\ IF Retries(t) THEN Retry(t) /\ UNCHANGED history ELSE ErrorExcused(t)
  \/ UNCHANGED object /\ ErrorExcused(t)

\* Objects without a version: cordoned, created, uncordoned, deleted.
Request(t, x, chaos) ==
  \/ object' = Put(x, chaos) /\ Succeeds(t, x, chaos)
  \/ UNCHANGED object /\ ErrorExcused(t)

\* An exec library starts the goroutine of the command.
Apply ==
  /\ Does("main", "apply")
  /\ LET x == Item("main")
     IN IF Is(Exec)
        THEN /\ stress' = [stress EXCEPT ![x] = "starting"]
             /\ Go("main") /\ UNCHANGED <<object, signChan, oomed, history>>
        ELSE /\ IF Is(Versioned) THEN Update("main", x, TRUE) ELSE Request("main", x, TRUE)
             /\ UNCHANGED execVars
  /\ UNCHANGED <<copy, record, failing, watching>>

\* Mutant: the error of the revert is logged.
UndoLogged(t) ==
  /\ Does(t, "undo")
  /\ \E object2 \in {object, Put(Item(t), FALSE)} : object' = object2
  /\ Go(t) /\ UNCHANGED history
  /\ UNCHANGED <<copy, record, failing, watching, execVars>>

\* A policy that is not there is not deleted.  A command that has not started is not killed.
Undo(t) ==
  /\ Does(t, "undo")
  /\ LET x == Item(t)
     IN \/ Is(Versioned) /\ Update(t, x, FALSE)
        \/ /\ ~Is(Versioned) /\ stress[x] # "starting"
           /\ Is({"partition", "powerfulseal"}) => object[x].chaos
           /\ Request(t, x, FALSE)
        \/ /\ Is({"partition"}) /\ ~object[x].chaos
           /\ UNCHANGED object /\ ErrorExcused(t)
        \/ /\ stress[x] = "starting"
           /\ UNCHANGED object
           /\ (Go(t) /\ Excuse({x})) \/ (Error(t) /\ Excuse(IF LastAttempt(t) THEN Rest(t) ELSE {x}))
  /\ UNCHANGED <<copy, record, failing, watching, execVars>>

----------------------------------------------------------------------------
(* The other operations *)

SetTargets(x, status) == record' = [record EXCEPT ![x] = status]

Mark(t) ==
  /\ \/ Does(t, "mark") /\ SetTargets(Item(t), "injected")
     \/ Does(t, "unmark") /\ SetTargets(Item(t), "reverted")
  /\ Go(t)
  /\ UNCHANGED <<object, copy, failing, watching, execVars, history>>

\* The watcher is launched.
Watch ==
  /\ Does("main", "watch")
  /\ watching' = TRUE /\ Go("main")
  /\ UNCHANGED <<object, copy, record, failing, execVars, history>>

\* select { case <-inject: os.Exit(0) }
Select ==
  /\ Local("main", "select")
  /\ (signal /\ End("stopped")) \/ (~signal /\ Go("main"))
  /\ UNCHANGED history

\* Calls that change nothing: the probes, the eviction of the pods, the applications' status.
Call ==
  /\ \E op \in {"probes", "evict", "check"} : Local("main", op)
  /\ GoOrError("main")

\* The chaos is in place.
Verify ==
  /\ Local("main", "verify")
  /\ \/ (\A x \in Targets : object[x].chaos) /\ Go("main")
     \/ Error("main")
  /\ UNCHANGED history

\* The applications have the replicas asked for; if not, isFailed is set and they are scaled back.
Scaled ==
  /\ Does("main", "scaled")
  /\ \/ (\A x \in Targets : object[x].chaos) /\ Go("main") /\ UNCHANGED failing
     \/ /\ failing' = TRUE /\ Goto("main", pc["main"].stage + 1, 1, 1)
        /\ tries' = [tries EXCEPT !["main"] = Steps] /\ UNCHANGED lib
     \/ Error("main") /\ UNCHANGED failing
  /\ UNCHANGED <<object, copy, record, watching, execVars, history>>

\* The poll after the revert: it sees that the chaos is over, or times out.
Confirm(t) ==
  /\ Local(t, "confirm")
  /\ \/ (\A x \in IF Stage(t).each THEN {Item(t)} ELSE Targets : ~object[x].chaos) /\ Go(t)
     \/ Error(t)
  /\ UNCHANGED history

----------------------------------------------------------------------------
(* The goroutines and the loop of the exec libraries *)

Listen ==
  /\ Does("main", "listen")
  /\ signChan' = "empty" /\ Go("main")
  /\ UNCHANGED <<object, copy, record, failing, watching, stress, oomed, history>>

Results == {"nil", "oom", "error"}

\* The exec call starts the command, or fails.
StressStarts(x) ==
  /\ stress[x] = "starting" /\ ~Exited
  /\ \/ stress' = [stress EXCEPT ![x] = "running"] /\ object' = Put(x, TRUE)
     \/ stress' = [stress EXCEPT ![x] = "error"] /\ UNCHANGED object
  /\ UNCHANGED <<setup, copy, edited, record, threadVars, failing, watching, signal, signChan,
                 oomed, history>>

\* The call returns: the command is over, killed or not, with exit code 137 if it ran out of
\* memory or was killed by SIGKILL; or the connection breaks.
StressReturns(x) ==
  /\ stress[x] = "running" /\ ~Exited
  /\ \/ \E result \in Results :
          /\ stress' = [stress EXCEPT ![x] = result]
          /\ object' = Put(x, FALSE)
          /\ oomed' = IF result = "oom" /\ object[x].chaos THEN oomed \union {x} ELSE oomed
     \/ stress' = [stress EXCEPT ![x] = "error"] /\ UNCHANGED <<object, oomed>>
  /\ UNCHANGED <<setup, copy, edited, record, threadVars, failing, watching, signal, signChan,
                 history>>

\* The channels of serial cpu and memory hog are those of one pod; others are shared by all.
Reports(x) ==
  /\ stress[x] \in Results
  /\ Is(Hog) /\ Serial => x = Item("main")

\* case err := <-stressErr
ReceiveResult(x) ==
  /\ Does("main", "loop") /\ lib = "running" /\ Reports(x)
  /\ stress' = [stress EXCEPT ![x] = "received"]
  /\ \/ stress[x] = "nil" /\ UNCHANGED threadVars
     \/ stress[x] = "oom" /\ End("ok")
     \/ stress[x] = "error" /\ End("failed")
  /\ UNCHANGED <<object, copy, record, failing, watching, signChan, oomed, history>>

\* case <-signChan
ReceiveSignal ==
  /\ Does("main", "loop") /\ lib = "running" /\ signChan = "full"
  /\ signChan' = "empty"
  /\ lib' = "aborting"
  /\ Goto("main", IF LastOp("main") THEN pc["main"].stage + 1 ELSE pc["main"].stage,
                  IF LastOp("main") THEN 1 ELSE pc["main"].op + 1, pc["main"].at)
  /\ UNCHANGED <<object, copy, record, failing, watching, stress, oomed, tries, history>>

\* case <-endTime
TimeIsUp ==
  /\ Local("main", "loop")
  /\ Go("main") /\ UNCHANGED history

----------------------------------------------------------------------------
(* The abort watcher *)

Signal ==
  /\ ~signal /\ ~Exited
  /\ signal' = TRUE
  /\ signChan' = IF signChan = "empty" THEN "full" ELSE signChan
  /\ UNCHANGED <<setup, objectVars, record, threadVars, failing, watching, stress, oomed, history>>

\* checkExistanceOfPolicy: an error of the list is taken for no policy.  Only if the last look
\* fails in this way is a policy that is there left.
Look ==
  /\ Local("watcher", "look")
  /\ LET policies == {x \in Targets : object[x].chaos}
     IN \/ policies # {} /\ Go("watcher") /\ UNCHANGED history
        \/ Error("watcher") /\ Excuse(IF LastAttempt("watcher") THEN policies ELSE {})

Exit ==
  /\ Reverting /\ tries["watcher"] = 0
  /\ lib' = "aborted"
  /\ UNCHANGED <<setup, objectVars, record, pc, tries, failing, watching, signal, execVars, history>>

Operation(t) == Get(t) \/ Undo(t) \/ Mark(t) \/ Confirm(t)

Main ==
  \/ Operation("main") \/ Apply \/ Watch \/ Select \/ Call \/ Verify \/ Scaled
  \/ Listen \/ ReceiveSignal \/ TimeIsUp \/ (\E x \in Target : ReceiveResult(x))
Watcher == Operation("watcher") \/ Look \/ Exit
Environment == Signal \/ \E x \in Target : Edit(x) \/ StressStarts(x) \/ StressReturns(x)

----------------------------------------------------------------------------
Init ==
  /\ setup \in Setups
  /\ object = [x \in Target |-> [chaos |-> FALSE, edits |-> 0, version |-> 0]]
  /\ copy = [t \in Thread |-> object]
  /\ record = [x \in Target |-> "none"]
  /\ lib = "running" /\ failing = FALSE
  /\ pc = [t \in Thread |-> [stage |-> 1, op |-> 1, at |-> 1]]
  /\ tries = [main |-> Steps, watcher |-> IF setup.kind = "autoscaler" THEN Steps ELSE 3]
  /\ watching = FALSE /\ signal = FALSE
  /\ signChan = "none" /\ stress = [x \in Target |-> "none"]
  /\ edited = [x \in Target |-> 0] /\ oomed = {} /\ unanswered = {} /\ excused = {}

Next == Main \/ Watcher \/ Environment

Spec == Init /\ [][Next]_vars

(***************************************************************************)
(* Main and the watcher are goroutines of one process, and every call ends. *)
(* Nothing is assumed of how the calls end.                                *)
(***************************************************************************)
Fairness == WF_vars(Main) /\ WF_vars(Watcher)

FairSpec == Spec /\ Fairness

----------------------------------------------------------------------------
(* Properties *)

\* Type invariant.
TypeOK ==
  /\ setup \in Setups
  /\ LET Object == [chaos : BOOLEAN, edits : 0 .. MaxEdits, version : Nat]
     IN object \in [Target -> Object] /\ copy \in [Thread -> [Target -> Object]]
  /\ record \in [Target -> {"none", "injected", "reverted"}]
  /\ lib \in {"running", "aborting", "ok", "failed", "stopped", "aborted"}
  /\ failing \in BOOLEAN /\ watching \in BOOLEAN /\ signal \in BOOLEAN
  /\ \A t \in Thread :
       /\ pc[t].stage \in DOMAIN Program(t) /\ pc[t].op \in DOMAIN Stage(t).ops
       /\ pc[t].at \in DOMAIN setup.targets
       /\ tries[t] \in 0 .. IF Steps > 3 THEN Steps ELSE 3
  /\ signChan \in {"none", "empty", "full"}
  /\ stress \in [Target -> {"none", "starting", "running", "received"} \union Results]
  /\ edited \in [Target -> 0 .. MaxEdits]
  /\ oomed \subseteq Targets /\ unanswered \subseteq Targets /\ excused \subseteq Targets

\* A library that reports success in a run without a signal has taken back all of its chaos:
\* the taint, the cordon, the replicas, the policy, the deployment, the commands in the
\* pods.  Excepted is a command that starts after it was killed, and what is skipped
\* when a command runs out of memory.  Serial fio may take the end of an earlier pod's command
\* for that of the pod in turn, and does not keep this; see BreaksOffForThisPod.
SuccessIsComplete ==
  /\ lib = "ok" /\ ~signal /\ oomed = {}
  /\ ~(Is({"fio"}) /\ Serial /\ Len(setup.targets) > 1)
  => \A x \in Targets \ excused : ~object[x].chaos

\* After an error, the chaos that is left in place is in the result as injected, unless
\* the answer to the request was lost or a command starts after its kill.  drainNode records
\* nothing when the drain fails after the node was cordoned; fio and powerfulseal record
\* nothing at all, nor does the parallel mode of pod-memory-hog-exec.
LeftIsRecorded ==
  /\ lib = "failed" /\ ~signal
  /\ ~Is({"drain", "fio", "powerfulseal"}) /\ ~(Is({"memoryExec"}) /\ ~Serial)
  => \A x \in Targets \ (unanswered \union excused) : object[x].chaos => record[x] = "injected"

\* When the process ends by the abort, no chaos is in place, wherever the signal came in the
\* run of main, except where the last attempt has failed or main was later than it.  The last
\* attempt of pod-network-partition is its third look: it fails if the list does although the
\* policy is there; a deletion that fails is no excuse, the loop goes on.
AbortReverts ==
  lib = "aborted" => \A x \in Targets \ excused : ~object[x].chaos

\* What others change meanwhile in a node or an application, in fields other than those that the
\* library sets, is kept: no update of main or of the watcher writes back an object that is
\* not current.
OthersKept == \A x \in Target : object[x].edits = edited[x]

\* A signal that comes while the abort watcher is there ends the process; in
\* pod-network-partition only if there is no policy left from some time on: see RevertTriedThrice.
AbortEnds ==
  <>[](Is({"partition"}) => \A x \in Target : ~object[x].chaos) => ((signal /\ watching) ~> Exited)

\* The abort watcher of pod-network-partition comes to the end of its attempts: "retry thrice for
\* the chaos revert" (pod-network-partition.go).
RevertTriedThrice == Is({"partition"}) /\ Reverting ~> tries["watcher"] = 0 \/ Exited

\* In serial mode an exec library breaks off for the command of the pod in turn: "skipping
\* the execution, if received any error other than 137, while executing stress command",
\* or an OOM kill of it (pod-fio-stress.go).  Op is the loop at the end if it broke off.
BreaksOffForThisPod ==
  Is(Exec) /\ Serial /\ lib \in {"ok", "failed"} /\ Op("main") = "loop"
  => stress[Item("main")] = "received"
=============================================================================
