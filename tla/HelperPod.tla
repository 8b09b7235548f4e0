----------------------------- MODULE HelperPod -----------------------------
(***************************************************************************)
(* The helper pods of one experiment, one for each target: the programs    *)
(* of chaoslib/litmus/*/helper.  The main goroutine executes the script of *)
(* its kind of chaos.  Beside it runs the abort watcher, or for dns chaos  *)
(* the goroutine that injects.  The pod is deleted by the experiment or by *)
(* the operator; the deletion sends SIGTERM, which the inject and the      *)
(* abort channel each keep until someone receives it.                      *)
(*                                                                         *)
(* A command that is given the chaos takes effect at some step; it may go  *)
(* on after that, and fail (`complete').  Errors of a command or of the    *)
(* API are choices.  A kernel object of the target is one state, chaos.    *)
(***************************************************************************)
EXTENDS Naturals, Sequences

CONSTANTS
  Target,       \* the application pods
  Setups        \* the experiments that may be run

Kinds == {"network", "stress", "diskFill", "dns", "containerKill"}

VARIABLES
  setup,       \* the experiment: kind of chaos, sequence, policy, pods
  pod,         \* the phase of the helper pod
  deleted,     \* the pod was deleted: SIGTERM was sent if it runs
  exit,        \* how the helper ended
  todo,        \* what is left of main's script
  routine,     \* the other goroutine: abort watcher or injector
  attempts,    \* attempts to revert that are left
  misses,      \* history: attempts to revert that had no effect
  chaos,       \* the chaos in the target
  annotation   \* the target's annotation in the ChaosResult

podVars == <<pod, deleted, exit>>
helperVars == <<todo, routine, attempts, misses>>
targetVars == <<chaos, annotation>>

Phases == {"none", "pending", "running", "succeeded", "failed", "gone"}
Exits == {"none", "ok", "failed", "aborted", "killed"}
Annotations == {"injected", "reverted", "targeted"}

----------------------------------------------------------------------------
(* The scripts *)

\* Mutant: the abort watcher is launched after the chaos duration.
NetworkHelperWatchesLate ==
  <<"prepare", "select", "inject", "complete", "injected", "wait", "watch",
    "revert", "reverted">>

NetworkHelper ==
  <<"prepare", "watch", "select", "inject", "complete", "injected", "wait",
    "revert", "reverted">>

StressHelper ==
  <<"select", "prepare", "start", "watch", "join", "resume", "injected", "await">>

DiskFillHelper ==
  <<"prepare", "watch", "size", "select", "inject", "complete", "injected", "wait",
    "revert", "reverted">>

DNSHelper ==
  <<"prepare", "spawn", "injected", "wait", "kill", "reverted">>

ContainerKillHelper == <<"while", "targeted">>

Script(kind) ==
  CASE kind = "network"       -> NetworkHelper
    [] kind = "stress"        -> StressHelper
    [] kind = "diskFill"      -> DiskFillHelper
    [] kind = "dns"           -> DNSHelper
    [] kind = "containerKill" -> ContainerKillHelper

\* `retry := 3' of every abort watcher and of dns chaos.  Mutant: no retry.
OneAttempt == 1
Attempts == 3

HelperInit ==
  /\ setup \in Setups
  /\ pod = [x \in Target |-> "none"]
  /\ deleted = [x \in Target |-> FALSE]
  /\ exit = [x \in Target |-> "none"]
  /\ todo = [x \in Target |-> <<>>]
  /\ routine = [x \in Target |-> "none"]
  /\ attempts = [x \in Target |-> Attempts]
  /\ misses = [x \in Target |-> 0]
  /\ chaos = [x \in Target |-> "none"]
  /\ annotation = [x \in Target |-> "none"]

Up(x) == pod[x] = "running" /\ exit[x] = "none"
At(x, op) == Up(x) /\ todo[x] # <<>> /\ Head(todo[x]) = op

Advance(x) == todo' = [todo EXCEPT ![x] = Tail(@)] /\ UNCHANGED podVars

\* The process ends, and its goroutines.  The pod does if no sidecar runs.
Exit(x, how) ==
  /\ exit' = [exit EXCEPT ![x] = how]
  /\ todo' = [todo EXCEPT ![x] = <<>>]
  /\ routine' = [routine EXCEPT ![x] = "none"]
  /\ pod' = [pod EXCEPT ![x] = CASE setup.sidecar -> "running"
                                 [] how = "ok"    -> "succeeded"
                                 [] OTHER         -> "failed"]
  /\ UNCHANGED <<deleted, attempts, misses>>

Go(x) == Advance(x) /\ UNCHANGED <<routine, attempts, misses>>
GoOrFail(x) == Go(x) \/ Exit(x, "failed")

\* The chaos of x as its revert leaves it.  killnetem deletes the qdisc of eth0, and
\* takes one that does not exist for one already deleted.
RevertChaos(x) ==
  chaos' = IF setup.kind = "network" /\ ~setup.eth0 THEN chaos
           ELSE [chaos EXCEPT ![x] = "none"]

Put(x, c) ==
  /\ chaos' = [chaos EXCEPT ![x] = c]
  /\ UNCHANGED annotation

----------------------------------------------------------------------------
(* The main goroutine *)

\* A step that may fail and that leaves the chaos in the target alone.
MayFail(x, op) == At(x, op) /\ GoOrFail(x) /\ UNCHANGED targetVars

\* The container of the target, its process, its cgroup, its usage are found.
Prepare(x) == MayFail(x, "prepare")

\* The commands after the first that has an effect.
Complete(x) == MayFail(x, "complete")

\* container-kill: the container is stopped.  The kubelet starts it again.
Strike(x) == MayFail(x, "strike")

\* container-kill: its restart is waited for.
Verify(x) == MayFail(x, "verify")

Watch(x) ==
  /\ At(x, "watch")
  /\ routine' = [routine EXCEPT ![x] = "waiting"]
  /\ Advance(x)
  /\ UNCHANGED <<attempts, misses, targetVars>>

\* Nothing is injected if the signal has come.
Select(x) ==
  /\ At(x, "select")
  /\ IF deleted[x] THEN Exit(x, "aborted") ELSE Go(x)
  /\ UNCHANGED targetVars

Inject(x) ==
  /\ At(x, "inject")
  /\ \/ Put(x, "injected") /\ Go(x)
     \/ Exit(x, "failed") /\ UNCHANGED targetVars

Start(x) ==
  /\ At(x, "start")
  /\ \/ Put(x, "paused") /\ Go(x)
     \/ Exit(x, "failed") /\ UNCHANGED targetVars

\* The stressor joins the cgroup of the target, or is killed.
Join(x) ==
  /\ At(x, "join")
  /\ \/ Go(x) /\ UNCHANGED targetVars
     \/ Put(x, "none") /\ Exit(x, "failed")

\* SIGCONT: lost if the stressor has not installed its handler after 0.7 s.
Resume(x) ==
  /\ At(x, "resume")
  /\ \/ chaos[x] = "paused" /\ Put(x, "injected") /\ Go(x)
     \/ chaos[x] = "paused" /\ Go(x) /\ UNCHANGED targetVars
     \/ chaos[x] = "none" /\ GoOrFail(x) /\ UNCHANGED targetVars

Annotate(x) ==
  /\ \E a \in Annotations :
       /\ At(x, a)
       /\ \/ Go(x) /\ annotation' = [annotation EXCEPT ![x] = a]
          \/ Exit(x, "failed") /\ UNCHANGED annotation
  /\ UNCHANGED chaos

\* The chaos duration; dns chaos receives the signal here.
Wait(x) ==
  /\ At(x, "wait")
  /\ Go(x)
  /\ UNCHANGED targetVars

Revert(x) ==
  /\ At(x, "revert")
  /\ \/ RevertChaos(x) /\ Go(x)
     \/ Exit(x, "failed") /\ UNCHANGED chaos
  /\ UNCHANGED annotation

Continue(x, script) ==
  /\ todo' = [todo EXCEPT ![x] = script]
  /\ UNCHANGED <<podVars, routine, attempts, misses>>

\* The stressor has run 30 s too long, or has ended, well or not.
Await(x) ==
  /\ At(x, "await")
  /\ \/ Put(x, "none") /\ Continue(x, <<"reverted", "fail">>)
     \/ /\ chaos[x] = "none"
        /\ Continue(x, <<"reverted">>) \/ Exit(x, "failed")
        /\ UNCHANGED targetVars

Fail(x) ==
  /\ At(x, "fail")
  /\ Exit(x, "failed")
  /\ UNCHANGED targetVars

\* disk-fill: nothing is filled if the target uses more than its share.
Size(x) ==
  /\ At(x, "size")
  /\ Go(x) \/ Continue(x, <<>>)
  /\ UNCHANGED targetVars

\* container-kill: until the chaos duration is over.
While(x) ==
  /\ At(x, "while")
  /\ Go(x) \/ Continue(x, <<"prepare", "strike", "verify">> \o todo[x])
  /\ UNCHANGED targetVars

Spawn(x) ==
  /\ At(x, "spawn")
  /\ routine' = [routine EXCEPT ![x] = "select"]
  /\ Advance(x)
  /\ UNCHANGED <<attempts, misses, targetVars>>

\* A command that injects chaos has been decided on and has not taken effect.
InFlight(x) ==
  \/ At(x, "inject")
  \/ routine[x] = "starting"
  \/ routine[x] = "select" /\ ~deleted[x]

\* An attempt to revert has no effect: it fails, or it comes before the chaos.
Miss(x) ==
  /\ InFlight(x) \/ chaos[x] # "none"
  /\ misses' = [misses EXCEPT ![x] = @ + 1]
  /\ UNCHANGED chaos

\* dns chaos: kill the interceptor if it was started, up to three times.
KillInterceptor(x) ==
  /\ At(x, "kill")
  /\ \/ /\ routine[x] = "running"
        /\ RevertChaos(x) /\ Advance(x)
        /\ UNCHANGED <<attempts, misses>>
     \/ /\ \/ Miss(x)
           \/ ~InFlight(x) /\ chaos[x] = "none" /\ UNCHANGED <<chaos, misses>>
        /\ attempts' = [attempts EXCEPT ![x] = @ - 1]
        /\ IF attempts[x] = 1 THEN Advance(x) ELSE UNCHANGED <<podVars, todo>>
  /\ UNCHANGED <<routine, annotation>>

Finish(x) ==
  /\ Up(x) /\ todo[x] = <<>>
  /\ Exit(x, "ok")
  /\ UNCHANGED targetVars

Main(x) ==
  \/ Prepare(x) \/ Watch(x) \/ Select(x) \/ Inject(x) \/ Complete(x) \/ Annotate(x)
  \/ Wait(x) \/ Revert(x) \/ Finish(x)
  \/ Start(x) \/ Join(x) \/ Resume(x) \/ Await(x) \/ Fail(x)    \* stress
  \/ Size(x)                                                    \* disk-fill
  \/ Spawn(x) \/ KillInterceptor(x)                             \* dns
  \/ While(x) \/ Strike(x) \/ Verify(x)                         \* container-kill

----------------------------------------------------------------------------
(* The abort watcher, and the injector of dns chaos *)

Routine(x, r) == routine' = [routine EXCEPT ![x] = r] /\ UNCHANGED <<podVars, todo>>

Receive(x) ==
  /\ Up(x) /\ routine[x] = "waiting" /\ deleted[x]
  /\ Routine(x, "reverting")
  /\ UNCHANGED <<attempts, misses, targetVars>>

\* Mutant: the loop counts down past its end.
AttemptOnceMore(x) ==
  /\ Up(x) /\ routine[x] = "reverting"
  /\ ~InFlight(x) /\ RevertChaos(x) /\ UNCHANGED misses
  /\ attempts' = [attempts EXCEPT ![x] = @ - 1]
  /\ Routine(x, IF attempts[x] = 0 THEN "annotating" ELSE "reverting")
  /\ UNCHANGED annotation

Attempt(x) ==
  /\ Up(x) /\ routine[x] = "reverting"
  /\ \/ Miss(x)
     \/ ~InFlight(x) /\ RevertChaos(x) /\ UNCHANGED misses
  /\ attempts' = [attempts EXCEPT ![x] = @ - 1]
  /\ Routine(x, IF attempts[x] = 1 THEN "annotating" ELSE "reverting")
  /\ UNCHANGED annotation

AnnotateReverted(x) ==
  /\ Up(x) /\ routine[x] = "annotating"
  /\ annotation' \in {annotation, [annotation EXCEPT ![x] = "reverted"]}
  /\ Routine(x, "exiting")
  /\ UNCHANGED <<attempts, misses, chaos>>

ExitAborted(x) ==
  /\ Up(x) /\ routine[x] = "exiting"
  /\ Exit(x, "aborted")
  /\ UNCHANGED targetVars

AbortWatcher(x) == Receive(x) \/ Attempt(x) \/ AnnotateReverted(x) \/ ExitAborted(x)

SelectInjector(x) ==
  /\ Up(x) /\ routine[x] = "select"
  /\ Routine(x, IF deleted[x] THEN "none" ELSE "starting")
  /\ UNCHANGED <<attempts, misses, targetVars>>

StartInterceptor(x) ==
  /\ Up(x) /\ routine[x] = "starting"
  /\ \/ Put(x, "injected") /\ Routine(x, "running") /\ UNCHANGED <<attempts, misses>>
     \/ Exit(x, "failed") /\ UNCHANGED targetVars

\* The interceptor has ended, by itself or killed; log.Fatalf if it was not well.
InterceptorEnded(x) ==
  /\ Up(x) /\ routine[x] = "running" /\ chaos[x] = "none"
  /\ \/ Routine(x, "none") /\ UNCHANGED <<attempts, misses>>
     \/ Exit(x, "failed")
  /\ UNCHANGED targetVars

Injector(x) == SelectInjector(x) \/ StartInterceptor(x) \/ InterceptorEnded(x)

----------------------------------------------------------------------------
(* Around the helper *)

\* Main of bin/helper: without a client for the cluster it returns, and exits with 0.
PodStarts(x) ==
  /\ pod[x] = "pending" /\ ~deleted[x]
  /\ pod' = [pod EXCEPT ![x] = "running"]
  /\ \E script \in {Script(setup.kind), <<>>} : todo' = [todo EXCEPT ![x] = script]
  /\ UNCHANGED <<deleted, exit, routine, attempts, misses, targetVars>>

\* The stressor and the interceptor have the chaos duration as their timeout.
ChaosExpires(x) ==
  /\ setup.kind \in {"stress", "dns"} /\ chaos[x] = "injected"
  /\ Put(x, "none")
  /\ UNCHANGED <<podVars, helperVars>>

\* Nobody receives the signal: container-kill handles none, and a helper that
\* waits has no other goroutine that does.
Unattended(x) ==
  \/ setup.kind = "containerKill"
  \/ setup.kind # "dns" /\ routine[x] = "none" /\ (At(x, "wait") \/ At(x, "await"))

\* The kubelet kills a helper that does not end in its grace period, which is
\* TERMINATION_GRACE_PERIOD_SECONDS and 0 if that is not set.
SigKill(x) ==
  /\ Up(x) /\ deleted[x]
  /\ Unattended(x) \/ ~setup.grace
  /\ Exit(x, "killed")
  /\ UNCHANGED targetVars

PodGone(x) ==
  /\ deleted[x]
  /\ pod[x] = "pending" \/ exit[x] # "none"
  /\ pod[x] # "gone"
  /\ pod' = [pod EXCEPT ![x] = "gone"]
  /\ UNCHANGED <<deleted, exit, helperVars, targetVars>>

Helper(x) ==
  \/ Main(x) \/ AbortWatcher(x) \/ Injector(x)
  \/ PodStarts(x) \/ ChaosExpires(x) \/ SigKill(x) \/ PodGone(x)
=============================================================================
