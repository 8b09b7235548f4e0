# A verification project for litmus-go

litmus-go holds the chaos experiments of LitmusChaos: one Go binary that runs one experiment
against a Kubernetes application, a node or a cloud resource, judges it with *probes*, and
stores the outcome in a `ChaosResult` custom resource. A second binary runs in helper pods that
inject the chaos next to a target. This directory holds TLA+ models of that program, the TLC
configurations that check them, and proofs for TLAPS. Paths below are relative to the
repository.

## 1. Inventory

| component | state it keeps | operations | hard behaviour |
|---|---|---|---|
| dispatcher `bin/experiment` | none | `main`: one function per experiment name | the process may end anywhere |
| experiment scripts `experiments/*` | `resultDetails`, `eventsDetails`, `chaosDetails`, local to one function but shared by pointer with its goroutines | read probes, result at start, events, checks, probes, chaos, verdict, result at end | partial failure at each step, a signal handled by another goroutine on the same records |
| result details `pkg/types` | verdict, phase, fail step, probe details, passed-probe count | `SetResultAttributes`, `SetResultAfterCompletion`, `Set*EventAttributes` | written by several goroutines without a lock |
| probe engine `pkg/probe` | per probe: phase, status, recorded error, run id; the package variable `err`; the probe pod; the score | `RunProbes` in the phases PreChaos, DuringChaos, PostChaos; goroutines for the modes Continuous and OnChaos | goroutines share `err`; the post-chaos phase has two loops; errors are recorded for later |
| chaos result `pkg/result` | the `ChaosResult` resource: version, phase, verdict, score, history, annotations, targets, probe status | `ChaosResult` (SOT, EOT), `RecordAfterFailure`, `AnnotateChaosResult` (helpers) | optimistic concurrency of the API server, lost answers, retries with a stale copy, two writers in one process, writers in other pods |
| events `pkg/events` | Event objects | create or update one event | an error is ignored |
| abort watcher `pkg/utils/common` | the signal channel | `AbortWatcher`, `AbortWatcherWithoutExit` | races with the main goroutine; exits in the middle of its work |
| retry `pkg/utils/retry` | attempt count, deadline | `Try`, `TryWithTimeout` | timeout 0, an early stop that never triggers |
| status checks `pkg/status` | none between calls | pods, containers, nodes, auxiliary applications become ready in time | empty lists, lists kept over retries |
| target selection `pkg/utils/common/pods.go`, `nodes.go`, `pkg/math` | none | pods by label, name and percentage; nodes | empty lists, rounding |
| comparator `pkg/probe/comparator` | none | integer, float and string criteria | parsing, boundary values |
| chaos libraries with helper pods | a set of targets, in serial or parallel | create helpers, wait, delete | a helper that never starts or never ends |
| cloud libraries `ec2-*`, `ebs-loss`, `aws-ssm-chaos`, `azure-*`, `gcp-*`, `vm-poweroff` | targets, their status in the result, the channels `inject` and `abort` | stop, wait, start, wait, in rounds; an abort watcher in the same process | main goes on while the watcher reverts; a request is answered before it is carried out; a step fails halfway through the targets |
| cluster libraries `node-taint`, `node-drain`, `pod-autoscaler`, `pod-network-partition`, `powerfulseal` | as above; a copy of the object that is changed | taint, cordon, scale, create; and back | stale copies and conflicts; errors after the injection; two goroutines on one object |
| exec libraries `pod-cpu-hog-exec`, `pod-memory-hog-exec`, `pod-fio-stress` | channels of errors and signals | start commands in pods, wait, kill | a command that reports late, or starts after its kill |
| helper pods `chaoslib/*/helper`, `bin/helper` | one target: chaos injected or not; annotation in the ChaosResult | inject, annotate, wait, revert | a signal during the injection; an annotation that fails |
| cloud providers `pkg/cloud`, `pkg/baremetal` | external | stop, start, detach, attach, wait for a state | asynchronous state changes |
| kafka, cassandra | external liveness pods | liveness and cluster checks | as status checks |
| environments, types, clients, logging, generator, build | none | | |

How they interact: the script calls `RunProbes` in the pre-chaos phase, the chaos library (which
calls it in the phase DuringChaos) and `RunProbes` again; it calls `ChaosResult` at the start and
at the end. Both work on the same `resultDetails`. Probe goroutines outlive the call that
launched them and write to the same records. The abort watcher, once a signal has come, marks
them Stopped and calls `ChaosResult` itself, at the same time as main. Helper pods annotate the
`ChaosResult` from outside; `PatchChaosResult` takes their annotations over into the list of
targets and deletes them.

What makes each component right:

- *Probe engine*: a verdict is that of the evaluation it is about; a probe that should stop the
  experiment stops it before the chaos; every probe is judged when all phases returned; a
  recorded failure is not lost; probe pods are deleted; the score is a share of the probes;
  every call returns.
- *Chaos result*: an update that is accepted was made from the current version, so no write is
  lost; a run is counted once; every reported target is published.
- *Scripts*: a stored Pass was earned; each undisturbed run closes its result, exactly once; the
  summary event says what the result says; an aborted run is no Pass; the process ends.
- *Helpers and chaos libraries*: what was injected is reverted, also after an error or a signal;
  what is annotated was injected.
- *Cloud and cluster libraries*: a success, and an abort from any moment, leave no chaos behind; what
  an error leaves behind is in the result; serial is serial; what others change in fields that the
  library does not set is kept.
- *Retry, status, selection, comparator*: success only if a last attempt succeeded; agreement
  with a plain definition on small inputs.

The hazards, each at its line, are listed in `PROJECT.json` with the properties that cover them.

## 2. Modules

| module | models | state |
|---|---|---|
| `ResultDetails` | `pkg/types`, the verdict helpers of `pkg/probe/probe.go` | `verdict`, `phase`, `probeDetails`, `passedProbeCount` and the probes of the engine |
| `Probe` | `pkg/probe`: `RunProbes`, its handlers by type and mode, the polling goroutines, the probe pod | `err` (the package variable), `run` (the activation of RunProbes in main), `poller`, `probePod`, `engineState`; history: `lastEval`, `wrote`, `raced` |
| `RunLedger` | *abstract*: what the history and the target list of a ChaosResult promise | `ledger`, `pending`, `published` |
| `ChaosResult` | `pkg/result` and the API server around the resource | `cr`, `crProbes`, `call` (the activation in each thread), `targets` |
| `ExperimentScripts` | the 39 functions of `experiments/*`, as data | none |
| `Experiment` | one process: main, the abort watcher, the probe goroutines, chaos; composes the others | the above, and `todo`, `busy`, `process`, `watcher`, `signal`, `chaos`, `eventsDetails`, `published` |
| `HelperPod` | the helper pods of one experiment: `chaoslib/litmus/*/helper` of network, stress, dns chaos, disk-fill and container-kill, `bin/helper`, and the kubelet around them | `pod`, `deleted`, `exit`, `todo` (main's script), `routine` (the other goroutine), `attempts`, `chaos`, `annotation`; history: `misses` |
| `HelperChaos` | the libraries that create the helpers, wait for them and delete them, serially or in parallel; extends `HelperPod` | the above, and `lib`, `left`, `batch`, `aborted` |
| `CloudChaos` | the nine libraries of `chaoslib/litmus` that take cloud resources down, their abort watchers, and what they use of `pkg/cloud` | `resource` (the provider's), `record` (chaosDetails.Targets), `lib`, `chosen`, `step` (main's next operation on each target), `signal`, `watcher`, `revert`; history: `unanswered`, `excused` |
| `ClusterChaos` | node-taint, node-drain, pod-autoscaler, pod-network-partition, powerfulseal, and the exec libraries with `pkg/utils/exec` | `object`, `copy` (what a thread has read), `record`, `lib`, `failing`, `pc` and `tries` (per thread), `watching`, `signal`, `signChan`, `stress` (the goroutines of the commands); history: `edited`, `oomed`, `unanswered`, `excused` |
| `ProbeProofs`, `ChaosResultProofs`, `HelperChaosProofs`, `CloudChaosProofs` | theorems about the modules of these names | |
| `ClusterChaosProofs`, `ClusterChaosRevertProofs` | theorems about `ClusterChaos`: its types and the edits of others; the revert of its chaos | |
| `ExperimentProofs`, `ExperimentRunProofs` | theorems about `Experiment`: its types and scripts; what is counted and told of a run without a signal, and which verdicts of probes make a pass | |
| `MCProbe`, `MCChaosResult`, `MCExperiment`, `MCHelperChaos`, `MCCloudChaos`, `MCClusterChaos` | the instances that are model-checked | |

**Probe.** A step is one thing another goroutine can tell apart: an evaluation stored in `err`, a
load of `err`, a verdict marked, a pod created or deleted. The evaluation itself (running a
command, an HTTP request, a Kubernetes or Prometheus query) is external and may pass, fail or
break. A handler per type and phase (`PreChaosCmdProbe`, ...) has the code's differences: which
modes act, which error is returned, whether the shared or an own error is used. `raced` is a
history variable: a goroutine has loaded from `err` what another stored after it.

**ChaosResult.** The API server gives each write a new resource version and refuses an update
with an old one. `Get`, `Create` and `Update` may fail in all their retries; the answer to an
update may be lost, after which the retry meets a version it does not know.
`PatchChaosResult` is cut where it reads shared state: the resource is read anew for
annotations (`GetChaosStatus`), the copy is filled (`FillResult`), the switch reads phase and
verdict again (`ScoreResult`), the copy is sent (`UpdateResult`). The client is the most general
one: any thread calls at any time, probes are judged and verdicts set at any time, and the
process restarts at any time; what it implies holds for all experiments.

**Experiment.** A script is a sequence of operations, each with what follows its failure (go on,
return, record the failure, ...). Each of the 39 experiment functions was transcribed by its
sequence of calls; the few shapes they share are operators (`PodScript`, `NodeScript`,
`Script`). Both goroutines execute scripts, over the actions of `Probe` and `ChaosResult`
taken through INSTANCE; the abort watcher's script is its body after the signal. The chaos
library is one operation: chaos starts, the DuringChaos probes run, it ends or fails, and, for
the libraries with abort watchers of their own, the process may exit while it runs.

**HelperPod, HelperChaos.** A helper's main goroutine is a script, one per kind of chaos, of
steps that another goroutine, the kubelet or the target can tell apart. The signal is in both
channels of the code (`inject`, `abort`) from the deletion of the pod on, so one flag is
enough: `Select` looks at the first, `Receive` takes from the second. The abort watcher makes
three attempts, annotates and exits in steps of its own, between any two steps of main. dns chaos
has it the other way round: main reverts and a goroutine injects, and that goroutine ends
the process if the interceptor ends badly. stress-ng and the interceptor also end by
themselves; SIGCONT to a stressor that is not ready is lost. A command or the API may fail at
every step. The library is that of network chaos; the other four are the same but for one
name, `DeletesByName`. Polls are one step: what is waited for, or the end of the time. The operator
deletes the helpers there are at any moment, after which the library goes on until its process
exits: a helper created in between is not deleted by anyone.

**CloudChaos.** Each library is the table of what follows an operation on a target (`EC2TerminateByID`,
..., over the common `Round`); the modes are the order in which main may turn to the targets
(`Turn`): serial mode finishes one before the next, parallel mode finishes one loop over the
targets before the next loop. A request has three outcomes: carried out and answered, carried out
with the answer lost, refused. The resource goes from `stopping` to `down`, and from `starting` to
`up`, when the provider likes; a volume may be attached again by its persistent volume, a command may end. A poll
is one step that sees what it waits for or times out. The watcher's steps interleave with main's;
it reads, waits and starts in separate steps, and its errors are only logged. What differs between
watchers is what they look at first: `CheckInstance`, `CheckAzureDisk`, `CheckGCPDisk`, `CheckEBS`,
`CancelCommand`. In the disk libraries it is launched after the ramp, so a signal before that is
only seen by `Select`. `record` says "injected" where azure-disk-loss says "detached".

**ClusterChaos.** Main and the watcher run programs: stages of named operations, done once or for
each target in turn. `Go` is what follows success, `Error` failure: main returns, the watcher logs
and tries again, as often as its loop counts (three attempts; one for the autoscaler, whose
conflicts are retried inside by `RetryOnConflict`; in pod-network-partition only attempts that find
no policy, or cannot list them, count). Nodes, deployments and stateful sets have a version and edits of others;
cordons, policies and powerfulseal's objects are requests that are carried out or not. kubectl drain
is two operations, `apply` (the cordon) and `evict`. In the exec libraries a command is a goroutine
(`StressStarts`, `StressReturns`, `Reports`) that blocks on an unbuffered channel; the commands of the
CPU cores of one pod are one command.

**RunLedger.** `ChaosResult` implements it with `ledger <- cr.runs`, `pending <- cr.ann`,
`published <- cr.targets`: whatever reads and writes are interleaved, every change of the
resource adds at most one run, and drops no report of a helper that it does not publish.

## 3. Runs

| run | result | what it shows |
|---|---|---|
| `probes` | pass | `VerdictsAreRight`, `PreChaosGate`, `EveryProbeJudged`, `NoPodLeftRunning`, `ScoreBound`, `FailureIsReported`, `RunProbesReturns` |
| `chaos_result` | pass | `SnapshotsAreCurrent`, `ImplementsLedger` |
| `experiments` | pass | `PassIsEarned`, `RunIsClosed`, `SummaryMatchesResult`, `ExperimentEnds` |
| `helpers` | pass | `RevertIsReal`, `SuccessIsComplete`, `OneByOne`, `AbortReverts`, `LibReturns` |
| `cloud` | pass | `SuccessIsComplete`, `OneByOne`, `LeftDownIsRecorded`, `AbortReverts`, `AbortEnds` |
| `cluster` | pass | `SuccessIsComplete`, `LeftIsRecorded`, `AbortReverts`, `OthersKept`, `AbortEnds` |
| `error_is_shared` | violation | a goroutine overwrites `err` between evaluation and verdict |
| `retry_with_stale_result` | violation | after a conflict no retry of an update can succeed |
| `abort_overwritten` | violation | an aborted run is stored as Pass |
| `helper_other_interface` | violation | network chaos on another interface than eth0 is annotated as reverted and stays |
| `partition_abort_for_ever` | violation | the abort of pod-network-partition never comes to the end of its three attempts while deletions fail |
| `fio_hears_the_last_pod` | violation | the serial mode of pod-fio-stress breaks off for the killed command of an earlier pod |

Each passing run also has its type invariant. Six findings are in `PROJECT.json`, one for each
violation run. The passing properties are stated around them: those of `Probe` hold while
nothing has `raced` (and `error_is_shared` shows the premise is needed), `ScoreBound` is the
bound that is true of the score (a background probe is executed, and counted, by both post-chaos loops, and
again by its goroutine if it stops the experiment, so that the score may pass 100), and the properties of `Experiment` exclude a signal where
`abort_overwritten` shows that main and the watcher overwrite each other. Those of
`HelperChaos` except a target that is *stuck*: its chaos is on an interface other than eth0, which no revert
touches, or each of the three attempts to revert it has failed, or came before the injection. The code annotates
such a target as reverted: `ReportedRevertIsReal` is `RevertIsReal` without the exception, and false of both. The run
`helper_other_interface` shows the first; with `Setups <- NetworkOnly` in its cfg TLC shows the second (the
injection, the signal, three failures, "reverted"). `OneByOne` and `SuccessIsComplete` exclude a sidecar in the
helper pod: with one, the pod of a failed helper is still Running, and `WaitForCompletion` takes it
for completed, so that the next target is taken on while the first has chaos. `SuccessIsComplete` does not
promise an injection: a helper without a client for the cluster exits with 0. `AbortReverts` excepts
a helper whose own main goroutine fails while the watcher is at work, since that ends the
process.

azure-instance-stop only logs the errors of its first and last operations, and may pass without
the probes it could not read, or report a result that it could not store: `PassIsEarned` and
`SummaryMatchesResult` leave it out (`lenient`), and would be violated by it.

What the properties of `CloudChaos` and `ClusterChaos` leave out is what the code does not do, each named at the
property:

- `excused` holds the targets that an abort cannot restore, because the watcher's last request
  or wait for them failed, or because main took them down after the watcher had turned to them
  for the last time. `AbortReverts` says that there are no others. In pod-network-partition the last attempt is the
  third look for a policy, which fails if the list does although the policy is there; the deletion
  may fail as often as it will, the loop goes on. That it goes on without bound, against the comment "retry
  thrice", is `partition_abort_for_ever`; `AbortEnds` has the premise that from some time on there is no policy. For ssm it includes a command that was
  sent and whose id was not yet recorded. `ebs-loss` and `gcp-vm-disk-loss` break it otherwise: the
  watcher of the first asks for `EBSVolumeID`, which names the volume only if there is one, and that of the
  second takes a disk that is being detached for attached.
- `LeftDownIsRecorded` and `LeftIsRecorded` leave out libraries that do not record at all
  (azure-instance-stop, fio, powerfulseal, the parallel mode of the memory hog), record later
  (azure-disk-loss), record "reverted" for what is down (the parallel mode of ec2-terminate-by-id), or return
  between the change and the record (node-drain, when the drain fails after the cordon).
- `SuccessIsComplete` of the exec libraries leaves out a command that starts after its kill, since
  nothing waits for its start, and the targets that are skipped after an OOM kill.
- Success promises that nothing is left down, not that every target was taken down:
  `GetInstanceNameForDisks` returns what it has when it cannot get a disk, without an error.

### Bounds

- `probes`: thirteen lists of one or two probes, which mix foreground and background modes,
  all four types, inline and source, `stopOnFailure` and the OnChaos timer that is already
  over. Two probes are what a race on `err`, a double count and an early return past another
  probe need; a list with a background probe makes the goroutines interleave with main in all
  three phases. Polls are not counted: a goroutine is in one of finitely many states.
- `chaos_result`: two threads (main and the abort watcher), two targets, at most one probe,
  `MaxRV = 3` writes of the resource, `MaxPassed = 1`. Three writes let a copy be overtaken and
  then overtaken again. Threads are interchangeable in this module (symmetry). The VIEW drops
  the fields of the resource that no step reads and no property looks at but the type invariant.
  The retries of a call are one step, "in all its retries": how many there were
  is not visible to others.
- `experiments`: all scripts without probes; seven shapes with one probe; a signal for the two kinds of watcher; no result or a completed one of an
  earlier run. `Target = {}`, since targets do not touch the rest of the state and are covered
  by `chaos_result`. `MaxRV = 6` is above the number of writes that the calls of one process
  can make (two by main, two by the watcher, one repeated after a lost answer), so it never
  stops a run; `MaxPassed` is not used there.

- `helpers`: two targets, which is what "one by one" and a batch need. All five kinds serially;
  container-kill in parallel, since helpers do not touch each other and the library treats
  a batch of any kind alike; a sidecar with policy retain; a grace period of 0. The other kinds in parallel
  (`ParallelSetups`, 1.5 million states up to the symmetry of the targets) are too many for the liveness
  properties; the invariants hold of them as well, and are proved of every setup. Each of the three attempts to revert may
  have no effect, because the command fails or because the injection has been decided on and is not there
  yet; three are the code's bound (`Attempts`), and `misses` counts them.

- `cloud`: two resources, which is what an order, a batch and a watcher that is busy with another
  target need; all nine libraries in both modes, instances in a managed group, and a list of one volume. Rounds
  are not bounded: the state has no counter, so every number of them is covered.
- `cluster`: one node or policy, two applications, two pods, a config map and a deployment;
  `MaxEdits = 1` edit of each object by others, enough to overtake a copy of either thread, and `Steps = 2` attempts of
  `RetryOnConflict` (the code has five), enough for a retry that succeeds and one that does
  not. Nodes are assumed not to have the taint or the cordon before the run: the revert would remove those
  too.

`CHECK_DEADLOCK FALSE` in all passing runs but `chaos_result`: the process ends. `chaos_result` has none,
its client goes on for ever.

### Fairness

- `Probe!FairSpec`: weak fairness of main's steps. The Go scheduler runs a runnable goroutine,
  and each external call has a timeout. Goroutines that poll get none: `RunProbes` must return
  whether they run or not.
- `Experiment!FairSpec`: weak fairness of main and of the abort watcher, for the same
  reason. Signals are not fair: none need come.

- `HelperChaos!FairSpec`: weak fairness of the library, of each goroutine of a helper, and of
  the kubelet where it ends a pod. Nothing is assumed of a pod that has yet to start, of the
  operator, or of the chaos ending by itself. That an unset
  `TERMINATION_GRACE_PERIOD_SECONDS` is a grace period of 0 excludes `AbortReverts`: its premise is
  that the period is long enough for the watcher.

- `CloudChaos!FairSpec`: weak fairness of main and of the watcher, goroutines of one process whose
  calls and polls all have timeouts. None of the provider: the watcher ends whatever it does.
- `ClusterChaos!FairSpec`: the same. Nothing is assumed of how a call ends: the watcher of
  pod-network-partition repeats until it finds no policy, and need not end. Others' edits, commands and signals are
  not fair.

## 4. Proofs

`ChaosResultProofs` proves for every set of threads, targets and statuses, all probe lists and all
bounds (assumptions: those that `ChaosResult` and `ResultDetails` name):

- `TypeCorrect`: `Spec => []TypeOK`.
- `Invariance`: `Spec => []Inv`. `SnapshotsAreCurrent` is not inductive by itself: it says nothing of
  a copy that is already old, of how one can become current again, nor of the reports that a
  filled copy has cleared. `Inv` adds that every copy carries a version that was given
  (`VersionsKnown`: a version is never given twice, so an old copy stays old), that an update
  has an existing resource as its base (`PatchesWhatExists`), that a filled copy has no status
  annotation left (`FilledIsCleared`), and that a resource that does not exist has no runs,
  reports or targets (`BlankUntilCreated`).
- `SnapshotsCorrect`: `Spec => []SnapshotsAreCurrent`.
- `Refinement`: `Spec => ImplementsLedger`. Creation and annotation map to `Publish` and `Report`;
  the interesting step is `UpdateResult`, whose guard makes the copy current, so that
  `SnapshotsAreCurrent` says what it holds. Every other step is a stutter.

`ProbeProofs` proves for every list of probes (`ProbeListsAssumption`):

- `Invariance`: `Spec => []IInv`. The properties speak of the end of a phase or of a verdict that has
  been given; what makes them true is how far main has come. `IInv` says where main can be and with which probe
  (`ControlOK`), which goroutines it has launched by then (`PollerOK`), that the verdict it is about to mark
  is of the last evaluation (`EvaluationOK`), which verdicts are given behind it (`VerdictsGiven`),
  which pods may still run (`ForegroundPods`, `BackgroundPods`), and counts the probes whose verdict may have
  been scored (`ScoreOK`). The parts about verdicts and pods take `err` for what main last stored in it, which
  is so as long as nothing has `raced`; hence the premise of the properties.
- `TypeCorrect`, `VerdictsRight`, `PreChaosGated`, `AllJudged`, `NoPodLeft`, `ScoreBounded`: the invariants of
  the run `probes`.
- `RecordedInvariance`: a second invariant on top of the first, for the action property: a failure that a goroutine
  has recorded before PostChaos stays recorded until main asks for it (`RecordedOK`).
  `RecordedIsReported`: `Spec => FailureIsReported`.

`HelperChaosProofs` proves for every set of targets and all setups (`SetupAssumption`):

- `Invariance`: `Spec => []IInv`. `RevertIsReal` is not inductive: an annotation is written after the
  revert, by either of two goroutines, and the pod may be deleted, killed or restarted in between. `IInv`
  says of each helper what may be left of its script (`Suffixes`), how that fits its pod, its other
  goroutine and the attempts that are left (`PodOK`, `RoutineOK`, `AttemptsOK`), where there is no chaos yet
  (`ChaosOK`), and from where on there is none and none can come (`SettledOK`): after the first
  attempt that was not a miss, or if all three were misses, the target is stuck. Of the library it says what has become of the helpers of earlier batches (`BatchOK`, `SerialOK`,
  `ParallelOK`).
- `TypeCorrect`, `RevertReal`, `SuccessComplete`, `OneAtATime`: the four invariants of the run `helpers`, with
  no assumption on the interface or on how many attempts work: the properties themselves except the targets that are
  `Stuck`.

`CloudChaosProofs` proves for every set of targets, all experiments (`SetupAssumption`) and so any number of
targets and rounds:

- `Invariance`: `Spec => []IInv`. None of the properties is inductive: they speak of the resources and
  the record, and hold because of where main is. `IInv` adds `Fits` (the state of every
  resource is one that main's next operation on it allows), `Recorded` and `LeftOK` (a target is
  recorded as injected from its stop to the end of its round), both until an error or a signal, and
  `StepsOK` (one target at a time is past the first operation in serial mode; the loops of
  parallel mode are apart; operations that a library does not have). `FollowTable` lists what follows
  each operation in the nine libraries, so that the proof of a step does not split on them.
- `TypeCorrect`, `SuccessComplete`, `OneDownAtATime`, `LeftDownRecorded`: the type invariant and the three
  safety properties without a signal.
- `AbortInvariance` and `AbortReverted`: `Spec => []AbortReverts`. The invariant has both threads in it: a target that the
  watcher has behind it is up, on its way up or excused, whatever main goes on to do with it. The property, and with it the
  theorem, leaves out ebs-loss, gcp-vm-disk-loss, managed groups and the excused targets (section 3).

`ClusterChaosProofs` proves for every set of targets, experiments and bounds (`SetupAssumption`,
`BoundAssumption`):

- `Invariance`: `Spec => []IInv`, where `IInv` adds to `OthersKept` that a copy is never newer than its object,
  and that a copy of the same version has the object's edits (`CopiesOK`). An update that is
  accepted writes back such a copy, and every change of an object gives it a new version.
- `OthersAreKept`: `Spec => []OthersKept`, of the fields that the library does not set (`Edit`): replicas, and taints of
  its own key, are overwritten by design.
- `TypeCorrect`: `Spec => []TypeOK`. The programs differ by library, and a type is only kept if both threads
  are at an operation of theirs: `Placed` and `WatcherPlaced` are tables of the stages and
  operations at which one can be, `PcOK` and `PartsOK` bind the targets, the attempts and the parts of the state to them.

`ClusterChaosRevertProofs` goes on from there:

- `LibInvariance`: `Spec => []LibIInv`. `SuccessIsComplete` and `LeftIsRecorded` hold because main still has
  the undo before it for everything live (`ToUndo`), has marked it (`Marked`), and has no live target between the undo
  and the record of it (`Undone`). node-taint removes the taint only if its copy has one, so that copies must agree with
  their objects as long as main is alone (`CopiesSame`, `CopyFresh`). An OOM kill ends the stress for a reason that
  main must have had (`OomOK`). `PassedOK` is the watcher's part: what it has passed in its last
  attempt is not live, or is excused.
- `SuccessComplete`, `LeftRecorded`, `AbortReverted`: the three safety properties.

`ExperimentProofs` proves for any of the scripts, any probes of the chaosengine and any results of
earlier runs (`CasesAssumption`, `OldResultsAssumption`, `ProbeListsAssumption`):

- `TypeInvariance`: `Spec => []TypeIInv`. The types of the composition are not inductive without the scripts: an
  operation with an argument or a handler that it does not take would lead out of them, and so would
  probes that are read while `RunProbes` is at work. `TypeIInv` adds what a thread may have left: its operations
  are planned ones, each of the ranked ones comes at most once and in their order (`Ordered`), whatever
  is left has the last ChaosResult after it (`FollowedUp`), the watcher has only its own operations; and where
  `RunProbes` may stand (`RunOK`). `MainScript` gives this of all 39 scripts, by the way they are
  composed rather than by listing them; `ErrorGoesOn` and `ErrorFails` give it of what `OnError` leaves.
- `TypeCorrect`: `Spec => []TypeOK`.

`ExperimentRunProofs` goes on to the runs that no signal disturbs, in which main alone calls `ChaosResult`:

- `AloneInvariance`: `Spec => []AloneOK`. `SummaryMatchesResult` is not inductive: an event tells the verdict of details
  that were set steps earlier, and the history is written in the middle of a call. `AloneOK` binds to main's place
  in the script (`HeadRank`, and what is `Left`) its copy of the result (`CopyOK`: current, but for the update whose
  answer was lost), the verdict (`VerdictOK`: awaited until main gives it, then a pass; "Fail" once
  `SetResultAfterCompletion` of a failed experiment has run, or once the last ChaosResult has found a failed probe), the history (`CountOK`: not yet written, or once, under the
  verdict of a completed result) and the details and events (`EventsOK`).
- `SummaryMatches`: `Spec => []SummaryMatchesResult`.
- `CountedOnce`: what `PassIsEarned` and `RunIsClosed` say apart from the statuses of the probes, without their
  premise on `err`: a pass is counted only of chaos that was injected to its end and with no failed check, and a
  result that ChaosResult(EOT) has stored is completed and counted once.
- `EarnedInvariance`: `Spec => []EarnedOK`. The statuses need an invariant of their own, with that premise: the
  history is written after the last phase of the probes is over, and what was checked in it must hold until
  then. `EarnedOK` follows the verdicts from the loop to the history. Within a phase, main has settled the
  probes that it has behind it, unless it carries an error along, and goroutines mark background probes alone (`LoopOK`);
  a phase belongs to its place in the script, and one that returned without an error has settled every probe that it
  judges (`PhaseOK`); what is behind main, and was not failed, stays settled (`BehindOK`); the score then
  has to do with probes that are all judged, so that a pass that no failed probe overrules means that all have passed,
  and what it sends has no status awaited, since a failed verdict ends the wait for the others (`FinalOK`).
  The lemmas say it step by step: no step takes a verdict back (`Advances`), each of the probe engine's
  steps keeps the loop (`ExecuteLoop`), each of a goroutine leaves foreground probes alone (`PollerSettles`).
- `PassEarned`, `RunClosed`: `Spec => []PassIsEarned` and `Spec => []RunIsClosed`.

Each of these invariants was an invariant of a TLC run before it was proved; for `ClusterChaos` also with targets that are
given twice, which the experiments allow.

Every invariant of a passing run is proved, and so are the action property `FailureIsReported` and the refinement
`ImplementsLedger`. Model-checked only: liveness (`RunProbesReturns`, `ExperimentEnds`, `LibReturns`, `AbortEnds`, and
`AbortReverts` of `HelperChaos`), which is outside of what the prover does.

## 5. Not modelled

Event text, counts and timestamps; labels and instance ids of a result; the comparators, the
policies of `pkg/utils/retry`, the status loops and the selection of targets, which are sequential and which a
unit test reaches (a check passes or fails, a selection is a choice); `pod-delete`,
`kafka-broker-pod-failure` and `pumba`, which delete or kill and have nothing to revert; the helpers
on nodes (cpu, memory and io hog, service kills, restart), which end by themselves;
`redfish-node-restart`, one request; the specifications of helper pods; the SDKs; environment parsing; a
fatal runtime error (concurrent map writes), which ends the process at any step. A killed process is covered where a
restart matters (`ChaosResult!NewProcess`) and needs no action where it does not: safety holds
in every state the process may stop in.

The cloud and cluster modules model the library inside its process by itself: in `Experiment` the
library call is one step that succeeds, fails or exits, which is what they say of it (`lib`).

## 6. Plan

1. `ResultDetails`, `Probe`, `ChaosResult`, `RunLedger`, `ExperimentScripts`, `Experiment`: done.
2. `HelperPod`, `HelperChaos`, `CloudChaos`, `ClusterChaos`: done.
3. Left to model: the helpers on nodes, with the name under which a failed one is deleted; an abstract
   specification of one target (injected, then reverted) that `HelperPod`, `CloudChaos` and
   `ClusterChaos` implement.
4. Proofs: every invariant of the passing runs is a theorem. Left is liveness, which the prover does not do, and the
   refinement of item 3 once it is stated.
