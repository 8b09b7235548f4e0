------------------------------- MODULE Probe -------------------------------
(***************************************************************************)
(* pkg/probe: RunProbes, called by the experiment's main goroutine in the  *)
(* phases PreChaos, DuringChaos and PostChaos, and the goroutines that     *)
(* poll Continuous and OnChaos probes until the process ends.              *)
(*                                                                         *)
(* All of them share the package-level variable err of probe.go without a  *)
(* lock: a step that stores to err and a later step that loads it are      *)
(* separate actions here, and other goroutines may store in between.       *)
(* One evaluation of a probe (its retries and its timeout) is one store,   *)
(* when the templated command is parsed, and its outcome, which is any, is *)
(* another: what the attempts store in between is overwritten by it.  The  *)
(* handlers of a cmd probe with a source image keep the outcome in a local *)
(* err of their own.  RunCount, ProbeArtifacts and the waits are left out. *)
(* A pod name carries a random run_id, so a pod is identified by the probe *)
(* it serves.                                                              *)
(***************************************************************************)
EXTENDS ResultDetails, FiniteSets

VARIABLES
  err,          \* the package-level variable err
  run,          \* the activation of RunProbes in the main goroutine
  poller,       \* control state of the goroutine that polls a probe
  probePod,     \* the pod of a probe with a source image
  engineState,  \* spec.engineState of the chaosengine
  lastEval,     \* history: outcome of the probe's last evaluation
  wrote,        \* history: what each goroutine (0 is main) last stored in err
  raced         \* history: a goroutine loaded from err what it had not stored

probeVars == <<err, run, poller, probePod, engineState, lastEval, wrote, raced>>
vars == <<detailVars, probeVars>>

Main == 0

RunPCs == {"idle", "fetch", "next", "createPod", "checkPod", "podChecked", "trigger",
           "compare", "mark", "deletePod", "keep", "kept", "assign", "decide"}
PollerStates == {"none", "trigger", "compare", "check", "record",
                 "stop", "mark", "patch", "done"}
PodStates == {"none", "running", "terminating", "gone"}

\* local is what a handler keeps in its own err or returns, then what it does
\* once it has seen that its err is nil.
Idle(ph, ret) == [phase |-> ph, pc |-> "idle", strict |-> TRUE, idx |-> 1,
                  local |-> Nil, then |-> "assign", failed |-> FALSE, ret |-> ret]

\* Type invariant: control states and verdicts stay within their ranges, and
\* every table has an entry for each probe of the chaosengine.
TypeOK ==
  /\ DetailsTypeOK
  /\ err \in Errors
  /\ run \in [phase : Phases \union {"none"}, pc : RunPCs, strict : BOOLEAN,
              idx : 1 .. Len(probes) + 1, local : Errors,
              then : {"assign", "deletePod"}, failed : BOOLEAN, ret : Errors]
  /\ poller \in [DOMAIN probes -> PollerStates]
  /\ probePod \in [DOMAIN probes -> PodStates]
  /\ engineState \in {"active", "stop"}
  /\ lastEval \in [DOMAIN probes -> Errors \union {"none"}]
  /\ wrote \in [{Main} \union DOMAIN probes -> Errors]
  /\ raced \in BOOLEAN

ProbeInit ==
  /\ err = Nil
  /\ run = Idle("none", Nil)
  /\ poller = [i \in DOMAIN probes |-> "none"]
  /\ probePod = [i \in DOMAIN probes |-> "none"]
  /\ engineState = "active"
  /\ lastEval = [i \in DOMAIN probes |-> "none"]
  /\ wrote = [t \in {Main} \union DOMAIN probes |-> Nil]
  /\ raced = FALSE

Init ==
  /\ probes \in ProbeLists
  /\ verdict = "Awaited" /\ phase = "Running"
  /\ probeDetails = InitialProbeDetails(probes)
  /\ passedProbeCount = 0
  /\ ProbeInit

Store(t, e) == err' = e /\ wrote' = [wrote EXCEPT ![t] = e]
Load(t) == raced' = (raced \/ err # wrote[t])

----------------------------------------------------------------------------
(* RunProbes: the loops over the probes *)

cur == probes[run.idx]
Goto(pc) == run' = [run EXCEPT !.pc = pc]
Return(ret) == run' = Idle(run.phase, ret)

RunProbes(ph) ==
  /\ run.pc = "idle"
  /\ run' = [Idle(ph, Nil) EXCEPT !.pc = "fetch"]
  /\ UNCHANGED <<detailVars, err, poller, probePod, engineState, lastEval, wrote, raced>>

\* The chaosengine's Get may fail in every one of its retries.
GetProbesFromEngine ==
  /\ run.pc = "fetch"
  /\ \/ run' = [run EXCEPT !.pc = "next", !.strict = (run.phase # "PostChaos")]
     \/ Return(Err)
  /\ UNCHANGED <<detailVars, err, poller, probePod, engineState, lastEval, wrote, raced>>

\* The first PostChaos loop passes over the foreground probes ...
SkipForeground ==
  /\ run.pc = "next" /\ ~run.strict
  /\ run.idx \in DOMAIN probes /\ cur.mode \in ForegroundModes
  /\ run' = [run EXCEPT !.idx = @ + 1]
  /\ UNCHANGED <<detailVars, err, poller, probePod, engineState, lastEval, wrote, raced>>

\* Mutant: the first PostChaos loop is the only one.
EndOfOnlyLoop ==
  /\ run.pc = "next" /\ run.idx \notin DOMAIN probes
  /\ Return(IF run.failed THEN Err ELSE Nil)
  /\ UNCHANGED <<detailVars, err, poller, probePod, engineState, lastEval, wrote, raced>>

\* ... and is followed by a loop over every probe unless it collected errors.
EndOfLoop ==
  /\ run.pc = "next" /\ run.idx \notin DOMAIN probes
  /\ CASE run.strict                 -> Return(Nil)
       [] ~run.strict /\ run.failed  -> Return(Err)
       [] ~run.strict /\ ~run.failed -> run' = [run EXCEPT !.strict = TRUE, !.idx = 1]
  /\ UNCHANGED <<detailVars, err, poller, probePod, engineState, lastEval, wrote, raced>>

\* execute: err = prepare...Probe(...)
Assign ==
  /\ run.pc = "assign"
  /\ Store(Main, run.local)
  /\ Goto("decide")
  /\ UNCHANGED <<detailVars, poller, probePod, engineState, lastEval, raced>>

\* Mutant: an error never ends the loop.
DecideGoesOn ==
  /\ run.pc = "decide"
  /\ Load(Main)
  /\ run' = [run EXCEPT !.pc = "next", !.idx = @ + 1, !.local = Nil,
                        !.then = "assign", !.failed = @ \/ err # Nil]
  /\ UNCHANGED <<detailVars, err, poller, probePod, engineState, lastEval, wrote>>

\* execute: ...; err != nil
Decide ==
  /\ run.pc = "decide"
  /\ Load(Main)
  /\ CASE err # Nil /\ run.strict -> Return(Err)
       [] OTHER -> run' = [run EXCEPT !.pc = "next", !.idx = @ + 1, !.local = Nil,
                                      !.then = "assign", !.failed = @ \/ err # Nil]
  /\ UNCHANGED <<detailVars, err, poller, probePod, engineState, lastEval, wrote>>

----------------------------------------------------------------------------
(* The handlers of one probe type in one phase, and what they consist of *)

Executing(ph, type) ==
  /\ run.pc = "next" /\ run.phase = ph
  /\ run.idx \in DOMAIN probes /\ cur.type = type
  /\ run.strict \/ cur.mode \in BackgroundModes

Evaluate(modes) ==
  /\ cur.mode \in modes
  /\ Goto(IF cur.source THEN "createPod" ELSE "trigger")
  /\ UNCHANGED <<detailVars, err, poller, probePod, engineState, lastEval, wrote, raced>>

Launch(modes) ==
  /\ cur.mode \in modes
  /\ IF cur.source THEN /\ Goto("createPod")
                        /\ UNCHANGED poller
                   ELSE /\ Goto("assign")
                        /\ poller' = [poller EXCEPT ![run.idx] = "trigger"]
  /\ UNCHANGED <<detailVars, err, probePod, engineState, lastEval, wrote, raced>>

\* Mutant: what the polling goroutine has recorded is not asked for.
CheckNothing(modes) ==
  /\ cur.mode \in modes
  /\ Store(Main, Nil)
  /\ Goto("mark")
  /\ UNCHANGED <<detailVars, poller, probePod, engineState, lastEval, raced>>

\* err = checkForErrorInContinuousProbe(...)
CheckRecorded(modes) ==
  /\ cur.mode \in modes
  /\ Store(Main, probeDetails[run.idx].failedWithError)
  /\ Goto("mark")
  /\ UNCHANGED <<detailVars, poller, probePod, engineState, lastEval, raced>>

NothingToDo(modes) ==
  /\ cur.mode \notin modes
  /\ Goto("assign")
  /\ UNCHANGED <<detailVars, err, poller, probePod, engineState, lastEval, wrote, raced>>

PreChaosHandler ==
  Evaluate({"SOT", "Edge"}) \/ Launch({"Continuous"})
    \/ NothingToDo({"SOT", "Edge", "Continuous"})
PostChaosHandler ==
  Evaluate({"EOT", "Edge"}) \/ CheckRecorded({"Continuous", "OnChaos"})
    \/ NothingToDo({"EOT", "Edge", "Continuous", "OnChaos"})
OnChaosHandler == Launch({"OnChaos"}) \/ NothingToDo({"OnChaos"})

PreChaosCmdProbe   == Executing("PreChaos", "cmdProbe") /\ PreChaosHandler
PreChaosHTTPProbe  == Executing("PreChaos", "httpProbe") /\ PreChaosHandler
PreChaosK8sProbe   == Executing("PreChaos", "k8sProbe") /\ PreChaosHandler
PreChaosPromProbe  == Executing("PreChaos", "promProbe") /\ PreChaosHandler
PostChaosCmdProbe  == Executing("PostChaos", "cmdProbe") /\ PostChaosHandler
PostChaosHTTPProbe == Executing("PostChaos", "httpProbe") /\ PostChaosHandler
PostChaosK8sProbe  == Executing("PostChaos", "k8sProbe") /\ PostChaosHandler
PostChaosPromProbe == Executing("PostChaos", "promProbe") /\ PostChaosHandler
OnChaosCmdProbe    == Executing("DuringChaos", "cmdProbe") /\ OnChaosHandler
OnChaosHTTPProbe   == Executing("DuringChaos", "httpProbe") /\ OnChaosHandler
OnChaosK8sProbe    == Executing("DuringChaos", "k8sProbe") /\ OnChaosHandler
OnChaosPromProbe   == Executing("DuringChaos", "promProbe") /\ OnChaosHandler

\* createHelperPod fails before the pod exists (its service account or the
\* create call) or if the pod does not get to run in time; the error is
\* returned without a verdict for the probe.
CreateProbePod ==
  /\ run.pc = "createPod"
  /\ \/ /\ probePod' = [probePod EXCEPT ![run.idx] = "running"]
        /\ Goto("checkPod")
     \/ /\ run' = [run EXCEPT !.pc = "assign", !.local = Err]
        /\ UNCHANGED probePod
  /\ UNCHANGED <<detailVars, err, poller, engineState, lastEval, wrote, raced>>

\* err = status.CheckApplicationStatus(...)
CheckProbePod ==
  /\ run.pc = "checkPod"
  /\ \E e \in Errors : Store(Main, e)
  /\ Goto("podChecked")
  /\ UNCHANGED <<detailVars, poller, probePod, engineState, lastEval, raced>>

ProbePodChecked ==
  /\ run.pc = "podChecked"
  /\ Load(Main)
  /\ IF err # Nil THEN /\ run' = [run EXCEPT !.pc = "assign", !.local = Err]
                       /\ UNCHANGED poller
     ELSE IF cur.mode \in BackgroundModes
     THEN /\ poller' = [poller EXCEPT ![run.idx] = "trigger"]
          /\ Goto("assign")
     ELSE /\ Goto("trigger")
          /\ UNCHANGED poller
  /\ UNCHANGED <<detailVars, err, probePod, engineState, lastEval, wrote>>

CreateHelperPod == CreateProbePod \/ CheckProbePod \/ ProbePodChecked

\* A prom probe parses no template.
ParseCommand(t, type) ==
  IF type = "promProbe" THEN UNCHANGED <<err, wrote>> ELSE \E e \in Errors : Store(t, e)

Trigger ==
  /\ run.pc = "trigger"
  /\ ParseCommand(Main, cur.type)
  /\ Goto("compare")
  /\ UNCHANGED <<detailVars, poller, probePod, engineState, lastEval, raced>>

\* The handler that evaluates a probe with a source image has its own err, ...
OwnErr == cur.source /\ cur.mode \in ForegroundModes

\* ... and so has the if around markedVerdictInEnd in preChaosCmdProbe.
ReturnsOwnErr == OwnErr \/ (cur.type = "cmdProbe" /\ run.phase = "PreChaos")

ValidateResult ==
  /\ run.pc = "compare"
  /\ \E e \in Errors :
       /\ lastEval' = [lastEval EXCEPT ![run.idx] = e]
       /\ IF OwnErr THEN /\ run' = [run EXCEPT !.pc = "mark", !.local = e]
                         /\ UNCHANGED <<err, wrote>>
                    ELSE /\ Goto("mark")
                         /\ Store(Main, e)
  /\ UNCHANGED <<detailVars, poller, probePod, engineState, raced>>

\* The handler looks at e, which markedVerdictInEnd or deleteProbePod has
\* returned, directly or through the package-level err.
Keep(e, then) ==
  run' = [run EXCEPT !.local = e, !.then = then,
                     !.pc = IF ~ReturnsOwnErr THEN "keep"
                            ELSE IF e = Nil THEN then ELSE "assign"]

\* Mutant: the pod is not deleted.
MarkVerdictKeepsPod ==
  /\ run.pc = "mark"
  /\ Load(Main)
  /\ LET e == IF OwnErr THEN run.local ELSE err
     IN  /\ MarkedVerdictInEnd(run.idx, e, run.phase)
         /\ Keep(MarkedVerdictError(run.idx, e), "assign")
  /\ UNCHANGED <<probes, verdict, phase, err, poller, probePod, engineState, lastEval, wrote>>

\* A probe that fails with stopOnFailure returns before its pod is deleted.
MarkVerdict ==
  /\ run.pc = "mark"
  /\ LET e == IF OwnErr THEN run.local ELSE err
     IN  /\ MarkedVerdictInEnd(run.idx, e, run.phase)
         /\ Keep(MarkedVerdictError(run.idx, e), IF cur.source THEN "deletePod" ELSE "assign")
  /\ IF OwnErr THEN UNCHANGED raced ELSE Load(Main)
  /\ UNCHANGED <<probes, verdict, phase, err, poller, probePod, engineState, lastEval, wrote>>

\* if err = ...; err != nil { return err }
StoreReturned ==
  /\ run.pc = "keep"
  /\ Store(Main, run.local)
  /\ Goto("kept")
  /\ UNCHANGED <<detailVars, poller, probePod, engineState, lastEval, raced>>

LoadReturned ==
  /\ run.pc = "kept"
  /\ Load(Main)
  /\ run' = [run EXCEPT !.local = err, !.pc = IF err = Nil THEN run.then ELSE "assign"]
  /\ UNCHANGED <<detailVars, err, poller, probePod, engineState, lastEval, wrote>>

\* Mutant: the deletion is tried until it succeeds.
DeleteProbePodInsists ==
  /\ run.pc = "deletePod"
  /\ probePod[run.idx] \in {"running", "terminating"}
  /\ probePod' = [probePod EXCEPT ![run.idx] = "terminating"]
  /\ Keep(Nil, "assign")
  /\ UNCHANGED <<detailVars, err, poller, engineState, lastEval, wrote, raced>>

\* The wait that follows the delete call selects on a label no pod carries,
\* so it ends at once; the call fails if the pod is gone (or the API is out).
DeleteProbePod ==
  /\ run.pc = "deletePod"
  /\ \/ /\ probePod[run.idx] \in {"running", "terminating"}
        /\ probePod' = [probePod EXCEPT ![run.idx] = "terminating"]
        /\ Keep(Nil, "assign")
     \/ /\ Keep(Err, "assign")
        /\ UNCHANGED probePod
  /\ UNCHANGED <<detailVars, err, poller, engineState, lastEval, wrote, raced>>

\* External: the kubelet ends a pod that is being deleted.
PodTerminates(i) ==
  /\ probePod[i] = "terminating"
  /\ probePod' = [probePod EXCEPT ![i] = "gone"]
  /\ UNCHANGED <<detailVars, err, run, poller, engineState, lastEval, wrote, raced>>

----------------------------------------------------------------------------
(* The polling goroutines *)

MoveTo(i, s) == poller' = [poller EXCEPT ![i] = s]

PollTrigger(i) ==
  /\ poller[i] = "trigger"
  /\ ParseCommand(i, probes[i].type)
  /\ MoveTo(i, "compare")
  /\ UNCHANGED <<detailVars, run, probePod, engineState, lastEval, raced>>

PollCompare(i) ==
  /\ poller[i] = "compare"
  /\ \E e \in Errors : Store(i, e) /\ lastEval' = [lastEval EXCEPT ![i] = e]
  /\ MoveTo(i, "check")
  /\ UNCHANGED <<detailVars, run, probePod, engineState, raced>>

PollCheck(i) ==
  /\ poller[i] = "check"
  /\ Load(i)
  /\ MoveTo(i, IF err = Nil THEN "trigger" ELSE "record")
  /\ UNCHANGED <<detailVars, err, run, probePod, engineState, lastEval, wrote>>

\* IsProbeFailedWithError = err loads err once more.
PollRecord(i) ==
  /\ poller[i] = "record"
  /\ Load(i)
  /\ probeDetails' = [probeDetails EXCEPT ![i].failedWithError = err]
  /\ MoveTo(i, IF probes[i].stopOnFailure THEN "stop" ELSE "done")
  /\ UNCHANGED <<probes, verdict, phase, passedProbeCount, err, run, probePod,
                 engineState, lastEval, wrote>>

Poll(i) == PollTrigger(i) \/ PollCompare(i) \/ PollCheck(i) \/ PollRecord(i)

\* The timer of the select is armed anew in every iteration: it has run out
\* only if it was armed with no time at all.
TimeIsUp(i) ==
  /\ poller[i] = "trigger" /\ probes[i].noTime
  /\ MoveTo(i, "done")
  /\ UNCHANGED <<detailVars, err, run, probePod, engineState, lastEval, wrote, raced>>

Polls(i, type, mode, source) ==
  probes[i].type = type /\ probes[i].mode = mode /\ probes[i].source = source

TriggerInlineContinuousCmdProbe(i) == Polls(i, "cmdProbe", "Continuous", FALSE) /\ Poll(i)
TriggerSourceContinuousCmdProbe(i) == Polls(i, "cmdProbe", "Continuous", TRUE) /\ Poll(i)
TriggerContinuousHTTPProbe(i)      == Polls(i, "httpProbe", "Continuous", FALSE) /\ Poll(i)
TriggerContinuousK8sProbe(i)       == Polls(i, "k8sProbe", "Continuous", FALSE) /\ Poll(i)
TriggerContinuousPromProbe(i)      == Polls(i, "promProbe", "Continuous", FALSE) /\ Poll(i)
TriggerInlineOnChaosCmdProbe(i) ==
  Polls(i, "cmdProbe", "OnChaos", FALSE) /\ (Poll(i) \/ TimeIsUp(i))
TriggerSourceOnChaosCmdProbe(i) ==
  Polls(i, "cmdProbe", "OnChaos", TRUE) /\ (Poll(i) \/ TimeIsUp(i))
TriggerOnChaosHTTPProbe(i) ==
  Polls(i, "httpProbe", "OnChaos", FALSE) /\ (Poll(i) \/ TimeIsUp(i))
TriggerOnChaosK8sProbe(i) ==
  Polls(i, "k8sProbe", "OnChaos", FALSE) /\ (Poll(i) \/ TimeIsUp(i))
TriggerOnChaosPromProbe(i) ==
  Polls(i, "promProbe", "OnChaos", FALSE) /\ (Poll(i) \/ TimeIsUp(i))

\* stopChaosEngine: err = checkForErrorInContinuousProbe(...)
StopCheckRecorded(i) ==
  /\ poller[i] = "stop"
  /\ Store(i, probeDetails[i].failedWithError)
  /\ MoveTo(i, "mark")
  /\ UNCHANGED <<detailVars, run, probePod, engineState, lastEval, raced>>

StopMarkVerdict(i) ==
  /\ poller[i] = "mark"
  /\ Load(i)
  /\ MarkedVerdictInEnd(i, err, "PostChaos")
  /\ MoveTo(i, "patch")
  /\ UNCHANGED <<probes, verdict, phase, err, run, probePod, engineState, lastEval, wrote>>

\* Get and Update of the chaosengine; an error of either is only logged.
StopPatchEngine(i) ==
  /\ poller[i] = "patch"
  /\ engineState' \in {engineState, "stop"}
  /\ MoveTo(i, "done")
  /\ UNCHANGED <<detailVars, err, run, probePod, lastEval, wrote, raced>>

StopChaosEngine(i) == StopCheckRecorded(i) \/ StopMarkVerdict(i) \/ StopPatchEngine(i)

----------------------------------------------------------------------------
Execute ==
  \/ GetProbesFromEngine \/ SkipForeground \/ EndOfLoop \/ Assign \/ Decide
  \/ PreChaosCmdProbe \/ PreChaosHTTPProbe \/ PreChaosK8sProbe \/ PreChaosPromProbe
  \/ PostChaosCmdProbe \/ PostChaosHTTPProbe \/ PostChaosK8sProbe \/ PostChaosPromProbe
  \/ OnChaosCmdProbe \/ OnChaosHTTPProbe \/ OnChaosK8sProbe \/ OnChaosPromProbe
  \/ CreateHelperPod \/ Trigger \/ ValidateResult \/ MarkVerdict \/ StoreReturned
  \/ LoadReturned \/ DeleteProbePod

Poller(i) ==
  \/ TriggerInlineContinuousCmdProbe(i) \/ TriggerSourceContinuousCmdProbe(i)
  \/ TriggerContinuousHTTPProbe(i) \/ TriggerContinuousK8sProbe(i)
  \/ TriggerContinuousPromProbe(i)
  \/ TriggerInlineOnChaosCmdProbe(i) \/ TriggerSourceOnChaosCmdProbe(i)
  \/ TriggerOnChaosHTTPProbe(i) \/ TriggerOnChaosK8sProbe(i)
  \/ TriggerOnChaosPromProbe(i)
  \/ StopChaosEngine(i)

\* Experiments call RunProbes in this order and end on its first error.
NextPhase ==
  CASE run.phase = "none"        -> "PreChaos"
    [] run.phase = "PreChaos"    -> "DuringChaos"
    [] run.phase = "DuringChaos" -> "PostChaos"
    [] OTHER                     -> "none"

CallRunProbes == run.ret = Nil /\ NextPhase # "none" /\ RunProbes(NextPhase)

\* The last RunProbes has returned and the process is about to end.
Returned == run.pc = "idle" /\ (run.ret = Err \/ NextPhase = "none")

Next ==
  \/ CallRunProbes \/ Execute
  \/ \E i \in DOMAIN probes : Poller(i) \/ PodTerminates(i)

Spec == Init /\ [][Next]_vars

\* The Go scheduler runs the main goroutine; every call in it has a timeout.
FairSpec == Spec /\ WF_vars(CallRunProbes \/ Execute)

----------------------------------------------------------------------------
(* Properties.  Those that start with ~raced hold as long as no goroutine  *)
(* has loaded from err what another one had stored.                        *)

Foreground == {i \in DOMAIN probes : probes[i].mode \in ForegroundModes}
Background == DOMAIN probes \ Foreground

\* The verdict of a SOT, Edge or EOT probe is that of its last evaluation,
\* whatever the polling goroutines are doing (markedVerdictInEnd).
VerdictFollowsEvaluation ==
  \A i \in Foreground :
    (lastEval[i] # "none" /\ ~(run.pc = "mark" /\ run.idx = i))
      => probeDetails[i].phase = (IF lastEval[i] = Nil THEN "Passed" ELSE "Failed")

\* ... which it is if main has only loaded from err what it stored there.
VerdictsAreRight == ~raced => VerdictFollowsEvaluation

\* Chaos is not injected unless every SOT and Edge probe that stops the
\* experiment on failure has passed: RunProbes("PreChaos") returned an error
\* otherwise.
PreChaosGate ==
  (~raced /\ run.phase \in {"DuringChaos", "PostChaos"})
    => \A i \in Foreground :
         (probes[i].stopOnFailure /\ probes[i].mode # "EOT")
           => probeDetails[i].status["PreChaos"] = "Passed"

PostChaosPassed == run.phase = "PostChaos" /\ run.pc = "idle" /\ run.ret = Nil

\* When the three phases have returned no error, every probe has been judged
\* under every key it reports, also those that ran in another phase.
EveryProbeJudged ==
  (~raced /\ PostChaosPassed)
    => \A i \in DOMAIN probes :
         /\ probeDetails[i].phase # "N/A"
         /\ \A k \in StatusKeys : probeDetails[i].status[k] # "Awaited"

\* ... and the deletion of every probe pod has been asked for.
NoPodLeftRunning ==
  (~raced /\ PostChaosPassed) => \A i \in DOMAIN probes : probePod[i] # "running"

\* Every probe adds at most 1 to the score, a background probe at most 2 (it
\* is executed by both PostChaos loops), or 3 if its goroutine marks it also.
\* The score is therefore no share of the probes: it may pass 100.
ScoreBound ==
  passedProbeCount <= Len(probes) + Cardinality(Background)
                      + Cardinality({i \in Background : probes[i].stopOnFailure})

\* A failure that a polling goroutine has recorded by the time PostChaos
\* starts fails the probe there, and the phase too if the probe is to stop
\* the experiment.  (A failure recorded later may be missed.)
FailureIsReported ==
  \A i \in UNION {DOMAIN list : list \in ProbeLists} :
    [](( /\ run.phase = "PostChaos" /\ run.pc = "fetch"
         /\ i \in Background /\ probeDetails[i].failedWithError = Err)
       => []((i \in Background /\ PostChaosPassed /\ ~raced)
               => /\ probeDetails[i].phase = "Failed"
                  /\ ~probes[i].stopOnFailure))

\* RunProbes returns, whatever the probes and the polling goroutines do.
RunProbesReturns == run.pc # "idle" ~> run.pc = "idle"
=============================================================================
