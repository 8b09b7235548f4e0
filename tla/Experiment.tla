----------------------------- MODULE Experiment -----------------------------
(***************************************************************************)
(* One experiment process: the main goroutine executes the script of an    *)
(* experiment (ExperimentScripts), which calls RunProbes (Probe) and       *)
(* ChaosResult (ChaosResult); the abort watcher, once launched, waits for  *)
(* a signal and then calls ChaosResult on the same result details; both    *)
(* fill in the same event details.  The process ends when main returns or  *)
(* when a watcher exits, in the middle of whatever other goroutines do.    *)
(* If it is killed, everything stays as it is at that step.                *)
(*                                                                         *)
(* The chaoslib is an action that starts the chaos and one that ends it,   *)
(* with the DuringChaos probes between them.  The targets that it names    *)
(* and the helper pods that annotate the result are left to ChaosResult.   *)
(***************************************************************************)
EXTENDS ResultDetails, ExperimentScripts, FiniteSets

CONSTANTS
  Cases,       \* the experiments that may be run: a script, the probes in
               \* the chaosengine, and whether a signal may come
  OldResults,  \* the ChaosResult that earlier runs may have left
  Target, MaxRV

Thread == {"main", "abort"}
ChaosStatus == {"targeted"}
MaxPassed == 0     \* the bound of ChaosResult's client, which is not used here

VARIABLES
  err, run, poller, probePod, engineState, lastEval, wrote, raced,   \* Probe
  cr, crProbes, call, targets,                                       \* ChaosResult
  engineProbes,   \* the probes in the chaosengine
  oldResult,      \* history: the ChaosResult that the process found
  lenient,        \* history: the script is azure-instance-stop's, which only logs
                  \* the errors of its first and last operations
  todo,           \* what is left of each thread's script
  busy,           \* whether the first operation of it has been called
  process,        \* up, or how it ended
  watcher,        \* the abort watcher that waits for a signal
  signal,         \* the state of the chaos when the signal came, if it may and did
  chaos,          \* the state of the chaos
  eventsDetails,  \* types.EventDetails: the resource and the reason
  published,      \* the events in the ChaosResult
  recorded,       \* history: a ChaosResult existed when SOT had returned
  eot,            \* history: outcome of main's last ChaosResult(EOT)
  failed          \* history: main has failed the experiment

P == INSTANCE Probe
R == INSTANCE ChaosResult

probeVars == <<err, run, poller, probePod, engineState, lastEval, wrote, raced>>
resultVars == <<cr, crProbes, call, targets>>
experimentVars == <<engineProbes, oldResult, lenient, todo, busy, process, watcher, signal,
                    chaos, eventsDetails, published, recorded, eot, failed>>
vars == <<detailVars, probeVars, resultVars, experimentVars>>

ChaosStates == {"none", "injecting", "injected"}

\* The probes of an experiment come from its chaosengine.
ASSUME CasesAssumption ==
  /\ HasEngine \in BOOLEAN /\ <<>> \in ProbeLists
  /\ \A c \in Cases :
       /\ c.script \in Main /\ c.probes \in ProbeLists /\ c.signal \in BOOLEAN
       /\ HasEngine \/ c.probes = <<>>

ASSUME OldResultsAssumption == \A r \in OldResults : r \in R!Results /\ (r.exists \/ r = R!NoResult)

\* Type invariant: those of the components, and each thread has a script of
\* known operations left.
TypeOK ==
  /\ P!TypeOK /\ R!TypeOK
  /\ engineProbes \in ProbeLists
  /\ oldResult \in OldResults
  /\ todo \in [Thread -> Seq(Ops)]
  /\ busy \in [Thread -> BOOLEAN]
  /\ process \in {"up", "returned", "exited"}
  /\ watcher \in {"none", "exit", "stay"}
  /\ signal \in ChaosStates \union {"no", "never"}
  /\ chaos \in ChaosStates
  /\ eventsDetails \in [kind : {"ChaosResult", "ChaosEngine"}, reason : Reasons]
  /\ published \subseteq [kind : {"ChaosResult", "ChaosEngine"}, reason : Reasons]
  /\ lenient \in BOOLEAN /\ recorded \in BOOLEAN /\ failed \in BOOLEAN
  /\ eot \in Errors \union {"none"}

\* The probes are read from the chaosengine by the script.
Init ==
  /\ probes = <<>> /\ probeDetails = <<>> /\ passedProbeCount = 0
  /\ verdict = "Awaited" /\ phase = "Running"
  /\ P!ProbeInit
  /\ oldResult \in OldResults
  /\ cr = oldResult
  /\ crProbes = <<>> /\ targets = {}
  /\ call = [t \in Thread |-> R!IdleCall(Nil)]
  /\ \E c \in Cases : /\ engineProbes = c.probes
                      /\ signal = IF c.signal THEN "no" ELSE "never"
                      /\ lenient = (c.script = AzureInstanceStop)
                      /\ todo = [t \in Thread |-> IF t = "main" THEN c.script ELSE <<>>]
  /\ busy = [t \in Thread |-> FALSE]
  /\ process = "up" /\ watcher = "none" /\ chaos = "none"
  /\ eventsDetails = [kind |-> "ChaosResult", reason |-> "none"]
  /\ published = {}
  /\ recorded = FALSE /\ eot = "none" /\ failed = FALSE

----------------------------------------------------------------------------
(* Operations of the scripts *)

At(t, op) == process = "up" /\ todo[t] # <<>> /\ Head(todo[t]).op = op
Arg(t) == Head(todo[t]).arg

Done(t) == todo' = [todo EXCEPT ![t] = Tail(@)]
Fail(t) ==
  /\ todo' = [todo EXCEPT ![t] = OnError(Head(@).onError, Tail(@))]
  /\ failed' = (failed \/ ( /\ t = "main"
                            /\ Head(todo[t]).onError \notin {"ignore", "warn", "return"}))
Succeed(t) == Done(t) /\ UNCHANGED failed

\* probe.InitializeProbesInChaosResultDetails
DoInitProbes(t) ==
  /\ At(t, "initProbes")
  /\ \/ /\ probes' = engineProbes
        /\ probeDetails' = InitialProbeDetails(engineProbes)
        /\ poller' = [i \in DOMAIN engineProbes |-> "none"]
        /\ probePod' = [i \in DOMAIN engineProbes |-> "none"]
        /\ lastEval' = [i \in DOMAIN engineProbes |-> "none"]
        /\ wrote' = [i \in {P!Main} \union DOMAIN engineProbes |-> Nil]
        /\ crProbes' = [i \in DOMAIN engineProbes |-> [k \in StatusKeys |-> "none"]]
        /\ Succeed(t)
     \/ /\ Fail(t)
        /\ UNCHANGED <<probes, probeDetails, poller, probePod, lastEval, wrote, crProbes>>
  /\ UNCHANGED <<verdict, phase, passedProbeCount, err, run, engineState, raced, cr, call,
                 targets, engineProbes, oldResult, lenient, busy, process, watcher, signal, chaos,
                 eventsDetails, published, recorded, eot>>

CallUpdate(t) ==
  /\ At(t, "update") /\ ~busy[t]
  /\ R!CallChaosResult(t, Arg(t))
  /\ busy' = [busy EXCEPT ![t] = TRUE]
  /\ UNCHANGED <<probeVars, engineProbes, oldResult, lenient, todo, process, watcher, signal,
                 chaos, eventsDetails, published, recorded, eot, failed>>

\* Mutant: a failed ChaosResult is called again.
ReturnUpdateRetries(t) ==
  /\ At(t, "update") /\ busy[t] /\ call[t].pc = "idle"
  /\ busy' = [busy EXCEPT ![t] = FALSE]
  /\ IF call[t].ret = Err THEN UNCHANGED <<todo, failed>> ELSE Succeed(t)
  /\ recorded' = IF Arg(t) = "SOT" THEN cr.exists ELSE recorded
  /\ eot' = IF t = "main" /\ Arg(t) = "EOT" THEN call[t].ret ELSE eot
  /\ UNCHANGED <<detailVars, probeVars, resultVars, engineProbes, oldResult, lenient, process,
                 watcher, signal, chaos, eventsDetails, published>>

ReturnUpdate(t) ==
  /\ At(t, "update") /\ busy[t] /\ call[t].pc = "idle"
  /\ busy' = [busy EXCEPT ![t] = FALSE]
  /\ IF call[t].ret = Err THEN Fail(t) ELSE Succeed(t)
  /\ recorded' = IF Arg(t) = "SOT" THEN cr.exists ELSE recorded
  /\ eot' = IF t = "main" /\ Arg(t) = "EOT" THEN call[t].ret ELSE eot
  /\ UNCHANGED <<detailVars, probeVars, resultVars, engineProbes, oldResult, lenient, process,
                 watcher, signal, chaos, eventsDetails, published>>

\* types.SetResultEventAttributes and SetEngineEventAttributes
DoSetEvent(t) ==
  /\ \/ /\ At(t, "setResultEvent")
        /\ eventsDetails' =
             [kind |-> "ChaosResult",
              reason |-> IF Arg(t) # "byVerdict" THEN Arg(t)
                         ELSE IF verdict = "Pass" THEN "Pass" ELSE "Fail"]
     \/ /\ At(t, "setEngineEvent")
        /\ eventsDetails' = [kind |-> "ChaosEngine", reason |-> "Engine"]
  /\ Done(t)
  /\ UNCHANGED <<detailVars, probeVars, resultVars, engineProbes, oldResult, lenient, busy,
                 process, watcher, signal, chaos, published, recorded, eot, failed>>

\* events.GenerateEvents("ChaosResult").  Nobody looks at its error; an event
\* that the API refuses is taken for published here.
GenerateEvents(t) ==
  /\ At(t, "generateEvents")
  /\ published' = published \union {eventsDetails}
  /\ Done(t)
  /\ UNCHANGED <<detailVars, probeVars, resultVars, engineProbes, oldResult, lenient, busy,
                 process, watcher, signal, chaos, eventsDetails, recorded, eot, failed>>

\* go common.AbortWatcher(...) or AbortWatcherWithoutExit(...)
LaunchWatcher(t) ==
  /\ At(t, "watch")
  /\ watcher' = Arg(t)
  /\ Done(t)
  /\ UNCHANGED <<detailVars, probeVars, resultVars, engineProbes, oldResult, lenient, busy,
                 process, signal, chaos, eventsDetails, published, recorded, eot, failed>>

StatusCheck(t) ==
  /\ At(t, "check")
  /\ Succeed(t) \/ Fail(t)
  /\ UNCHANGED <<detailVars, probeVars, resultVars, engineProbes, oldResult, lenient, busy,
                 process, watcher, signal, chaos, eventsDetails, published, recorded, eot>>

\* The verdict that main gives before the post-chaos checks.
PassVerdict(t) ==
  /\ At(t, "pass")
  /\ verdict' = "Pass"
  /\ Done(t)
  /\ UNCHANGED <<probes, phase, probeDetails, passedProbeCount, probeVars, resultVars,
                 engineProbes, oldResult, lenient, busy, process, watcher, signal, chaos,
                 eventsDetails, published, recorded, eot, failed>>

\* Mutant: the verdict is given as the phase.
CompleteResultTwice(t) ==
  /\ At(t, "complete")
  /\ SetResultAfterCompletion(Arg(t), Arg(t))
  /\ Done(t)
  /\ UNCHANGED <<probes, probeDetails, passedProbeCount, probeVars, resultVars,
                 engineProbes, oldResult, lenient, busy, process, watcher, signal, chaos,
                 eventsDetails, published, recorded, eot, failed>>

CompleteResult(t) ==
  /\ At(t, "complete")
  /\ SetResultAfterCompletion(Arg(t), IF Arg(t) = "Fail" THEN "Completed" ELSE "Stopped")
  /\ Done(t)
  /\ UNCHANGED <<probes, probeDetails, passedProbeCount, probeVars, resultVars,
                 engineProbes, oldResult, lenient, busy, process, watcher, signal, chaos,
                 eventsDetails, published, recorded, eot, failed>>

Exit(t) ==
  /\ At(t, "exit")
  /\ process' = "exited"
  /\ Done(t)
  /\ UNCHANGED <<detailVars, probeVars, resultVars, engineProbes, oldResult, lenient, busy,
                 watcher, signal, chaos, eventsDetails, published, recorded, eot, failed>>

----------------------------------------------------------------------------
(* Probes and chaos *)

\* RunProbes is called if there are result details of probes.
CallRunProbes(ph) ==
  /\ probes # <<>>
  /\ P!RunProbes(ph)
  /\ busy' = [busy EXCEPT !["main"] = TRUE]
  /\ UNCHANGED <<resultVars, engineProbes, oldResult, lenient, todo, process, watcher, signal,
                 eventsDetails, published, recorded, eot, failed>>

\* ... in the script,
CallProbes ==
  \/ At("main", "probes") /\ ~busy["main"] /\ CallRunProbes(Arg("main")) /\ UNCHANGED chaos
  \/ /\ At("main", "probes") /\ ~busy["main"] /\ probes = <<>>
     /\ Done("main")
     /\ UNCHANGED <<detailVars, probeVars, resultVars, engineProbes, oldResult, lenient, busy,
                    process, watcher, signal, chaos, eventsDetails, published, recorded,
                    eot, failed>>

ReturnProbes ==
  /\ At("main", "probes") /\ busy["main"] /\ run.pc = "idle"
  /\ busy' = [busy EXCEPT !["main"] = FALSE]
  /\ IF run.ret = Err THEN Fail("main") ELSE Succeed("main")
  /\ UNCHANGED <<detailVars, probeVars, resultVars, engineProbes, oldResult, lenient, process,
                 watcher, signal, chaos, eventsDetails, published, recorded, eot>>

\* ... and in the chaoslib, which launches its watchers first.
InjectChaos ==
  /\ At("main", "chaos") /\ chaos = "none"
  /\ chaos' = "injecting"
  /\ \/ CallRunProbes("DuringChaos")
     \/ /\ probes = <<>>
        /\ UNCHANGED <<detailVars, probeVars, resultVars, engineProbes, oldResult, lenient, todo,
                       busy, process, watcher, signal, eventsDetails, published, recorded,
                       eot, failed>>

EndChaos ==
  /\ At("main", "chaos") /\ chaos = "injecting" /\ run.pc = "idle"
  /\ busy' = [busy EXCEPT !["main"] = FALSE]
  /\ \/ /\ ~(busy["main"] /\ run.ret = Err)
        /\ chaos' = "injected"
        /\ Succeed("main")
     \/ /\ Fail("main")
        /\ UNCHANGED chaos
  /\ UNCHANGED <<detailVars, probeVars, resultVars, engineProbes, oldResult, lenient, process,
                 watcher, signal, eventsDetails, published, recorded, eot>>

ExecuteProbes ==
  /\ process = "up" /\ P!Execute
  /\ UNCHANGED <<resultVars, experimentVars>>

PollProbe(i) ==
  /\ process = "up" /\ i \in DOMAIN probes /\ P!Poller(i)
  /\ UNCHANGED <<resultVars, experimentVars>>

ExecuteChaosResult(t) ==
  /\ process = "up" /\ R!ChaosResultStep(t)
  /\ UNCHANGED <<probeVars, experimentVars>>

----------------------------------------------------------------------------
(* The process *)

End(how) ==
  /\ process = "up"
  /\ process' = how
  /\ UNCHANGED <<detailVars, probeVars, resultVars, engineProbes, oldResult, lenient, todo, busy,
                 watcher, signal, chaos, eventsDetails, published, recorded, eot, failed>>

MainReturns == todo["main"] = <<>> /\ End("returned")

\* One signal is handled; the channel drops the others.  A signal that comes
\* before the watcher has been launched kills the process.
Signal ==
  /\ process = "up" /\ watcher # "none" /\ signal = "no"
  /\ signal' = chaos
  /\ todo' = [todo EXCEPT !["abort"] = IF watcher = "exit" THEN AbortWatcher
                                       ELSE AbortWatcherWithoutExit]
  /\ UNCHANGED <<detailVars, probeVars, resultVars, engineProbes, oldResult, lenient, busy,
                 process, watcher, chaos, eventsDetails, published, recorded, eot, failed>>

\* A watcher of the chaoslib has reverted the chaos and exits.
ChaosLibExits ==
  /\ watcher = "stay" /\ signal \in {"injecting", "injected"}
  /\ End("exited")

ThreadStep(t) ==
  \/ DoInitProbes(t) \/ CallUpdate(t) \/ ReturnUpdate(t) \/ DoSetEvent(t)
  \/ GenerateEvents(t) \/ LaunchWatcher(t) \/ StatusCheck(t) \/ PassVerdict(t)
  \/ CompleteResult(t) \/ Exit(t) \/ ExecuteChaosResult(t)

MainStep ==
  \/ ThreadStep("main") \/ CallProbes \/ ReturnProbes \/ InjectChaos \/ EndChaos
  \/ ExecuteProbes \/ MainReturns

Next ==
  \/ MainStep \/ ThreadStep("abort") \/ \E i \in DOMAIN probes : PollProbe(i)
  \/ Signal \/ ChaosLibExits

Spec == Init /\ [][Next]_vars

\* The Go scheduler runs both threads; each of their calls has a timeout.
FairSpec == Spec /\ WF_vars(MainStep) /\ WF_vars(ThreadStep("abort"))

----------------------------------------------------------------------------
(* Properties.  ~raced: no goroutine has loaded from the package-level err *)
(* what another had stored (Probe).  Signals are excluded where the abort  *)
(* watcher and main would overwrite each other's result details.           *)

Unsignalled == signal \in {"no", "never"}
Undisturbed == Unsignalled /\ ~raced

Foreground == {i \in DOMAIN engineProbes : engineProbes[i].mode \in ForegroundModes}

\* The history counts a pass only after the chaos has been injected to its
\* end, no check has failed the experiment, and every SOT, Edge and EOT
\* probe of the chaosengine has been run and has passed.  azure-instance-stop goes
\* on without the probes that it could not read.
PassIsEarned ==
  (Undisturbed /\ ~lenient /\ cr.runs["Pass"] > oldResult.runs["Pass"])
    => /\ chaos = "injected" /\ ~failed
       /\ \A i \in Foreground : i \in DOMAIN probes /\ probeDetails[i].phase = "Passed"

Total(r) == r.runs["Pass"] + r.runs["Fail"] + r.runs["Stopped"]

\* Main has returned and ChaosResult(EOT) gave it no error: the result that
\* SOT left is completed, is counted exactly once, under its verdict, and
\* neither the score nor any status is left awaited.
RunIsClosed ==
  (process = "returned" /\ Undisturbed /\ recorded /\ eot = Nil)
    => /\ cr.phase = "Completed" /\ cr.verdict \in {"Pass", "Fail"}
       /\ cr.score # R!AwaitedScore
       /\ Total(cr) = Total(oldResult) + 1
       /\ cr.runs[cr.verdict] = oldResult.runs[cr.verdict] + 1
       /\ \A i \in DOMAIN probes, k \in StatusKeys : crProbes[i][k] # "Awaited"

\* A summary event agrees with the result it is about.  That of azure-instance-stop
\* tells the verdict also when the result could not be updated.
SummaryMatchesResult ==
  (Unsignalled /\ recorded /\ ~lenient)
    => /\ [kind |-> "ChaosResult", reason |-> "Pass"] \in published =>
            cr.verdict = "Pass" /\ cr.runs["Pass"] > oldResult.runs["Pass"]
       /\ [kind |-> "ChaosResult", reason |-> "Fail"] \in published =>
            cr.runs["Pass"] = oldResult.runs["Pass"]

\* The process ends, whatever the probes do and whenever a signal comes.
ExperimentEnds == <>(process # "up")

\* A run that a signal stopped during the chaos is not counted as a pass.
AbortedRunNeverPasses ==
  signal = "injecting" => cr.runs["Pass"] = oldResult.runs["Pass"]
=============================================================================
