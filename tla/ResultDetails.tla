--------------------------- MODULE ResultDetails ---------------------------
(***************************************************************************)
(* The result details that one experiment process shares between its       *)
(* threads: types.ResultDetails, the probes of the chaosengine and the     *)
(* functions that set a probe's verdict.  Probe, ChaosResult and           *)
(* Experiment extend this module.                                          *)
(*                                                                         *)
(* Verdict strings keep their source spelling; the emoji and the wording   *)
(* around them are left out ("Better Luck Next Time" is "Failed", "N/A" in *)
(* a status stays "N/A").  Names are positions: a probe is its index in    *)
(* the chaosengine's list, so probe names are taken to be distinct.        *)
(***************************************************************************)
EXTENDS Naturals, Sequences

CONSTANT ProbeLists    \* the probe lists a chaosengine may carry

ProbeTypes == {"cmdProbe", "httpProbe", "k8sProbe", "promProbe"}
ForegroundModes == {"SOT", "EOT", "Edge"}
BackgroundModes == {"Continuous", "OnChaos"}
Modes == ForegroundModes \union BackgroundModes
Phases == {"PreChaos", "DuringChaos", "PostChaos"}

\* source: the command runs in a pod of its own; noTime: the initial delay
\* uses up the whole chaos duration, so an OnChaos timer is armed with 0.
ProbeAttributes ==
  {a \in [type : ProbeTypes, mode : Modes, stopOnFailure : BOOLEAN,
          source : BOOLEAN, noTime : BOOLEAN] : a.source => a.type = "cmdProbe"}

ASSUME ProbeListsAssumption == ProbeLists \subseteq Seq(ProbeAttributes)

VARIABLES
  probes,            \* the chaosengine's probes, in order
  verdict,           \* resultDetails.Verdict
  phase,             \* resultDetails.Phase
  probeDetails,      \* resultDetails.ProbeDetails, by probe index
  passedProbeCount   \* resultDetails.PassedProbeCount

detailVars == <<probes, verdict, phase, probeDetails, passedProbeCount>>

Verdicts == {"Awaited", "Pass", "Fail", "Stopped"}
ResultPhases == {"Running", "Completed", "Stopped"}
StatusKeys == {"PreChaos", "PostChaos", "Continuous", "OnChaos"}
Statuses == {"none", "Awaited", "Passed", "Failed", "N/A"}
ProbePhases == {"N/A", "Passed", "Failed"}

Nil == "nil"     \* a nil Go error
Err == "err"     \* any non-nil error
Errors == {Nil, Err}

ProbeDetails == [phase : ProbePhases, status : [StatusKeys -> Statuses],
                 failedWithError : Errors]

DetailsTypeOK ==
  /\ probes \in ProbeLists
  /\ verdict \in Verdicts
  /\ phase \in ResultPhases
  /\ probeDetails \in [DOMAIN probes -> ProbeDetails]
  /\ passedProbeCount \in Nat

----------------------------------------------------------------------------
(* pkg/types *)

SetResultAttributes ==
  /\ verdict' = "Awaited"
  /\ phase' = "Running"
  /\ passedProbeCount' = 0

SetResultAfterCompletion(v, p) ==
  /\ verdict' = v
  /\ phase' = p

----------------------------------------------------------------------------
(* pkg/probe *)

\* The keys under which a probe of this mode reports.
StatusKeysOf(mode) ==
  CASE mode = "SOT"  -> {"PreChaos"}
    [] mode = "EOT"  -> {"PostChaos"}
    [] mode = "Edge" -> {"PreChaos", "PostChaos"}
    [] OTHER         -> {mode}

SetProbeInitialStatus(mode) ==
  [k \in StatusKeys |-> IF k \in StatusKeysOf(mode) THEN "Awaited" ELSE "none"]

InitialProbeDetails(list) ==
  [i \in DOMAIN list |-> [phase |-> "N/A",
                          status |-> SetProbeInitialStatus(list[i].mode),
                          failedWithError |-> Nil]]

\* Foreground probes report under the phase, background probes under the mode.
SetProbeVerdict(details, i, v, ph) ==
  LET key == IF probes[i].mode \in ForegroundModes THEN ph ELSE probes[i].mode
  IN  [details EXCEPT ![i].phase = v, ![i].status[key] = v]

\* Mutant: every pass adds to the score.
CountsInEveryPhase(mode, ph) == TRUE

\* Whether a pass in phase ph adds to the score.
CountsInPhase(mode, ph) ==
  CASE mode \in {"Edge", "Continuous"} -> ph # "PreChaos"
    [] mode = "OnChaos"                -> ph # "DuringChaos"
    [] OTHER                           -> TRUE

\* What markedVerdictInEnd returns to its caller.
MarkedVerdictError(i, error) == IF probes[i].stopOnFailure THEN error ELSE Nil

\* Mutant: the verdict is taken from the error that is returned.
MarkedVerdictByReturn(i, error, ph) ==
  LET v == IF MarkedVerdictError(i, error) = Nil THEN "Passed" ELSE "Failed"
  IN  /\ probeDetails' = SetProbeVerdict(probeDetails, i, v, ph)
      /\ passedProbeCount' =
           IF v = "Passed" /\ CountsInPhase(probes[i].mode, ph)
           THEN passedProbeCount + 1 ELSE passedProbeCount

\* Mutant: a failure takes a pass back.
MarkedVerdictTakesBack(i, error, ph) ==
  LET v == IF error = Nil THEN "Passed" ELSE "Failed"
  IN  /\ probeDetails' = SetProbeVerdict(probeDetails, i, v, ph)
      /\ passedProbeCount' = IF v = "Passed" THEN passedProbeCount + 1
                                             ELSE passedProbeCount - 1

MarkedVerdictInEnd(i, error, ph) ==
  LET v == IF error = Nil THEN "Passed" ELSE "Failed"
  IN  /\ probeDetails' = SetProbeVerdict(probeDetails, i, v, ph)
      /\ passedProbeCount' =
           IF v = "Passed" /\ CountsInPhase(probes[i].mode, ph)
           THEN passedProbeCount + 1 ELSE passedProbeCount

SetProbeVerdictAfterFailure(details) ==
  [i \in DOMAIN details |->
     [details[i] EXCEPT !.status =
        [k \in StatusKeys |-> IF @[k] = "Awaited" THEN "N/A" ELSE @[k]]]]
=============================================================================
