---------------------------- MODULE ChaosResult ----------------------------
(***************************************************************************)
(* pkg/result: ChaosResult, which creates or updates the ChaosResult       *)
(* custom resource at the start (SOT) and at the end (EOT) of a run.  It   *)
(* is called by the experiment's main goroutine and, once a signal has     *)
(* come, by its abort watcher, on the same result details; helper pods     *)
(* annotate the same resource with the status of their targets.            *)
(*                                                                         *)
(* The API server is external.  It serialises the calls, gives each write  *)
(* a new resource version, and refuses an update made from a stale one.    *)
(* A call may fail in all its retries, and the answer to an update may be  *)
(* lost.  The specification at the end lets any thread call ChaosResult at *)
(* any time and the process die at any step, so what it implies holds for  *)
(* every experiment.                                                       *)
(***************************************************************************)
EXTENDS ResultDetails, Integers

CONSTANTS
  Thread,       \* the goroutines that call ChaosResult
  Target,       \* the targets of the chaos
  HasEngine,    \* whether the run belongs to a chaosengine
  ChaosStatus,  \* the statuses that helpers report about a target
  MaxRV,        \* bound on the number of writes of the resource
  MaxPassed     \* bound on the passes of probes in one process

Outcome == {"Pass", "Fail", "Stopped"}
NoStatus == "none"
AwaitedScore == -1    \* probeSuccessPercentage: "Awaited"
NoResult == [exists |-> FALSE, rv |-> 0, phase |-> "Running", verdict |-> "Awaited",
             score |-> AwaitedScore, runs |-> [o \in Outcome |-> 0],
             ann |-> [x \in Target |-> NoStatus], targets |-> {}]

VARIABLES
  cr,          \* the custom resource: status, history, annotations
  crProbes,    \* its status.probeStatus: by probe, the status under each key
  call,        \* the activation of ChaosResult in each thread
  targets      \* chaosDetails.Targets

resultVars == <<cr, crProbes, call, targets>>
vars == <<detailVars, resultVars>>

Results == [exists : BOOLEAN, rv : Nat, phase : ResultPhases, verdict : Verdicts,
            score : Int, runs : [Outcome -> Nat],
            ann : [Target -> ChaosStatus \union {NoStatus}],
            targets : SUBSET (Target \X ChaosStatus)]

CallPCs == {"idle", "get", "labels", "create", "reget", "status", "fill",
            "score", "update"}

Calls == [pc : CallPCs, state : {"SOT", "EOT"}, res : Results,
          allPassed : BOOLEAN, ret : Errors]

IdleCall(ret) == [pc |-> "idle", state |-> "SOT", res |-> NoResult,
                  allPassed |-> TRUE, ret |-> ret]

\* Type invariant: the resource, its copies in the calls and the result
\* details stay records of the kind that ChaosResult writes; in particular
\* a counted verdict is one of Outcome.
TypeOK ==
  /\ DetailsTypeOK
  /\ cr \in Results
  /\ crProbes \in [DOMAIN probes -> [StatusKeys -> Statuses]]
  /\ call \in [Thread -> Calls]
  /\ targets \subseteq Target \X ChaosStatus

ResultInit ==
  /\ cr = NoResult
  /\ crProbes = [i \in DOMAIN probes |-> [k \in StatusKeys |-> "none"]]
  /\ call = [t \in Thread |-> IdleCall(Nil)]
  /\ targets = {}

----------------------------------------------------------------------------
Step(t, pc) == call' = [call EXCEPT ![t].pc = pc]
Return(t, ret) == call' = [call EXCEPT ![t] = IdleCall(ret)]

CallChaosResult(t, state) ==
  /\ call[t].pc = "idle"
  /\ call' = [call EXCEPT ![t] = [IdleCall(Nil) EXCEPT !.pc = "get", !.state = state]]
  /\ UNCHANGED <<detailVars, cr, crProbes, targets>>

\* A result that is not found is no error.
GetResult(t) ==
  /\ call[t].pc = "get"
  /\ \/ call' = [call EXCEPT ![t].pc = "labels", ![t].res = cr]
     \/ Return(t, Err)
  /\ UNCHANGED <<detailVars, cr, crProbes, targets>>

\* The labels come from the chaos pod, unless the experiment was stopped.
\* With a result at hand, EOT marks the experiment as completed.
FetchLabels(t) ==
  /\ call[t].pc = "labels"
  /\ \/ /\ Step(t, IF call[t].res.exists THEN "status" ELSE "create")
        /\ phase' = IF call[t].res.exists /\ call[t].state = "EOT"
                    THEN "Completed" ELSE phase
     \/ /\ HasEngine /\ phase # "Stopped"
        /\ Return(t, Err)
        /\ UNCHANGED phase
  /\ UNCHANGED <<probes, verdict, probeDetails, passedProbeCount, cr, crProbes, targets>>

ProbeStatusNow == [i \in DOMAIN probes |-> probeDetails[i].status]

\* InitializeChaosResult.  Only "already exists" is looked at: any other
\* error of the create call is dropped and the caller is told nil.
CreateResult(t) ==
  /\ call[t].pc = "create"
  /\ \/ /\ ~cr.exists /\ cr.rv < MaxRV
        /\ cr' = [NoResult EXCEPT !.exists = TRUE, !.rv = cr.rv + 1,
                                  !.phase = phase, !.verdict = verdict]
        /\ crProbes' = ProbeStatusNow
        /\ Return(t, Nil)
     \/ /\ cr.exists
        /\ Step(t, "reget")
        /\ UNCHANGED <<cr, crProbes>>
     \/ /\ Return(t, Nil)
        /\ UNCHANGED <<cr, crProbes>>
  /\ UNCHANGED <<detailVars, targets>>

RegetResult(t) ==
  /\ call[t].pc = "reget"
  /\ \/ call' = [call EXCEPT ![t].pc = "status", ![t].res = cr]
     \/ Return(t, Err)
  /\ UNCHANGED <<detailVars, cr, crProbes, targets>>

\* Mutant: a target without a status is reported as well.
ReportsAll(r) == {<<x, r.ann[x]>> : x \in Target}

\* What the annotations of a resource report about the targets.
Reports(r) == {<<x, r.ann[x]>> : x \in {y \in Target : r.ann[y] # NoStatus}}

\* GetChaosStatus reads the resource anew and takes its reports over.
GetChaosStatus(t) ==
  /\ call[t].pc = "status"
  /\ \/ /\ cr.exists
        /\ targets' = targets \union Reports(cr)
        /\ Step(t, "fill")
     \/ /\ Return(t, Err)
        /\ UNCHANGED targets
  /\ UNCHANGED <<detailVars, cr, crProbes>>

GetProbeStatus == \A i \in DOMAIN probes : probeDetails[i].phase # "Failed"

\* PatchChaosResult up to the switch.  The probe status is filled in by
\* reference: the update sends what it is by then.
Filled(r) == [r EXCEPT !.phase = phase, !.verdict = verdict, !.targets = targets,
                       !.ann = [x \in Target |-> NoStatus]]

FillResult(t) ==
  /\ call[t].pc = "fill"
  /\ call' = [call EXCEPT ![t] = [@ EXCEPT !.pc = "score",
                                          !.res = Filled(call[t].res),
                                          !.allPassed = GetProbeStatus]]
  /\ UNCHANGED <<detailVars, cr, crProbes, targets>>

\* (PassedProbeCount * 100) / len(ProbeDetails)
ProbeScore == IF Len(probes) = 0 THEN 0 ELSE (passedProbeCount * 100) \div Len(probes)

\* The switch on resultDetails.Phase and resultDetails.Verdict, which are
\* loaded again here.
Judged(c) == IF c.allPassed THEN verdict ELSE "Fail"

\* Mutant: a verdict that the probes have overruled is counted as well.
ScoredTwice(c) ==
  [c.res EXCEPT !.verdict = IF c.allPassed THEN @ ELSE "Fail",
                !.runs = [o \in Outcome |-> IF o \in {verdict, Judged(c)} THEN @[o] + 1
                                                                        ELSE @[o]]]

Scored(c) ==
  [c.res EXCEPT !.verdict = IF c.allPassed THEN @ ELSE "Fail",
                !.score = CASE Judged(c) = "Pass" -> 100
                            [] Judged(c) \in {"Fail", "Stopped"} -> ProbeScore
                            [] OTHER -> @,
                !.runs = [o \in Outcome |-> IF o = Judged(c) THEN @[o] + 1 ELSE @[o]]]

ScoreResult(t) ==
  /\ call[t].pc = "score"
  /\ IF phase = "Completed"
     THEN /\ verdict' = Judged(call[t])
          /\ call' = [call EXCEPT ![t] = [@ EXCEPT !.pc = "update",
                                                  !.res = Scored(call[t])]]
          /\ probeDetails' = IF Judged(call[t]) \in {"Fail", "Stopped"}
                             THEN SetProbeVerdictAfterFailure(probeDetails)
                             ELSE probeDetails
     ELSE /\ call' = [call EXCEPT ![t] = [@ EXCEPT !.pc = "update",
                                                  !.res.score = AwaitedScore]]
          /\ UNCHANGED <<verdict, probeDetails>>
  /\ UNCHANGED <<probes, phase, passedProbeCount, cr, crProbes, targets>>

\* Mutant: the update is made whatever the version of the resource.
UpdateResultBlindly(t) ==
  /\ call[t].pc = "update"
  /\ \/ /\ cr.exists /\ cr.rv < MaxRV
        /\ cr' = [call[t].res EXCEPT !.rv = cr.rv + 1]
        /\ crProbes' = ProbeStatusNow
        /\ \/ Return(t, Nil)
           \/ UNCHANGED call
     \/ /\ Return(t, Err)
        /\ UNCHANGED <<cr, crProbes>>
  /\ UNCHANGED <<detailVars, targets>>

\* Every retry sends the same object: once the resource has moved on, none
\* can succeed and the call returns an error after the last.
UpdateResult(t) ==
  /\ call[t].pc = "update"
  /\ \/ /\ cr.exists /\ cr.rv = call[t].res.rv /\ cr.rv < MaxRV
        /\ cr' = [call[t].res EXCEPT !.rv = cr.rv + 1]
        /\ crProbes' = ProbeStatusNow
        /\ \/ Return(t, Nil)
           \/ UNCHANGED call    \* the answer is lost
     \/ /\ Return(t, Err)
        /\ UNCHANGED <<cr, crProbes>>
  /\ UNCHANGED <<detailVars, targets>>

PatchChaosResult(t) ==
  GetChaosStatus(t) \/ FillResult(t) \/ ScoreResult(t) \/ UpdateResult(t)

ChaosResultStep(t) ==
  \/ GetResult(t) \/ FetchLabels(t) \/ CreateResult(t) \/ RegetResult(t)
  \/ PatchChaosResult(t)

\* A helper pod's kubectl annotate: a patch, which needs no resource version.
AnnotateChaosResult(x, s) ==
  /\ cr.exists /\ cr.rv < MaxRV
  /\ cr' = [cr EXCEPT !.ann[x] = s, !.rv = @ + 1]
  /\ UNCHANGED <<detailVars, crProbes, call, targets>>

----------------------------------------------------------------------------
(* The most general client *)

\* The process starts (again): types.SetResultAttributes,
\* probe.InitializeProbesInChaosResultDetails, empty chaosDetails.Targets.
NewProcess ==
  /\ SetResultAttributes
  /\ probeDetails' = InitialProbeDetails(probes)
  /\ call' = [t \in Thread |-> IdleCall(Nil)]
  /\ targets' = {}
  /\ UNCHANGED <<probes, cr, crProbes>>

\* RecordAfterFailure, the abort watcher, and the main goroutine once the
\* chaos has been injected.
SetCompletion ==
  /\ \/ SetResultAfterCompletion("Fail", "Completed")
     \/ SetResultAfterCompletion("Stopped", "Stopped")
     \/ verdict' = "Pass" /\ UNCHANGED phase
  /\ UNCHANGED <<probes, probeDetails, passedProbeCount, resultVars>>

\* A probe is judged (module Probe), as long as fewer than MaxPassed passed.
JudgeProbe(i, error, ph) ==
  /\ passedProbeCount < MaxPassed
  /\ MarkedVerdictInEnd(i, error, ph)
  /\ UNCHANGED <<probes, verdict, phase, resultVars>>

Init ==
  /\ probes \in ProbeLists
  /\ verdict = "Awaited" /\ phase = "Running"
  /\ probeDetails = InitialProbeDetails(probes)
  /\ passedProbeCount = 0
  /\ ResultInit

Next ==
  \/ \E t \in Thread : ChaosResultStep(t) \/ \E s \in {"SOT", "EOT"} : CallChaosResult(t, s)
  \/ \E x \in Target, s \in ChaosStatus : AnnotateChaosResult(x, s)
  \/ NewProcess \/ SetCompletion
  \/ \E i \in DOMAIN probes, e \in Errors, ph \in {"PreChaos", "PostChaos"} :
       JudgeProbe(i, e, ph)

Spec == Init /\ [][Next]_vars

----------------------------------------------------------------------------
(* Properties *)

\* The reports a call has taken over, once it has read them.
Taken(t) == IF call[t].pc = "fill" THEN targets ELSE call[t].res.targets

\* What a call that has not been overtaken knows of the resource: as long as
\* its copy has the resource's version, the history in it is the current one
\* (plus its own run) and it has taken over every report.
SnapshotIsCurrent(t) ==
  (call[t].res.exists /\ call[t].res.rv = cr.rv)
    => /\ \/ call[t].res.runs = cr.runs
          \/ /\ call[t].pc = "update"
             /\ \E o \in Outcome : call[t].res.runs = [cr.runs EXCEPT ![o] = @ + 1]
       /\ call[t].pc \in {"fill", "score", "update"} => Reports(cr) \subseteq Taken(t)

SnapshotsAreCurrent == \A t \in Thread : SnapshotIsCurrent(t)

Ledger == INSTANCE RunLedger WITH ledger <- cr.runs, pending <- cr.ann,
                                  published <- cr.targets

\* Every write of the resource (create, update, annotate) is one atomic step
\* of the ledger, whoever else reads and writes in between.
ImplementsLedger == Ledger!LedgerSpec

\* An update that is being retried can still succeed.
RetriesCanSucceed == \A t \in Thread : call[t].pc = "update" => call[t].res.rv = cr.rv
=============================================================================
