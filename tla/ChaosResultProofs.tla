-------------------------- MODULE ChaosResultProofs --------------------------
(***************************************************************************)
(* Proofs about ChaosResult: its types, that a snapshot which has not been *)
(* overtaken is current, and that it implements RunLedger.                 *)
(***************************************************************************)
EXTENDS ChaosResult, TLAPS

----------------------------------------------------------------------------
(* Type correctness *)

\* A judged probe keeps the details well typed (markedVerdictInEnd).
LEMMA MarkedVerdictTypeOK ==
  ASSUME DetailsTypeOK, NEW i \in DOMAIN probes, NEW e, NEW ph,
         MarkedVerdictInEnd(i, e, ph), UNCHANGED <<probes, verdict, phase>>
  PROVE  DetailsTypeOK'
<1> DEFINE v == IF e = Nil THEN "Passed" ELSE "Failed"
<1> DEFINE key == IF probes[i].mode \in ForegroundModes THEN ph ELSE probes[i].mode
<1> DEFINE d == probeDetails[i]
<1>1. v \in ProbePhases /\ v \in Statuses
  BY DEF ProbePhases, Statuses
<1>2. probeDetails' = [probeDetails EXCEPT ![i].phase = v, ![i].status[key] = v]
  BY Zenon DEF MarkedVerdictInEnd, SetProbeVerdict
<1>3. d \in ProbeDetails
  BY DEF DetailsTypeOK
<1>4. [d EXCEPT !.phase = v, !.status[key] = v] \in ProbeDetails
  BY <1>1, <1>3 DEF ProbeDetails
<1>5. probeDetails' \in [DOMAIN probes -> ProbeDetails]
  BY <1>2, <1>4 DEF DetailsTypeOK
<1>6. passedProbeCount' \in Nat
  BY DEF MarkedVerdictInEnd, DetailsTypeOK
<1> QED
  BY <1>5, <1>6 DEF DetailsTypeOK

\* Replacing every awaited status keeps the details well typed
\* (SetProbeVerdictAfterFailure).
LEMMA AfterFailureTypeOK ==
  ASSUME NEW details \in [DOMAIN probes -> ProbeDetails]
  PROVE  SetProbeVerdictAfterFailure(details) \in [DOMAIN probes -> ProbeDetails]
  BY DEF SetProbeVerdictAfterFailure, ProbeDetails, Statuses

\* InitializeProbesInChaosResultDetails yields well typed details.
LEMMA InitialDetailsTypeOK ==
  ASSUME NEW list \in Seq(ProbeAttributes)
  PROVE  InitialProbeDetails(list) \in [DOMAIN list -> ProbeDetails]
  BY DEF InitialProbeDetails, SetProbeInitialStatus, ProbeDetails, ProbePhases,
         Statuses, Errors

\* The status map that a write sends is well typed.
LEMMA ProbeStatusTypeOK ==
  ASSUME DetailsTypeOK
  PROVE  ProbeStatusNow \in [DOMAIN probes -> [StatusKeys -> Statuses]]
  BY DEF ProbeStatusNow, DetailsTypeOK, ProbeDetails

\* A resource that does not exist is a well typed one.
LEMMA NoResultTypeOK == NoResult \in Results
  BY DEF NoResult, Results, ResultPhases, Verdicts, AwaitedScore

\* A call that has returned is well typed.
LEMMA IdleTypeOK ==
  ASSUME NEW ret \in Errors
  PROVE  IdleCall(ret) \in Calls
  BY NoResultTypeOK DEF IdleCall, Calls, CallPCs

\* The probe score is an integer: it divides by the number of probes only
\* where there are some (PatchChaosResult).
LEMMA ScoreTypeOK ==
  ASSUME DetailsTypeOK
  PROVE  ProbeScore \in Int
<1>1. Len(probes) \in Nat
  BY ProbeListsAssumption DEF DetailsTypeOK
<1>2. CASE Len(probes) = 0
  BY <1>2 DEF ProbeScore
<1>3. CASE Len(probes) # 0
  BY <1>1, <1>3 DEF ProbeScore, DetailsTypeOK
<1> QED
  BY <1>2, <1>3

\* What the annotations report is a set of targets with a status.
LEMMA ReportsTypeOK ==
  ASSUME NEW r \in Results
  PROVE  Reports(r) \subseteq Target \X ChaosStatus
  BY DEF Reports, Results

\* A resource with another score is still one.
LEMMA RescoredTypeOK ==
  ASSUME NEW r \in Results, NEW score \in Int
  PROVE  [r EXCEPT !.score = score] \in Results
  BY DEF Results

\* The initial states are well typed.
LEMMA InitTypeOK == Init => TypeOK
<1> SUFFICES ASSUME Init PROVE TypeOK
  OBVIOUS
<1>1. DetailsTypeOK
  BY ProbeListsAssumption, InitialDetailsTypeOK
     DEF Init, DetailsTypeOK, Verdicts, ResultPhases
<1>2. call \in [Thread -> Calls]
  BY IdleTypeOK DEF Init, ResultInit, Errors
<1> QED
  BY <1>1, <1>2, NoResultTypeOK DEF Init, ResultInit, TypeOK, Statuses

\* Every step of ChaosResult, of its helpers and of its clients keeps the
\* types.
LEMMA NextTypeOK == TypeOK /\ [Next]_vars => TypeOK'
<1> SUFFICES ASSUME TypeOK, [Next]_vars PROVE TypeOK'
  OBVIOUS
<1> USE DEF TypeOK
<1>0. /\ Nil \in Errors /\ Err \in Errors
      /\ IdleCall(Nil) \in Calls /\ IdleCall(Err) \in Calls
  BY IdleTypeOK DEF Errors
<1>1. ASSUME NEW t \in Thread, NEW s \in {"SOT", "EOT"}, CallChaosResult(t, s)
      PROVE  TypeOK'
  <2>1. [IdleCall(Nil) EXCEPT !.pc = "get", !.state = s] \in Calls
    BY <1>0 DEF Calls, CallPCs
  <2> QED
    BY <1>1, <2>1 DEF CallChaosResult, detailVars, DetailsTypeOK
<1>2. ASSUME NEW t \in Thread, GetResult(t)
      PROVE  TypeOK'
  <2>1. [call[t] EXCEPT !.pc = "labels", !.res = cr] \in Calls
    BY DEF Calls, CallPCs
  <2> QED
    BY <1>0, <1>2, <2>1 DEF GetResult, Return, detailVars, DetailsTypeOK
<1>3. ASSUME NEW t \in Thread, FetchLabels(t)
      PROVE  TypeOK'
  <2>1. \A pc \in CallPCs : [call[t] EXCEPT !.pc = pc] \in Calls
    BY DEF Calls
  <2>2. call' \in [Thread -> Calls]
    BY <1>0, <1>3, <2>1 DEF FetchLabels, Return, Step, CallPCs
  <2> QED
    BY <1>3, <2>2 DEF FetchLabels, DetailsTypeOK, ResultPhases
<1>4. ASSUME NEW t \in Thread, CreateResult(t)
      PROVE  TypeOK'
  <2>1. [call[t] EXCEPT !.pc = "reget"] \in Calls
    BY DEF Calls, CallPCs
  <2>2. call' \in [Thread -> Calls]
    BY <1>0, <1>4, <2>1 DEF CreateResult, Return, Step
  <2>3. cr.rv + 1 \in Nat
    BY DEF Results
  <2>4. [NoResult EXCEPT !.exists = TRUE, !.rv = cr.rv + 1, !.phase = phase,
                         !.verdict = verdict] \in Results
    BY <2>3, NoResultTypeOK DEF Results, DetailsTypeOK
  <2> QED
    BY <1>4, <2>2, <2>4, ProbeStatusTypeOK DEF CreateResult, detailVars, DetailsTypeOK
<1>5. ASSUME NEW t \in Thread, RegetResult(t)
      PROVE  TypeOK'
  <2>1. [call[t] EXCEPT !.pc = "status", !.res = cr] \in Calls
    BY DEF Calls, CallPCs
  <2> QED
    BY <1>0, <1>5, <2>1 DEF RegetResult, Return, detailVars, DetailsTypeOK
<1>6. ASSUME NEW t \in Thread, GetChaosStatus(t)
      PROVE  TypeOK'
  <2>1. [call[t] EXCEPT !.pc = "fill"] \in Calls
    BY DEF Calls, CallPCs
  <2>2. call' \in [Thread -> Calls]
    BY <1>0, <1>6, <2>1 DEF GetChaosStatus, Return, Step
  <2>3. targets' \subseteq Target \X ChaosStatus
    BY <1>6, ReportsTypeOK DEF GetChaosStatus
  <2> QED
    BY <1>6, <2>2, <2>3 DEF GetChaosStatus, detailVars, DetailsTypeOK
<1>7. ASSUME NEW t \in Thread, FillResult(t)
      PROVE  TypeOK'
  <2>1. Filled(call[t].res) \in Results
    BY DEF Filled, Calls, Results, DetailsTypeOK
  <2>2. [call[t] EXCEPT !.pc = "score", !.res = Filled(call[t].res),
                        !.allPassed = GetProbeStatus] \in Calls
    BY <2>1 DEF Calls, CallPCs, GetProbeStatus
  <2> QED
    BY <1>7, <2>2 DEF FillResult, detailVars, DetailsTypeOK
<1>8. ASSUME NEW t \in Thread, ScoreResult(t)
      PROVE  TypeOK'
  <2> DEFINE c == call[t]
  <2>1. c \in Calls /\ c.res \in Results
    BY DEF Calls
  <2>2. Judged(c) \in Verdicts
    BY DEF Judged, Verdicts, DetailsTypeOK
  <2>3. Scored(c) \in Results
    <3> DEFINE v == IF c.allPassed THEN c.res.verdict ELSE "Fail"
    <3> DEFINE s == CASE Judged(c) = "Pass" -> 100
                      [] Judged(c) \in {"Fail", "Stopped"} -> ProbeScore
                      [] OTHER -> c.res.score
    <3> DEFINE r == [o \in Outcome |-> IF o = Judged(c) THEN c.res.runs[o] + 1
                                       ELSE c.res.runs[o]]
    <3>1. v \in Verdicts
      BY <2>1 DEF Results, Verdicts
    <3>2. s \in Int
      BY <2>1, ScoreTypeOK DEF Results
    <3>3. r \in [Outcome -> Nat]
      BY <2>1 DEF Results
    <3>4. Scored(c) = [c.res EXCEPT !.verdict = v, !.score = s, !.runs = r]
      BY DEF Scored
    <3> HIDE DEF v, s, r
    <3> QED
      BY <2>1, <3>1, <3>2, <3>3, <3>4 DEF Results
  <2>4. [c EXCEPT !.pc = "update", !.res = Scored(c)] \in Calls
    BY <2>1, <2>3 DEF Calls, CallPCs
  <2>5. [c.res EXCEPT !.score = AwaitedScore] \in Results
    <3>1. AwaitedScore \in Int
      BY DEF AwaitedScore
    <3> HIDE DEF c
    <3> QED
      BY <2>1, <3>1, RescoredTypeOK
  <2>6. [c EXCEPT !.pc = "update", !.res.score = AwaitedScore] \in Calls
    BY <2>1, <2>5 DEF Calls, CallPCs
  <2>7. call' \in [Thread -> Calls]
    BY <1>8, <2>4, <2>6 DEF ScoreResult
  <2>8. DetailsTypeOK'
    BY <1>8, <2>2, AfterFailureTypeOK DEF ScoreResult, DetailsTypeOK
  <2> QED
    BY <1>8, <2>7, <2>8 DEF ScoreResult
<1>9. ASSUME NEW t \in Thread, UpdateResult(t)
      PROVE  TypeOK'
  <2>1. cr.rv + 1 \in Nat
    BY DEF Results
  <2>2. [call[t].res EXCEPT !.rv = cr.rv + 1] \in Results
    BY <2>1 DEF Calls, Results
  <2> QED
    BY <1>0, <1>9, <2>2, ProbeStatusTypeOK
       DEF UpdateResult, Return, detailVars, DetailsTypeOK
<1>10. ASSUME NEW x \in Target, NEW s \in ChaosStatus, AnnotateChaosResult(x, s)
       PROVE  TypeOK'
  <2>1. cr.rv + 1 \in Nat /\ cr.ann \in [Target -> ChaosStatus \union {NoStatus}]
    BY DEF Results
  <2>2. [cr.ann EXCEPT ![x] = s] \in [Target -> ChaosStatus \union {NoStatus}]
    BY <2>1
  <2>3. [cr EXCEPT !.ann[x] = s, !.rv = @ + 1] \in Results
    BY <2>1, <2>2 DEF Results
  <2> QED
    BY <1>10, <2>3 DEF AnnotateChaosResult, detailVars, DetailsTypeOK
<1>11. CASE NewProcess
  <2>1. probeDetails' \in [DOMAIN probes -> ProbeDetails]
    BY <1>11, InitialDetailsTypeOK, ProbeListsAssumption DEF NewProcess, DetailsTypeOK
  <2> QED
    BY <1>0, <1>11, <2>1
       DEF NewProcess, SetResultAttributes, DetailsTypeOK, Verdicts, ResultPhases
<1>12. CASE SetCompletion
  BY <1>12 DEF SetCompletion, SetResultAfterCompletion, resultVars, DetailsTypeOK,
               Verdicts, ResultPhases
<1>13. ASSUME NEW i \in DOMAIN probes, NEW e \in Errors, NEW ph, JudgeProbe(i, e, ph)
       PROVE  TypeOK'
  <2>1. DetailsTypeOK'
    BY <1>13, MarkedVerdictTypeOK DEF JudgeProbe
  <2> QED
    BY <1>13, <2>1 DEF JudgeProbe, resultVars
<1>14. CASE UNCHANGED vars
  BY <1>14 DEF vars, detailVars, resultVars, DetailsTypeOK
<1> QED
  BY <1>1, <1>2, <1>3, <1>4, <1>5, <1>6, <1>7, <1>8, <1>9, <1>10, <1>11, <1>12,
     <1>13, <1>14 DEF Next, ChaosResultStep, PatchChaosResult

\* ChaosResult keeps its types, whoever calls it and whatever fails.
THEOREM TypeCorrect == Spec => []TypeOK
  BY InitTypeOK, NextTypeOK, PTL DEF Spec

----------------------------------------------------------------------------
(* The inductive invariant *)

\* No call holds a version that the resource has not had.
VersionsKnown == \A t \in Thread : call[t].res.rv <= cr.rv

\* PatchChaosResult works on a resource that it has read.
PatchesWhatExists ==
  \A t \in Thread :
    /\ call[t].pc \in {"status", "fill", "score", "update"} => call[t].res.exists
    /\ call[t].pc = "reget" => cr.exists

\* The copy that is being scored or sent reports no more.
FilledIsCleared ==
  \A t \in Thread : call[t].pc \in {"score", "update"} =>
                      call[t].res.ann = [x \in Target |-> NoStatus]

\* A resource that does not exist yet is blank.
BlankUntilCreated ==
  ~cr.exists => /\ cr.runs = [o \in Outcome |-> 0]
                /\ cr.ann = [x \in Target |-> NoStatus]
                /\ cr.targets = {}

Inv ==
  /\ TypeOK
  /\ VersionsKnown
  /\ PatchesWhatExists
  /\ FilledIsCleared
  /\ BlankUntilCreated
  /\ SnapshotsAreCurrent


\* A copy that a write has overtaken, or that was never made, is current by
\* definition.
LEMMA OvertakenIsCurrent ==
  ASSUME NEW t \in Thread, ~(call'[t].res.exists /\ call'[t].res.rv = cr'.rv)
  PROVE  SnapshotIsCurrent(t)'
  BY DEF SnapshotIsCurrent

\* A call stays current in a step that leaves it and the resource alone and
\* loses no target.
LEMMA UntouchedIsCurrent ==
  ASSUME NEW t \in Thread, SnapshotIsCurrent(t), call'[t] = call[t], cr' = cr,
         targets \subseteq targets'
  PROVE  SnapshotIsCurrent(t)'
  BY DEF SnapshotIsCurrent, Taken, Reports

\* The invariant holds initially.
LEMMA InitInv == Init => Inv
<1> SUFFICES ASSUME Init PROVE Inv
  OBVIOUS
<1>1. TypeOK
  BY InitTypeOK
<1>2. /\ cr = NoResult
      /\ \A t \in Thread : call[t] = IdleCall(Nil)
  BY DEF Init, ResultInit
<1>3. /\ IdleCall(Nil).pc = "idle" /\ IdleCall(Nil).res = NoResult
      /\ ~NoResult.exists /\ NoResult.rv = 0
      /\ NoResult.runs = [o \in Outcome |-> 0]
      /\ NoResult.ann = [x \in Target |-> NoStatus] /\ NoResult.targets = {}
  BY DEF IdleCall, NoResult
<1> QED
  BY <1>1, <1>2, <1>3 DEF Inv, VersionsKnown, PatchesWhatExists, FilledIsCleared,
     BlankUntilCreated, SnapshotsAreCurrent, SnapshotIsCurrent

\* A write gives the resource a version above that of every copy.
LEMMA WriteOvertakes ==
  ASSUME Inv, cr'.rv = cr.rv + 1, NEW t \in Thread, call'[t] = call[t]
  PROVE  call'[t].res.rv <= cr'.rv /\ call'[t].res.rv # cr'.rv
  BY DEF Inv, TypeOK, VersionsKnown, Results, Calls

\* u's call is left alone, or has just returned or started.
IdleOrUntouched(u) ==
  \/ call'[u] = call[u]
  \/ /\ call'[u].pc \in {"idle", "get"}
     /\ ~call'[u].res.exists /\ call'[u].res.rv = 0

\* The invariant of one thread.
InvOf(u) ==
  /\ call[u].res.rv <= cr.rv
  /\ call[u].pc \in {"status", "fill", "score", "update"} => call[u].res.exists
  /\ call[u].pc = "reget" => cr.exists
  /\ call[u].pc \in {"score", "update"} => call[u].res.ann = [x \in Target |-> NoStatus]
  /\ SnapshotIsCurrent(u)

\* The invariant, taken apart by thread ...
LEMMA InvByThread ==
  Inv <=> TypeOK /\ BlankUntilCreated /\ \A u \in Thread : InvOf(u)
  BY DEF Inv, InvOf, VersionsKnown, PatchesWhatExists, FilledIsCleared,
         SnapshotsAreCurrent

\* ... and put together again after a step.
LEMMA InvByThreadNext ==
  ASSUME TypeOK', BlankUntilCreated', \A u \in Thread : InvOf(u)'
  PROVE  Inv'
  BY DEF Inv, InvOf, VersionsKnown, PatchesWhatExists, FilledIsCleared,
         SnapshotsAreCurrent

\* What a step need not touch: a call that it leaves alone or that returns
\* or starts in it, while the resource is left alone and no target is lost.
LEMMA QuietStep ==
  ASSUME Inv, NEW u \in Thread, IdleOrUntouched(u), cr' = cr, targets \subseteq targets'
  PROVE  InvOf(u)'
<1>1. InvOf(u) /\ cr.rv \in Nat
  BY InvByThread DEF TypeOK, Results
<1>2. CASE call'[u] = call[u]
  BY <1>1, <1>2, UntouchedIsCurrent DEF InvOf
<1>3. CASE /\ call'[u].pc \in {"idle", "get"}
           /\ ~call'[u].res.exists /\ call'[u].res.rv = 0
  BY <1>1, <1>3, OvertakenIsCurrent DEF InvOf
<1> QED
  BY <1>2, <1>3 DEF IdleOrUntouched

\* ... and while the resource is written.
LEMMA WritingStep ==
  ASSUME Inv, NEW u \in Thread, IdleOrUntouched(u), cr'.rv = cr.rv + 1, cr'.exists
  PROVE  InvOf(u)'
<1>1. InvOf(u) /\ cr.rv \in Nat /\ call[u].res.rv \in Nat
  BY InvByThread DEF TypeOK, Results, Calls
<1>2. CASE call'[u] = call[u]
  BY <1>1, <1>2, WriteOvertakes, OvertakenIsCurrent DEF InvOf
<1>3. CASE /\ call'[u].pc \in {"idle", "get"}
           /\ ~call'[u].res.exists /\ call'[u].res.rv = 0
  BY <1>1, <1>3, OvertakenIsCurrent DEF InvOf
<1> QED
  BY <1>2, <1>3 DEF IdleOrUntouched

\* A thread that returns leaves the calls of the others alone.
LEMMA ReturnIsIdle ==
  ASSUME TypeOK, NEW t \in Thread, NEW ret, Return(t, ret), NEW u \in Thread
  PROVE  IdleOrUntouched(u)
  BY DEF Return, IdleCall, NoResult, IdleOrUntouched, TypeOK

\* Every step keeps the invariant.
LEMMA NextInv == Inv /\ [Next]_vars => Inv'
<1> SUFFICES ASSUME Inv, [Next]_vars PROVE Inv'
  OBVIOUS
<1>0. TypeOK /\ BlankUntilCreated /\ (\A u \in Thread : InvOf(u)) /\ TypeOK'
  BY InvByThread, NextTypeOK
<1> USE <1>0
<1>1. ASSUME NEW t \in Thread, NEW s \in {"SOT", "EOT"}, CallChaosResult(t, s)
      PROVE  Inv'
  <2>1. \A u \in Thread : IdleOrUntouched(u)
    BY <1>1 DEF CallChaosResult, IdleCall, NoResult, IdleOrUntouched, TypeOK
  <2> QED
    BY <1>1, <2>1, QuietStep, InvByThreadNext DEF CallChaosResult, BlankUntilCreated
<1>2. ASSUME NEW t \in Thread, GetResult(t)
      PROVE  Inv'
  <2>1. cr' = cr /\ targets' = targets
    BY <1>2 DEF GetResult
  <2>2. CASE Return(t, Err)
    BY <2>1, <2>2, ReturnIsIdle, QuietStep, InvByThreadNext DEF BlankUntilCreated
  <2>3. CASE call' = [call EXCEPT ![t].pc = "labels", ![t].res = cr]
    <3>1. InvOf(t)'
      BY <2>1, <2>3 DEF InvOf, SnapshotIsCurrent, TypeOK, Results
    <3>2. \A u \in Thread \ {t} : IdleOrUntouched(u)
      BY <2>3 DEF IdleOrUntouched, TypeOK
    <3> QED
      BY <2>1, <3>1, <3>2, QuietStep, InvByThreadNext DEF BlankUntilCreated
  <2> QED
    BY <1>2, <2>2, <2>3 DEF GetResult
<1>3. ASSUME NEW t \in Thread, FetchLabels(t)
      PROVE  Inv'
  <2>1. cr' = cr /\ targets' = targets
    BY <1>3 DEF FetchLabels
  <2>2. CASE Return(t, Err)
    BY <2>1, <2>2, ReturnIsIdle, QuietStep, InvByThreadNext DEF BlankUntilCreated
  <2>3. CASE Step(t, IF call[t].res.exists THEN "status" ELSE "create")
    <3>1. InvOf(t)'
      BY <1>3, <2>1, <2>3 DEF FetchLabels, Step, InvOf, SnapshotIsCurrent, TypeOK, Calls
    <3>2. \A u \in Thread \ {t} : IdleOrUntouched(u)
      BY <2>3 DEF Step, IdleOrUntouched, TypeOK
    <3> QED
      BY <2>1, <3>1, <3>2, QuietStep, InvByThreadNext DEF BlankUntilCreated
  <2> QED
    BY <1>3, <2>2, <2>3 DEF FetchLabels
<1>4. ASSUME NEW t \in Thread, CreateResult(t)
      PROVE  Inv'
  <2>1. targets' = targets
    BY <1>4 DEF CreateResult
  <2>2. CASE cr' = cr /\ Return(t, Nil)
    BY <2>1, <2>2, ReturnIsIdle, QuietStep, InvByThreadNext DEF BlankUntilCreated
  <2>3. CASE cr.exists /\ cr' = cr /\ Step(t, "reget")
    <3>1. InvOf(t)'
      BY <1>4, <2>1, <2>3 DEF CreateResult, Step, InvOf, SnapshotIsCurrent, TypeOK, Calls
    <3>2. \A u \in Thread \ {t} : IdleOrUntouched(u)
      BY <2>3 DEF Step, IdleOrUntouched, TypeOK
    <3> QED
      BY <2>1, <2>3, <3>1, <3>2, QuietStep, InvByThreadNext DEF BlankUntilCreated
  <2>4. CASE /\ cr' = [NoResult EXCEPT !.exists = TRUE, !.rv = cr.rv + 1,
                                       !.phase = phase, !.verdict = verdict]
             /\ Return(t, Nil)
    <3>1. cr'.exists /\ cr'.rv = cr.rv + 1
      BY <2>4 DEF NoResult
    <3> QED
      BY <2>4, <3>1, ReturnIsIdle, WritingStep, InvByThreadNext DEF BlankUntilCreated
  <2> QED
    BY <1>4, <2>2, <2>3, <2>4 DEF CreateResult
<1>5. ASSUME NEW t \in Thread, RegetResult(t)
      PROVE  Inv'
  <2>1. cr' = cr /\ targets' = targets
    BY <1>5 DEF RegetResult
  <2>2. CASE Return(t, Err)
    BY <2>1, <2>2, ReturnIsIdle, QuietStep, InvByThreadNext DEF BlankUntilCreated
  <2>3. CASE call' = [call EXCEPT ![t].pc = "status", ![t].res = cr]
    <3>1. InvOf(t)'
      BY <1>5, <2>1, <2>3 DEF RegetResult, InvOf, SnapshotIsCurrent, TypeOK, Results
    <3>2. \A u \in Thread \ {t} : IdleOrUntouched(u)
      BY <2>3 DEF IdleOrUntouched, TypeOK
    <3> QED
      BY <2>1, <3>1, <3>2, QuietStep, InvByThreadNext DEF BlankUntilCreated
  <2> QED
    BY <1>5, <2>2, <2>3 DEF RegetResult
<1>6. ASSUME NEW t \in Thread, GetChaosStatus(t)
      PROVE  Inv'
  <2>1. cr' = cr /\ targets \subseteq targets'
    BY <1>6 DEF GetChaosStatus
  <2>2. CASE Return(t, Err)
    BY <2>1, <2>2, ReturnIsIdle, QuietStep, InvByThreadNext DEF BlankUntilCreated
  <2>3. CASE /\ targets' = targets \union Reports(cr)
             /\ Step(t, "fill")
    <3>1. InvOf(t)'
      BY <1>6, <2>1, <2>3 DEF GetChaosStatus, Step, InvOf, SnapshotIsCurrent, Taken,
                              Reports, TypeOK, Calls
    <3>2. \A u \in Thread \ {t} : IdleOrUntouched(u)
      BY <2>3 DEF Step, IdleOrUntouched, TypeOK
    <3> QED
      BY <2>1, <3>1, <3>2, QuietStep, InvByThreadNext DEF BlankUntilCreated
  <2> QED
    BY <1>6, <2>2, <2>3 DEF GetChaosStatus
<1>7. ASSUME NEW t \in Thread, FillResult(t)
      PROVE  Inv'
  <2>1. cr' = cr /\ targets' = targets
    BY <1>7 DEF FillResult
  <2>2. /\ call'[t].pc = "score" /\ call'[t].res = Filled(call[t].res)
        /\ call[t].pc = "fill" /\ call[t].res \in Results
    BY <1>7 DEF FillResult, TypeOK, Calls
  <2>3. /\ Filled(call[t].res).exists = call[t].res.exists
        /\ Filled(call[t].res).rv = call[t].res.rv
        /\ Filled(call[t].res).runs = call[t].res.runs
        /\ Filled(call[t].res).targets = targets
        /\ Filled(call[t].res).ann = [x \in Target |-> NoStatus]
    BY <2>2 DEF Filled, Results
  <2>4. InvOf(t)'
    BY <2>1, <2>2, <2>3 DEF InvOf, SnapshotIsCurrent, Taken, Reports
  <2>5. \A u \in Thread \ {t} : IdleOrUntouched(u)
    BY <1>7 DEF FillResult, IdleOrUntouched, TypeOK
  <2> QED
    BY <2>1, <2>4, <2>5, QuietStep, InvByThreadNext DEF BlankUntilCreated
<1>8. ASSUME NEW t \in Thread, ScoreResult(t)
      PROVE  Inv'
  <2> DEFINE c == call[t]
  <2>1. cr' = cr /\ targets' = targets
    BY <1>8 DEF ScoreResult
  <2>2. c.pc = "score" /\ c \in Calls /\ c.res \in Results
    BY <1>8 DEF ScoreResult, TypeOK, Calls
  <2>3. \/ call'[t] = [c EXCEPT !.pc = "update", !.res = Scored(c)]
        \/ call'[t] = [c EXCEPT !.pc = "update", !.res.score = AwaitedScore]
    BY <1>8 DEF ScoreResult, TypeOK
  <2>4. \/ Scored(c).runs = c.res.runs
        \/ \E o \in Outcome : Scored(c).runs = [c.res.runs EXCEPT ![o] = @ + 1]
    <3>1. Scored(c).runs = [o \in Outcome |-> IF o = Judged(c) THEN c.res.runs[o] + 1
                                             ELSE c.res.runs[o]]
      BY <2>2 DEF Scored, Results
    <3>2. c.res.runs \in [Outcome -> Nat]
      BY <2>2 DEF Results
    <3>3. CASE Judged(c) \in Outcome
      <4>1. Scored(c).runs = [c.res.runs EXCEPT ![Judged(c)] = @ + 1]
        BY <3>1, <3>2
      <4> QED
        BY <3>3, <4>1
    <3>4. CASE Judged(c) \notin Outcome
      <4>1. Scored(c).runs = c.res.runs
        BY <3>1, <3>2, <3>4
      <4> QED
        BY <4>1
    <3> QED
      BY <3>3, <3>4
  <2>5. /\ Scored(c).exists = c.res.exists /\ Scored(c).rv = c.res.rv
        /\ Scored(c).targets = c.res.targets /\ Scored(c).ann = c.res.ann
    BY <2>2 DEF Scored, Results
  <2>6. /\ call'[t].pc = "update"
        /\ call'[t].res.exists = c.res.exists /\ call'[t].res.rv = c.res.rv
        /\ call'[t].res.targets = c.res.targets /\ call'[t].res.ann = c.res.ann
        /\ \/ call'[t].res.runs = c.res.runs
           \/ \E o \in Outcome : call'[t].res.runs = [c.res.runs EXCEPT ![o] = @ + 1]
    <3>1. CASE call'[t] = [c EXCEPT !.pc = "update", !.res = Scored(c)]
      <4>1. call'[t].pc = "update" /\ call'[t].res = Scored(c)
        BY <2>2, <3>1 DEF Calls
      <4> QED
        BY <2>4, <2>5, <4>1
    <3>2. CASE call'[t] = [c EXCEPT !.pc = "update", !.res.score = AwaitedScore]
      BY <2>2, <3>2 DEF Calls, Results
    <3> QED
      BY <2>3, <3>1, <3>2
  <2>7. InvOf(t)'
    BY <2>1, <2>2, <2>6 DEF InvOf, SnapshotIsCurrent, Taken, Reports
  <2>8. \A u \in Thread \ {t} : IdleOrUntouched(u)
    BY <1>8 DEF ScoreResult, IdleOrUntouched, TypeOK
  <2> QED
    BY <2>1, <2>7, <2>8, QuietStep, InvByThreadNext DEF BlankUntilCreated
<1>9. ASSUME NEW t \in Thread, UpdateResult(t)
      PROVE  Inv'
  <2>1. CASE cr' = cr /\ Return(t, Err)
    BY <1>9, <2>1, ReturnIsIdle, QuietStep, InvByThreadNext DEF UpdateResult, BlankUntilCreated
  <2>2. CASE /\ cr' = [call[t].res EXCEPT !.rv = cr.rv + 1]
             /\ Return(t, Nil) \/ UNCHANGED call
    <3>1. cr'.exists /\ cr'.rv = cr.rv + 1
      BY <1>9, <2>2 DEF UpdateResult, InvOf, TypeOK, Calls, Results
    <3>2. \A u \in Thread : IdleOrUntouched(u)
      BY <2>2, ReturnIsIdle DEF IdleOrUntouched
    <3> QED
      BY <3>1, <3>2, WritingStep, InvByThreadNext DEF BlankUntilCreated
  <2> QED
    BY <1>9, <2>1, <2>2 DEF UpdateResult
<1>10. ASSUME NEW x \in Target, NEW s \in ChaosStatus, AnnotateChaosResult(x, s)
       PROVE  Inv'
  <2>1. cr'.exists /\ cr'.rv = cr.rv + 1
    BY <1>10 DEF AnnotateChaosResult, TypeOK, Results
  <2>2. \A u \in Thread : IdleOrUntouched(u)
    BY <1>10 DEF AnnotateChaosResult, IdleOrUntouched
  <2> QED
    BY <2>1, <2>2, WritingStep, InvByThreadNext DEF BlankUntilCreated
<1>11. CASE NewProcess
  <2>1. \A u \in Thread : call'[u] = IdleCall(Nil)
    BY <1>11 DEF NewProcess
  <2>2. \A u \in Thread : InvOf(u)'
    <3> SUFFICES ASSUME NEW u \in Thread PROVE InvOf(u)'
      OBVIOUS
    <3>1. /\ call'[u].pc = "idle" /\ ~call'[u].res.exists /\ call'[u].res.rv = 0
      BY <2>1 DEF IdleCall, NoResult
    <3>2. cr' = cr /\ cr.rv \in Nat
      BY <1>11 DEF NewProcess, TypeOK, Results
    <3> QED
      BY <3>1, <3>2, OvertakenIsCurrent DEF InvOf
  <2> QED
    BY <1>11, <2>2, InvByThreadNext DEF NewProcess, BlankUntilCreated
<1>12. CASE SetCompletion \/ UNCHANGED vars
  <2>1. cr' = cr /\ call' = call /\ targets' = targets
    BY <1>12 DEF SetCompletion, resultVars, vars
  <2> QED
    BY <2>1, QuietStep, InvByThreadNext DEF IdleOrUntouched, BlankUntilCreated
<1>13. ASSUME NEW i \in DOMAIN probes, NEW e \in Errors, NEW ph, JudgeProbe(i, e, ph)
       PROVE  Inv'
  <2>1. cr' = cr /\ call' = call /\ targets' = targets
    BY <1>13 DEF JudgeProbe, resultVars
  <2> QED
    BY <2>1, QuietStep, InvByThreadNext DEF IdleOrUntouched, BlankUntilCreated
<1> QED
  BY <1>1, <1>2, <1>3, <1>4, <1>5, <1>6, <1>7, <1>8, <1>9, <1>10, <1>11, <1>12,
     <1>13 DEF Next, ChaosResultStep, PatchChaosResult

\* The inductive invariant is one.
THEOREM Invariance == Spec => []Inv
  BY InitInv, NextInv, PTL DEF Spec

\* As long as nobody has written the resource in between, the copy that a
\* call to ChaosResult works on holds the current history and will publish
\* every status that helpers have reported.
THEOREM SnapshotsCorrect == Spec => []SnapshotsAreCurrent
<1>1. Inv => SnapshotsAreCurrent
  BY DEF Inv
<1> QED
  BY <1>1, Invariance, PTL

----------------------------------------------------------------------------
(* Refinement *)

\* A resource that does not exist yet is an empty ledger.
LEMMA InitRefines == Init => Ledger!LedgerInit
  BY DEF Init, ResultInit, NoResult, Ledger!LedgerInit, NoStatus, Ledger!NoStatus

\* An update that the API server accepts is a publication: its copy has the
\* version of the resource, so it is current (SnapshotsAreCurrent).
LEMMA UpdateRefines ==
  ASSUME Inv, NEW t \in Thread, UpdateResult(t)
  PROVE  [Ledger!LedgerNext]_(Ledger!ledgerVars)
<1>1. CASE cr' = cr
  BY <1>1 DEF Ledger!ledgerVars
<1>2. CASE /\ cr.rv = call[t].res.rv
           /\ cr' = [call[t].res EXCEPT !.rv = cr.rv + 1]
  <2> DEFINE r == call[t].res
  <2>1. r \in Results /\ cr \in Results
    BY DEF Inv, TypeOK, Calls
  <2>2. call[t].pc = "update" /\ r.exists /\ SnapshotIsCurrent(t)
    BY InvByThread DEF InvOf, UpdateResult
  <2>3. /\ r.ann = [x \in Target |-> NoStatus]
        /\ Reports(cr) \subseteq r.targets
        /\ \/ r.runs = cr.runs
           \/ \E o \in Outcome : r.runs = [cr.runs EXCEPT ![o] = @ + 1]
    BY <1>2, <2>2, InvByThread DEF InvOf, SnapshotIsCurrent, Taken
  <2>4. cr'.runs = r.runs /\ cr'.ann = r.ann /\ cr'.targets = r.targets
    BY <1>2, <2>1 DEF Results
  <2>5. Ledger!Reports = Reports(cr)
    BY DEF Ledger!Reports, Reports, NoStatus, Ledger!NoStatus
  <2>6. r.targets \subseteq Target \X ChaosStatus
    BY <2>1 DEF Results
  <2>7. Ledger!Publish
    BY <2>3, <2>4, <2>5, <2>6 DEF Ledger!Publish, NoStatus, Ledger!NoStatus
  <2> QED
    BY <2>7 DEF Ledger!LedgerNext
<1> QED
  BY <1>1, <1>2 DEF UpdateResult

\* Creating the resource changes nothing that the ledger knows of.
LEMMA CreateRefines ==
  ASSUME Inv, NEW t \in Thread, CreateResult(t)
  PROVE  UNCHANGED Ledger!ledgerVars
<1>1. CASE cr' = cr
  BY <1>1 DEF Ledger!ledgerVars
<1>2. CASE /\ ~cr.exists
           /\ cr' = [NoResult EXCEPT !.exists = TRUE, !.rv = cr.rv + 1,
                                     !.phase = phase, !.verdict = verdict]
  <2>1. /\ cr.runs = [o \in Outcome |-> 0] /\ cr.targets = {}
        /\ cr.ann = [x \in Target |-> NoStatus]
    BY <1>2 DEF Inv, BlankUntilCreated
  <2>2. /\ cr'.runs = [o \in Outcome |-> 0] /\ cr'.targets = {}
        /\ cr'.ann = [x \in Target |-> NoStatus]
    BY <1>2 DEF NoResult
  <2> QED
    BY <2>1, <2>2 DEF Ledger!ledgerVars
<1> QED
  BY <1>1, <1>2 DEF CreateResult

\* An annotation is a report.
LEMMA AnnotateRefines ==
  ASSUME Inv, NEW x \in Target, NEW s \in ChaosStatus, AnnotateChaosResult(x, s)
  PROVE  Ledger!LedgerNext
<1>1. cr \in Results
  BY DEF Inv, TypeOK
<1>2. /\ cr'.ann = [cr.ann EXCEPT ![x] = s] /\ cr'.runs = cr.runs
      /\ cr'.targets = cr.targets
  BY <1>1 DEF AnnotateChaosResult, Results
<1>3. Ledger!Report(x, s)
  BY <1>2 DEF Ledger!Report
<1> QED
  BY <1>3 DEF Ledger!LedgerNext

\* Every step is a step of the ledger or leaves it alone.
LEMMA NextRefines == Inv /\ [Next]_vars => [Ledger!LedgerNext]_(Ledger!ledgerVars)
<1> SUFFICES ASSUME Inv, [Next]_vars
             PROVE  [Ledger!LedgerNext]_(Ledger!ledgerVars)
  OBVIOUS
<1>1. ASSUME NEW t \in Thread, CreateResult(t)
      PROVE  UNCHANGED Ledger!ledgerVars
  BY <1>1, CreateRefines
<1>2. ASSUME NEW t \in Thread, UpdateResult(t)
      PROVE  [Ledger!LedgerNext]_(Ledger!ledgerVars)
  BY <1>2, UpdateRefines
<1>3. ASSUME NEW x \in Target, NEW s \in ChaosStatus, AnnotateChaosResult(x, s)
      PROVE  Ledger!LedgerNext
  BY <1>3, AnnotateRefines
<1>4. CASE UNCHANGED cr
  BY <1>4 DEF Ledger!ledgerVars
<1>5. ASSUME NEW t \in Thread,
             \/ \E s \in {"SOT", "EOT"} : CallChaosResult(t, s)
             \/ GetResult(t) \/ FetchLabels(t) \/ RegetResult(t)
             \/ GetChaosStatus(t) \/ FillResult(t) \/ ScoreResult(t)
      PROVE  UNCHANGED cr
  BY <1>5 DEF CallChaosResult, GetResult, FetchLabels, RegetResult, GetChaosStatus,
              FillResult, ScoreResult
<1>6. ASSUME \/ NewProcess \/ SetCompletion \/ UNCHANGED vars
             \/ \E i \in DOMAIN probes, e \in Errors, ph \in {"PreChaos", "PostChaos"} :
                  JudgeProbe(i, e, ph)
      PROVE  UNCHANGED cr
  BY <1>6 DEF NewProcess, SetCompletion, JudgeProbe, vars, resultVars
<1> QED
  BY <1>1, <1>2, <1>3, <1>4, <1>5, <1>6 DEF Next, ChaosResultStep, PatchChaosResult

\* The reads and writes of ChaosResult, whoever interleaves them, dies between
\* them or loses their answers, implement a ledger of runs with atomic steps:
\* no run is dropped from the history, none is counted twice in one
\* publication, and no report about a target is lost.
THEOREM Refinement == Spec => ImplementsLedger
  BY InitRefines, NextRefines, Invariance, PTL
     DEF Spec, ImplementsLedger, Ledger!LedgerSpec
=============================================================================
