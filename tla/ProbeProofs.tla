---------------------------- MODULE ProbeProofs ----------------------------
(***************************************************************************)
(* Proofs about Probe, for any list of probes: its type invariant, the     *)
(* invariants of its verdicts and pods, the bound of its score, and that a *)
(* recorded failure is reported.  The inductive invariant says where main   *)
(* can be, which probes it has passed in this phase, and what of them is   *)
(* settled; err is taken for what main last stored, which it is if nothing *)
(* has raced.                                                               *)
(***************************************************************************)
EXTENDS Probe, FiniteSetTheorems, TLAPS

----------------------------------------------------------------------------
(* The inductive invariant *)

IsForeground(i) == probes[i].mode \in ForegroundModes
IsBackground(i) == probes[i].mode \in BackgroundModes

\* The phases in which main evaluates a probe, and in which it launches its goroutine.
Evaluates(ph, mode) ==
  \/ ph = "PreChaos" /\ mode \in {"SOT", "Edge"}
  \/ ph = "PostChaos" /\ mode \in {"EOT", "Edge"}
Launches(ph, mode) ==
  \/ ph = "PreChaos" /\ mode = "Continuous"
  \/ ph = "DuringChaos" /\ mode = "OnChaos"

\* A probe's verdict is given in the first case by main's evaluation, in the second by what its
\* goroutine has recorded.
Judges(ph, mode) == Evaluates(ph, mode) \/ (ph = "PostChaos" /\ mode \in BackgroundModes)

Between == {"idle", "fetch", "next"}
Judged == {"keep", "kept", "deletePod", "assign", "decide"}

\* Where main can be.
ControlOK ==
  /\ run.pc \notin Between => run.idx \in DOMAIN probes
  /\ run.phase = "none" => run.pc = "idle" /\ run.ret = Nil
  /\ run.ret = Err => run.pc = "idle"
  /\ ~run.strict =>
       /\ run.phase = "PostChaos" /\ run.pc \notin {"idle", "fetch"}
       /\ run.pc \notin Between => IsBackground(run.idx)
  /\ run.pc = "fetch" => run.idx = 1
  /\ run.pc \in {"createPod", "checkPod", "podChecked"} =>
       cur.source /\ (Evaluates(run.phase, cur.mode) \/ Launches(run.phase, cur.mode))
  /\ run.pc \in {"trigger", "compare"} => Evaluates(run.phase, cur.mode)
  /\ run.pc \in {"mark", "keep", "kept", "deletePod"} => Judges(run.phase, cur.mode)
  /\ run.pc = "deletePod" => cur.source
  /\ run.pc \in {"keep", "kept"} /\ run.then = "deletePod" => cur.source

\* Main has had its turn at probe i in this loop.
Past(i) == run.pc = "idle" \/ i < run.idx \/ (i = run.idx /\ run.pc \in Judged)

\* The goroutine of a background probe runs, or has run, once main has launched it.
Launched(i) ==
  \/ probes[i].mode = "Continuous" /\ run.phase \in {"DuringChaos", "PostChaos"}
  \/ probes[i].mode = "OnChaos" /\ run.phase = "PostChaos"
  \/ Launches(run.phase, probes[i].mode) /\ Past(i)

PollerOK ==
  \A i \in DOMAIN probes :
    /\ poller[i] # "none" => IsBackground(i) /\ Launched(i)
    /\ poller[i] \in {"stop", "mark", "patch"} => probes[i].stopOnFailure

\* A pod serves a probe with a source image.
PodsOK == \A i \in DOMAIN probes : probePod[i] # "none" => probes[i].source

\* Main is about to mark the verdict of the last evaluation.
EvaluationOK ==
  ~raced /\ run.pc = "mark" /\ IsForeground(run.idx)
    => lastEval[run.idx] = (IF OwnErr THEN run.local ELSE wrote[Main])

\* A status that is awaited will be given.
StatusOK ==
  \A i \in DOMAIN probes, k \in StatusKeys :
    probeDetails[i].status[k] = "Awaited" => k \in StatusKeysOf(probes[i].mode)

\* What is settled when main has passed probe i without an error.
Given(i, k) == probeDetails[i].phase # "N/A" /\ probeDetails[i].status[k] # "Awaited"
SettledBefore(i) ==
  probes[i].mode \in {"SOT", "Edge"} =>
    Given(i, "PreChaos")
      /\ (probes[i].stopOnFailure => probeDetails[i].status["PreChaos"] = "Passed")
SettledAfter(i) ==
  /\ probes[i].mode \in {"EOT", "Edge"} => Given(i, "PostChaos")
  /\ IsBackground(i) => Given(i, probes[i].mode)
SettledIn(ph, i) ==
  /\ ph = "PreChaos" => SettledBefore(i)
  /\ ph = "PostChaos" => SettledAfter(i)

\* The error that main carries along from a probe.
Carried == CASE run.pc \in {"kept", "decide"} -> wrote[Main]
             [] run.pc \in {"keep", "assign"} -> run.local
             [] OTHER                         -> Nil

VerdictsGiven ==
  ~raced =>
    /\ run.phase \in {"DuringChaos", "PostChaos"} => \A i \in DOMAIN probes : SettledBefore(i)
    /\ run.strict /\ run.pc # "idle" =>
         \A i \in DOMAIN probes : i < run.idx => SettledIn(run.phase, i)
    /\ run.strict /\ run.pc \in Judged /\ Carried = Nil => SettledIn(run.phase, run.idx)
    /\ run.pc = "idle" /\ run.ret = Nil => \A i \in DOMAIN probes : SettledIn(run.phase, i)

\* The pod of the probe that main is at may run, or that of one with an error.
MayRun ==
  \/ run.pc \in {"checkPod", "podChecked", "trigger", "compare", "mark", "deletePod"}
  \/ run.pc \in {"keep", "kept"} /\ run.then = "deletePod"
  \/ run.pc \in Judged /\ Carried = Err

ForegroundPods ==
  ~raced /\ run.ret = Nil =>
    \A i \in DOMAIN probes :
      IsForeground(i) /\ probePod[i] = "running" => i = run.idx /\ MayRun

BackgroundPods ==
  ~raced /\ run.ret = Nil /\ run.phase = "PostChaos" /\ run.strict /\ run.pc # "fetch" =>
    \A i \in DOMAIN probes :
      IsBackground(i) /\ probePod[i] = "running"
        => run.pc # "idle" /\ i >= run.idx /\ (i = run.idx => run.pc \in Between \/ MayRun)

\* The probes whose verdicts may have added to the score: in the loop that evaluates them,
\* in the second PostChaos loop, and by their goroutines.
Scored ==
  {i \in DOMAIN probes :
     \/ probes[i].mode = "SOT" /\ (run.phase \in {"DuringChaos", "PostChaos"}
                                   \/ (run.phase = "PreChaos" /\ Past(i)))
     \/ probes[i].mode \in {"EOT", "Edge"} /\ run.phase = "PostChaos" /\ run.strict /\ Past(i)
     \/ IsBackground(i) /\ run.phase = "PostChaos"
          /\ ((run.strict /\ run.pc # "fetch") \/ Past(i))}
ScoredTwice ==
  {i \in DOMAIN probes :
     IsBackground(i) /\ run.phase = "PostChaos" /\ run.strict /\ run.pc # "fetch" /\ Past(i)}
ScoredByPoller == {i \in DOMAIN probes : poller[i] \in {"patch", "done"} /\ probes[i].stopOnFailure}

ScoreOK ==
  passedProbeCount <= Cardinality(Scored) + Cardinality(ScoredTwice) + Cardinality(ScoredByPoller)

IInv ==
  /\ TypeOK /\ ControlOK /\ PollerOK /\ PodsOK
  /\ EvaluationOK /\ VerdictsAreRight
  /\ StatusOK /\ VerdictsGiven /\ ForegroundPods /\ BackgroundPods /\ ScoreOK

----------------------------------------------------------------------------
(* Facts about one step *)

LEMMA ProbesOK ==
  ASSUME TypeOK
  PROVE  /\ probes \in Seq(ProbeAttributes) /\ Len(probes) \in Nat /\ DOMAIN probes = 1 .. Len(probes)
         /\ \A i \in DOMAIN probes : /\ i \in Nat /\ i > 0
                                     /\ probes[i].mode \in Modes /\ probes[i].type \in ProbeTypes
                                     /\ probes[i].source \in BOOLEAN /\ probes[i].stopOnFailure \in BOOLEAN
<1>1. probes \in Seq(ProbeAttributes)
  BY ProbeListsAssumption DEF TypeOK, DetailsTypeOK
<1> QED
  BY <1>1 DEF ProbeAttributes

\* The activation of RunProbes after a step.
Runs(n) == [phase : Phases \union {"none"}, pc : RunPCs, strict : BOOLEAN,
            idx : 1 .. n + 1, local : Errors,
            then : {"assign", "deletePod"}, failed : BOOLEAN, ret : Errors]
RunIs(ph, pc, strict, idx, local, then, ret) ==
  /\ run' \in Runs(Len(probes))
  /\ run'.phase = ph /\ run'.pc = pc /\ run'.strict = strict /\ run'.idx = idx
  /\ run'.local = local /\ run'.then = then /\ run'.ret = ret

LEMMA GotoIs ==
  ASSUME TypeOK, NEW pc \in RunPCs, Goto(pc)
  PROVE  RunIs(run.phase, pc, run.strict, run.idx, run.local, run.then, run.ret)
  BY DEF TypeOK, Goto, RunIs, Runs

LEMMA LocalIs ==
  ASSUME TypeOK, NEW pc \in RunPCs, NEW e \in Errors, run' = [run EXCEPT !.pc = pc, !.local = e]
  PROVE  RunIs(run.phase, pc, run.strict, run.idx, e, run.then, run.ret)
  BY DEF TypeOK, RunIs, Runs

LEMMA IdleIs ==
  ASSUME TypeOK, NEW ph \in Phases \union {"none"}, NEW pc \in RunPCs, NEW e \in Errors,
         run' = [Idle(ph, e) EXCEPT !.pc = pc]
  PROVE  RunIs(ph, pc, TRUE, 1, Nil, "assign", e)
<1>1. Len(probes) \in Nat
  BY ProbesOK
<1>2. 1 \in 1 .. Len(probes) + 1
  BY <1>1
<1> QED
  BY <1>2 DEF TypeOK, RunIs, Runs, Idle, Errors

LEMMA ReturnIs ==
  ASSUME TypeOK, NEW e \in Errors, Return(e)
  PROVE  RunIs(run.phase, "idle", TRUE, 1, Nil, "assign", e)
<1>1. Len(probes) \in Nat
  BY ProbesOK
<1>2. 1 \in 1 .. Len(probes) + 1
  BY <1>1
<1> QED
  BY <1>2 DEF TypeOK, Return, RunIs, Runs, RunPCs, Idle, Errors

LEMMA KeepIs ==
  ASSUME TypeOK, NEW e \in Errors, NEW then \in {"assign", "deletePod"}, Keep(e, then)
  PROVE  RunIs(run.phase, IF ~ReturnsOwnErr THEN "keep" ELSE IF e = Nil THEN then ELSE "assign",
               run.strict, run.idx, e, then, run.ret)
  BY DEF TypeOK, Keep, RunIs, Runs, RunPCs

LEMMA NextIs ==
  ASSUME TypeOK, ControlOK, run.pc = "decide",
         NEW failed \in BOOLEAN,
         run' = [run EXCEPT !.pc = "next", !.idx = @ + 1, !.local = Nil,
                            !.then = "assign", !.failed = failed]
  PROVE  RunIs(run.phase, "next", run.strict, run.idx + 1, Nil, "assign", run.ret)
<1>1. run.idx + 1 \in 1 .. Len(probes) + 1
  BY ProbesOK DEF ControlOK, Between
<1> QED
  BY <1>1 DEF TypeOK, RunIs, Runs, RunPCs, Errors

\* What a verdict changes.
LEMMA MarkEffect ==
  ASSUME TypeOK, NEW i \in DOMAIN probes, NEW e \in Errors, NEW ph \in Phases,
         MarkedVerdictInEnd(i, e, ph)
  PROVE  /\ probeDetails' \in [DOMAIN probes -> ProbeDetails] /\ passedProbeCount' \in Nat
         /\ \A j \in DOMAIN probes \ {i} : probeDetails'[j] = probeDetails[j]
         /\ probeDetails'[i].phase = (IF e = Nil THEN "Passed" ELSE "Failed")
         /\ probeDetails'[i].failedWithError = probeDetails[i].failedWithError
         /\ \A k \in StatusKeys :
              probeDetails'[i].status[k] =
                IF k = (IF probes[i].mode \in ForegroundModes THEN ph ELSE probes[i].mode)
                THEN (IF e = Nil THEN "Passed" ELSE "Failed") ELSE probeDetails[i].status[k]
         /\ \/ passedProbeCount' = passedProbeCount
            \/ passedProbeCount' = passedProbeCount + 1 /\ CountsInPhase(probes[i].mode, ph)
<1> DEFINE v == IF e = Nil THEN "Passed" ELSE "Failed"
           key == IF probes[i].mode \in ForegroundModes THEN ph ELSE probes[i].mode
           d == probeDetails[i]
           new == [d EXCEPT !.phase = v, !.status[key] = v]
<1>1. v \in ProbePhases /\ v \in Statuses
  BY DEF ProbePhases, Statuses
<1>2. probeDetails' = [probeDetails EXCEPT ![i].phase = v, ![i].status[key] = v]
  BY Zenon DEF MarkedVerdictInEnd, SetProbeVerdict
<1>3. d \in ProbeDetails /\ probeDetails \in [DOMAIN probes -> ProbeDetails] /\ passedProbeCount \in Nat
  BY DEF TypeOK, DetailsTypeOK
<1>4. /\ new \in ProbeDetails /\ new.phase = v /\ new.failedWithError = d.failedWithError
      /\ \A k \in StatusKeys : new.status[k] = IF k = key THEN v ELSE d.status[k]
  BY <1>1, <1>3 DEF ProbeDetails
<1>5. probeDetails' = [probeDetails EXCEPT ![i] = new]
  BY <1>2, <1>3 DEF ProbeDetails
<1>6. /\ \A j \in DOMAIN probes \ {i} : probeDetails'[j] = probeDetails[j]
      /\ probeDetails' \in [DOMAIN probes -> ProbeDetails] /\ probeDetails'[i] = new
  BY <1>3, <1>4, <1>5
<1>7. \/ passedProbeCount' = passedProbeCount
      \/ passedProbeCount' = passedProbeCount + 1 /\ CountsInPhase(probes[i].mode, ph)
  BY DEF MarkedVerdictInEnd
<1>8. passedProbeCount' \in Nat
  BY <1>3, <1>7
<1> HIDE DEF new
<1> QED
  BY <1>4, <1>6, <1>7, <1>8

\* What a handler does, by the mode of the probe and the phase.
Handler ==
  /\ run.pc = "next" /\ run.idx \in DOMAIN probes
  /\ run.strict \/ IsBackground(run.idx)
  /\ \/ /\ Evaluates(run.phase, cur.mode)
        /\ Goto(IF cur.source THEN "createPod" ELSE "trigger")
        /\ UNCHANGED <<detailVars, err, poller, probePod, engineState, lastEval, wrote, raced>>
     \/ /\ Launches(run.phase, cur.mode)
        /\ \/ cur.source /\ Goto("createPod") /\ UNCHANGED poller
           \/ Goto("assign") /\ poller' = [poller EXCEPT ![run.idx] = "trigger"]
        /\ UNCHANGED <<detailVars, err, probePod, engineState, lastEval, wrote, raced>>
     \/ /\ run.phase = "PostChaos" /\ cur.mode \in BackgroundModes
        /\ Store(Main, probeDetails[run.idx].failedWithError)
        /\ Goto("mark")
        /\ UNCHANGED <<detailVars, poller, probePod, engineState, lastEval, raced>>
     \/ /\ ~Judges(run.phase, cur.mode)
        /\ Goto("assign")
        /\ UNCHANGED <<detailVars, err, poller, probePod, engineState, lastEval, wrote, raced>>

LEMMA HandlerCases ==
  ASSUME TypeOK,
         \/ PreChaosCmdProbe \/ PreChaosHTTPProbe \/ PreChaosK8sProbe \/ PreChaosPromProbe
         \/ PostChaosCmdProbe \/ PostChaosHTTPProbe \/ PostChaosK8sProbe \/ PostChaosPromProbe
         \/ OnChaosCmdProbe \/ OnChaosHTTPProbe \/ OnChaosK8sProbe \/ OnChaosPromProbe
  PROVE  Handler
<1>1. ASSUME NEW ph \in Phases, NEW type \in ProbeTypes, Executing(ph, type)
      PROVE  /\ run.pc = "next" /\ run.idx \in DOMAIN probes /\ run.phase = ph
             /\ run.strict \/ IsBackground(run.idx)
             /\ cur.mode \in Modes
  BY <1>1, ProbesOK DEF Executing, cur, IsBackground
<1>2. ASSUME NEW type \in ProbeTypes, Executing("PreChaos", type), PreChaosHandler
      PROVE  Handler
  BY <1>1, <1>2 DEF PreChaosHandler, Evaluate, Launch, NothingToDo, Handler, Evaluates, Launches, Judges,
                    Phases, Modes, ForegroundModes, BackgroundModes
<1>3. ASSUME NEW type \in ProbeTypes, Executing("PostChaos", type), PostChaosHandler
      PROVE  Handler
  BY <1>1, <1>3 DEF PostChaosHandler, Evaluate, CheckRecorded, NothingToDo, Handler, Evaluates, Launches, Judges,
                    Phases, Modes, ForegroundModes, BackgroundModes
<1>4. ASSUME NEW type \in ProbeTypes, Executing("DuringChaos", type), OnChaosHandler
      PROVE  Handler
  BY <1>1, <1>4 DEF OnChaosHandler, Launch, NothingToDo, Handler, Evaluates, Launches, Judges,
                    Phases, Modes, ForegroundModes, BackgroundModes
<1>5. "cmdProbe" \in ProbeTypes /\ "httpProbe" \in ProbeTypes /\ "k8sProbe" \in ProbeTypes
      /\ "promProbe" \in ProbeTypes
  BY DEF ProbeTypes
<1>6. CASE PreChaosCmdProbe \/ PreChaosHTTPProbe \/ PreChaosK8sProbe \/ PreChaosPromProbe
  BY <1>2, <1>5, <1>6 DEF PreChaosCmdProbe, PreChaosHTTPProbe, PreChaosK8sProbe, PreChaosPromProbe
<1>7. CASE PostChaosCmdProbe \/ PostChaosHTTPProbe \/ PostChaosK8sProbe \/ PostChaosPromProbe
  BY <1>3, <1>5, <1>7 DEF PostChaosCmdProbe, PostChaosHTTPProbe, PostChaosK8sProbe, PostChaosPromProbe
<1>8. CASE OnChaosCmdProbe \/ OnChaosHTTPProbe \/ OnChaosK8sProbe \/ OnChaosPromProbe
  BY <1>4, <1>5, <1>8 DEF OnChaosCmdProbe, OnChaosHTTPProbe, OnChaosK8sProbe, OnChaosPromProbe
<1> QED
  BY <1>6, <1>7, <1>8

----------------------------------------------------------------------------
(* What most steps keep *)

\* Main goes forward in a phase.
Forward ==
  /\ UNCHANGED probes
  /\ run'.phase = run.phase
  /\ \A i \in DOMAIN probes : Past(i) => Past(i)'
  /\ run.strict /\ run.pc # "fetch" => run'.strict /\ run'.pc # "fetch"

\* The probes that may have scored.
Bound == Cardinality(Scored) + Cardinality(ScoredTwice) + Cardinality(ScoredByPoller)

LEMMA ScoresFinite ==
  ASSUME TypeOK, UNCHANGED probes
  PROVE  /\ \A S \in {Scored, ScoredTwice, ScoredByPoller, Scored', ScoredTwice', ScoredByPoller'} :
              IsFiniteSet(S) /\ Cardinality(S) \in Nat
<1>1. IsFiniteSet(DOMAIN probes)
  BY ProbesOK, FS_Interval
<1>2. \A S \in {Scored, ScoredTwice, ScoredByPoller, Scored', ScoredTwice', ScoredByPoller'} :
        S \subseteq DOMAIN probes
  BY DEF Scored, ScoredTwice, ScoredByPoller
<1> QED
  BY <1>1, <1>2, FS_Subset, FS_CardinalityType

\* The bound does not shrink as long as each of its sets does not.
LEMMA BoundGrows ==
  ASSUME TypeOK, UNCHANGED probes, Scored \subseteq Scored', ScoredTwice \subseteq ScoredTwice',
         ScoredByPoller \subseteq ScoredByPoller'
  PROVE  Bound <= Bound' /\ Bound \in Nat /\ Bound' \in Nat
<1>1. /\ IsFiniteSet(Scored') /\ IsFiniteSet(ScoredTwice') /\ IsFiniteSet(ScoredByPoller')
      /\ Cardinality(Scored') \in Nat /\ Cardinality(ScoredTwice') \in Nat
      /\ Cardinality(ScoredByPoller') \in Nat
  BY ScoresFinite
<1>2. /\ Cardinality(Scored) <= Cardinality(Scored')
      /\ Cardinality(ScoredTwice) <= Cardinality(ScoredTwice')
      /\ Cardinality(ScoredByPoller) <= Cardinality(ScoredByPoller')
  BY <1>1, FS_Subset
<1> QED
  BY <1>1, <1>2, ScoresFinite DEF Bound

\* It grows if one of the sets has one more member.
LEMMA BoundSteps ==
  ASSUME TypeOK, UNCHANGED probes, Scored \subseteq Scored', ScoredTwice \subseteq ScoredTwice',
         ScoredByPoller \subseteq ScoredByPoller',
         NEW i \in DOMAIN probes,
         \/ i \in Scored' \ Scored \/ i \in ScoredTwice' \ ScoredTwice
         \/ i \in ScoredByPoller' \ ScoredByPoller
  PROVE  Bound + 1 <= Bound' /\ Bound \in Nat /\ Bound' \in Nat
<1>1. /\ IsFiniteSet(Scored') /\ IsFiniteSet(ScoredTwice') /\ IsFiniteSet(ScoredByPoller')
      /\ Cardinality(Scored') \in Nat /\ Cardinality(ScoredTwice') \in Nat
      /\ Cardinality(ScoredByPoller') \in Nat
  BY ScoresFinite
<1>2. /\ Cardinality(Scored) <= Cardinality(Scored')
      /\ Cardinality(ScoredTwice) <= Cardinality(ScoredTwice')
      /\ Cardinality(ScoredByPoller) <= Cardinality(ScoredByPoller')
  BY <1>1, FS_Subset
<1>3. ASSUME NEW S, NEW T, IsFiniteSet(T), S \subseteq T, i \in T \ S
      PROVE  Cardinality(S) + 1 <= Cardinality(T)
  <2>1. IsFiniteSet(S) /\ IsFiniteSet(S \union {i}) /\ S \union {i} \subseteq T
    BY <1>3, FS_Subset
  <2>2. Cardinality(S \union {i}) = Cardinality(S) + 1
    BY <1>3, <2>1, FS_AddElement
  <2>3. Cardinality(S \union {i}) <= Cardinality(T)
    BY <1>3, <2>1, FS_Subset
  <2> QED
    BY <2>2, <2>3
<1>4. CASE i \in Scored' \ Scored
  <2>1. Cardinality(Scored) + 1 <= Cardinality(Scored')
    BY <1>1, <1>3, <1>4
  <2> QED
    BY <1>1, <1>2, <2>1, ScoresFinite DEF Bound
<1>5. CASE i \in ScoredTwice' \ ScoredTwice
  <2>1. Cardinality(ScoredTwice) + 1 <= Cardinality(ScoredTwice')
    BY <1>1, <1>3, <1>5
  <2> QED
    BY <1>1, <1>2, <2>1, ScoresFinite DEF Bound
<1>6. CASE i \in ScoredByPoller' \ ScoredByPoller
  <2>1. Cardinality(ScoredByPoller) + 1 <= Cardinality(ScoredByPoller')
    BY <1>1, <1>3, <1>6
  <2> QED
    BY <1>1, <1>2, <2>1, ScoresFinite DEF Bound
<1> QED
  BY <1>4, <1>5, <1>6

LEMMA ForwardScores ==
  ASSUME TypeOK, ControlOK, Forward
  PROVE  Scored \subseteq Scored' /\ ScoredTwice \subseteq ScoredTwice'
<1>1. ASSUME NEW i \in DOMAIN probes, Past(i), run.strict
      PROVE  run'.strict /\ run'.pc # "fetch"
  <2>1. run.pc # "fetch"
    BY <1>1, ProbesOK DEF ControlOK, Past, Judged
  <2> QED
    BY <1>1, <2>1 DEF Forward
<1> QED
  BY <1>1 DEF Forward, Scored, ScoredTwice, IsBackground

LEMMA ForwardLaunched ==
  ASSUME Forward, NEW i \in DOMAIN probes, Launched(i)
  PROVE  Launched(i)'
  BY DEF Forward, Launched, Launches

\* Main goes forward, and no verdict is given and no goroutine launched.
LEMMA ForwardOK ==
  ASSUME TypeOK, ControlOK, PollerOK, ScoreOK, TypeOK', Forward, UNCHANGED <<poller, passedProbeCount>>
  PROVE  PollerOK' /\ ScoreOK'
<1>1. PollerOK'
  BY ForwardLaunched DEF PollerOK, Forward, IsBackground
<1>2. ScoredByPoller' = ScoredByPoller
  BY DEF ScoredByPoller, Forward
<1>3. Bound <= Bound' /\ Bound \in Nat /\ Bound' \in Nat
  BY <1>2, ForwardScores, BoundGrows DEF Forward
<1>4. ScoreOK'
  BY <1>3 DEF ScoreOK, Bound, TypeOK, DetailsTypeOK
<1> QED
  BY <1>1, <1>4

\* No step touches the details.
LEMMA SameDetails ==
  ASSUME StatusOK, UNCHANGED <<probes, probeDetails>>
  PROVE  /\ StatusOK'
         /\ \A i \in DOMAIN probes : /\ SettledBefore(i) => SettledBefore(i)'
                                     /\ SettledAfter(i) => SettledAfter(i)'
  BY DEF StatusOK, SettledBefore, SettledAfter, Given, IsBackground

LEMMA StoreEffect ==
  ASSUME TypeOK, NEW t \in {Main} \union DOMAIN probes, NEW e \in Errors, Store(t, e)
  PROVE  /\ err' = e /\ wrote'[t] = e /\ \A u \in ({Main} \union DOMAIN probes) \ {t} : wrote'[u] = wrote[u]
         /\ err' \in Errors /\ wrote' \in [{Main} \union DOMAIN probes -> Errors]
  BY DEF TypeOK, Store

LEMMA LoadEffect ==
  ASSUME TypeOK, NEW t, Load(t)
  PROVE  raced' \in BOOLEAN /\ (~raced' => ~raced /\ err = wrote[t])
  BY DEF TypeOK, Load

LEMMA RunTypes ==
  ASSUME TypeOK, run' \in Runs(Len(probes)), UNCHANGED <<detailVars, poller, probePod, engineState, lastEval>>,
         err' \in Errors, wrote' \in [{Main} \union DOMAIN probes -> Errors], raced' \in BOOLEAN
  PROVE  TypeOK'
  BY DEF TypeOK, DetailsTypeOK, detailVars, Runs

----------------------------------------------------------------------------
(* The steps of main between the probes *)

\* RunProbes is called for the next phase, if the one before returned no error.
LEMMA CallRunProbesOK ==
  ASSUME IInv, CallRunProbes
  PROVE  IInv'
<1> USE DEF IInv
<1>1. /\ run.pc = "idle" /\ run.ret = Nil
      /\ RunIs(NextPhase, "fetch", TRUE, 1, Nil, "assign", Nil)
      /\ UNCHANGED <<detailVars, err, poller, probePod, engineState, lastEval, wrote, raced>>
  BY IdleIs DEF CallRunProbes, RunProbes, RunPCs, Errors, NextPhase, Phases, TypeOK
<1>2. \/ run.phase = "none" /\ NextPhase = "PreChaos"
      \/ run.phase = "PreChaos" /\ NextPhase = "DuringChaos"
      \/ run.phase = "DuringChaos" /\ NextPhase = "PostChaos"
  BY DEF CallRunProbes, NextPhase
<1>3. probes' = probes /\ probeDetails' = probeDetails /\ passedProbeCount' = passedProbeCount
  BY <1>1 DEF detailVars
<1>4. TypeOK'
  BY <1>1, RunTypes DEF RunIs, TypeOK
<1>5. ControlOK'
  BY <1>1, <1>2 DEF ControlOK, RunIs, Between, Nil, Err
<1>6. PollerOK'
  BY <1>1, <1>2, <1>3 DEF PollerOK, Launched, Launches, IsBackground, Past, RunIs
<1>7. Scored \subseteq Scored' /\ ScoredTwice \subseteq ScoredTwice' /\ ScoredByPoller = ScoredByPoller'
  BY <1>1, <1>2, <1>3 DEF Scored, ScoredTwice, ScoredByPoller, Past, RunIs
<1>8. ScoreOK'
  BY <1>3, <1>7, BoundGrows DEF ScoreOK, Bound, TypeOK, DetailsTypeOK
<1>9. EvaluationOK' /\ VerdictsAreRight'
  BY <1>1, <1>3 DEF EvaluationOK, VerdictsAreRight, VerdictFollowsEvaluation, Foreground, RunIs
<1>10. VerdictsGiven'
  <2>1. ~raced => \A i \in DOMAIN probes : SettledIn(run.phase, i)
    BY <1>1 DEF VerdictsGiven
  <2>2. ~raced /\ run'.phase \in {"DuringChaos", "PostChaos"} => \A i \in DOMAIN probes : SettledBefore(i)
    BY <1>1, <1>2, <2>1 DEF VerdictsGiven, RunIs, SettledIn
  <2>3. \A i \in DOMAIN probes : ~(i < 1)
    BY ProbesOK
  <2> QED
    BY <1>1, <1>3, <2>2, <2>3, SameDetails DEF VerdictsGiven, RunIs, Judged
<1>11. ForegroundPods' /\ BackgroundPods'
  BY <1>1, <1>3 DEF ForegroundPods, BackgroundPods, MayRun, Judged, IsForeground, RunIs
<1> QED
  BY <1>1, <1>3, <1>4, <1>5, <1>6, <1>8, <1>9, <1>10, <1>11, SameDetails DEF PodsOK

\* RunProbes returns: with an error, or when it has passed every probe in a strict loop.
LEMMA ReturnOK ==
  ASSUME IInv, NEW e \in Errors, Return(e), run.phase # "none",
         UNCHANGED <<detailVars, err, poller, probePod, engineState, lastEval, wrote>>,
         raced' \in BOOLEAN, raced => raced', run.pc # "mark",
         e = Nil => run.pc = "next" /\ run.strict /\ run.idx \notin DOMAIN probes
  PROVE  IInv'
<1> USE DEF IInv
<1>1. RunIs(run.phase, "idle", TRUE, 1, Nil, "assign", e)
  BY ReturnIs
<1>2. probes' = probes /\ probeDetails' = probeDetails /\ passedProbeCount' = passedProbeCount
  BY DEF detailVars
<1>3. TypeOK'
  BY <1>1, RunTypes DEF RunIs, TypeOK
<1>4. ControlOK'
  BY <1>1 DEF ControlOK, RunIs, Between
<1>5. PollerOK' /\ ScoreOK'
  <2>1. Forward
    BY <1>1, <1>2 DEF Forward, Past, RunIs
  <2> QED
    BY <1>2, <1>3, <2>1, ForwardOK
<1>6. EvaluationOK' /\ VerdictsAreRight'
  BY <1>1, <1>2 DEF EvaluationOK, VerdictsAreRight, VerdictFollowsEvaluation, Foreground, RunIs
<1>7. e = Nil => \A i \in DOMAIN probes : i < run.idx
  BY ProbesOK DEF TypeOK
<1>8. VerdictsGiven'
  <2>1. ~raced /\ e = Nil => \A i \in DOMAIN probes : SettledIn(run.phase, i)
    BY <1>7 DEF VerdictsGiven
  <2>2. ~raced /\ run.phase \in {"DuringChaos", "PostChaos"} => \A i \in DOMAIN probes : SettledBefore(i)
    BY DEF VerdictsGiven
  <2>3. e = Nil /\ ~raced' => \A i \in DOMAIN probes : SettledIn(run.phase, i)'
    BY <1>1, <1>2, <2>1, SameDetails DEF SettledIn, RunIs
  <2>4. ~raced' /\ run.phase \in {"DuringChaos", "PostChaos"} => \A i \in DOMAIN probes : SettledBefore(i)'
    BY <1>2, <2>2, SameDetails
  <2> QED
    BY <1>1, <1>2, <2>3, <2>4 DEF VerdictsGiven, RunIs, Judged, SettledIn
<1>9. ForegroundPods'
  <2>1. e = Nil => run.ret = Nil
    BY DEF ControlOK, TypeOK, Errors
  <2>2. ~raced /\ e = Nil => \A i \in DOMAIN probes : ~(IsForeground(i) /\ probePod[i] = "running")
    BY <2>1 DEF ForegroundPods
  <2> QED
    BY <1>1, <1>2, <2>2 DEF ForegroundPods, IsForeground, RunIs
<1>10. BackgroundPods'
  BY <1>1, <1>2, <1>7, ProbesOK DEF BackgroundPods, IsBackground, RunIs, ControlOK, Nil, Err, Errors, TypeOK
<1> QED
  BY <1>2, <1>3, <1>4, <1>5, <1>6, <1>8, <1>9, <1>10, SameDetails DEF PodsOK

\* The loop begins.  That of PostChaos passes over the foreground probes at first.
LEMMA GetProbesOK ==
  ASSUME IInv, GetProbesFromEngine
  PROVE  IInv'
<1> USE DEF IInv
<1>1. run.pc = "fetch" /\ UNCHANGED <<detailVars, err, poller, probePod, engineState, lastEval, wrote, raced>>
  BY DEF GetProbesFromEngine
<1>2. run.phase # "none" /\ run.idx = 1
  BY <1>1 DEF ControlOK
<1>3. CASE Return(Err)
  BY <1>1, <1>2, <1>3, ReturnOK DEF Errors, Nil, Err, TypeOK
<1>4. CASE run' = [run EXCEPT !.pc = "next", !.strict = (run.phase # "PostChaos")]
  <2>1. RunIs(run.phase, "next", run.phase # "PostChaos", 1, run.local, run.then, run.ret)
    BY <1>2, <1>4 DEF TypeOK, RunIs, Runs, RunPCs
  <2>2. probes' = probes /\ probeDetails' = probeDetails /\ passedProbeCount' = passedProbeCount
    BY <1>1 DEF detailVars
  <2>3. TypeOK'
    BY <1>1, <2>1, RunTypes DEF RunIs, TypeOK
  <2>4. ControlOK'
    BY <1>1, <1>2, <2>1, <2>2 DEF ControlOK, RunIs, Between
  <2>5. PollerOK' /\ ScoreOK'
    <3>1. Forward
      BY <1>1, <1>2, <2>1, <2>2, ProbesOK DEF Forward, Past, RunIs, Judged
    <3> QED
      BY <1>1, <2>2, <2>3, <3>1, ForwardOK
  <2>6. EvaluationOK' /\ VerdictsAreRight'
    BY <1>1, <2>1, <2>2 DEF EvaluationOK, VerdictsAreRight, VerdictFollowsEvaluation, Foreground, RunIs
  <2>7. VerdictsGiven'
    <3>1. \A i \in DOMAIN probes : ~(i < 1)
      BY ProbesOK
    <3> QED
      BY <1>1, <2>1, <2>2, <3>1, SameDetails DEF VerdictsGiven, RunIs, Judged
  <2>8. ForegroundPods' /\ BackgroundPods'
    BY <1>1, <2>1, <2>2 DEF ForegroundPods, BackgroundPods, MayRun, Judged, IsForeground, RunIs
  <2> QED
    BY <1>1, <2>2, <2>3, <2>4, <2>5, <2>6, <2>7, <2>8, SameDetails DEF PodsOK
<1> QED
  BY <1>3, <1>4 DEF GetProbesFromEngine

\* The second loop of PostChaos begins.
LEMMA EndOfLoopOK ==
  ASSUME IInv, EndOfLoop
  PROVE  IInv'
<1> USE DEF IInv
<1>1. /\ run.pc = "next" /\ run.idx \notin DOMAIN probes
      /\ UNCHANGED <<detailVars, err, poller, probePod, engineState, lastEval, wrote, raced>>
      /\ run.phase # "none"
  BY DEF EndOfLoop, ControlOK
<1>2. CASE run.strict
  BY <1>1, <1>2, ReturnOK DEF EndOfLoop, Errors, Nil, TypeOK
<1>3. CASE ~run.strict /\ run.failed
  BY <1>1, <1>3, ReturnOK DEF EndOfLoop, Errors, Nil, Err, TypeOK
<1>4. CASE ~run.strict /\ ~run.failed
  <2>0. run' = [run EXCEPT !.strict = TRUE, !.idx = 1]
    BY <1>4 DEF EndOfLoop
  <2>1. RunIs("PostChaos", "next", TRUE, 1, run.local, run.then, run.ret) /\ run.phase = "PostChaos"
    <3>1. 1 \in 1 .. Len(probes) + 1
      BY ProbesOK
    <3> QED
      BY <1>1, <1>4, <2>0, <3>1 DEF TypeOK, RunIs, Runs, ControlOK
  <2>2. probes' = probes /\ probeDetails' = probeDetails /\ passedProbeCount' = passedProbeCount
    BY <1>1 DEF detailVars
  <2>3. TypeOK'
    BY <1>1, <2>1, RunTypes DEF RunIs, TypeOK
  <2>4. ControlOK'
    BY <1>1, <2>1, <2>2 DEF ControlOK, RunIs, Between
  <2>5. PollerOK'
    BY <1>1, <2>1, <2>2 DEF PollerOK, Launched, Launches, IsBackground, RunIs
  <2>6. Scored \subseteq Scored' /\ ScoredTwice \subseteq ScoredTwice' /\ ScoredByPoller = ScoredByPoller'
    BY <1>1, <1>4, <2>1, <2>2 DEF Scored, ScoredTwice, ScoredByPoller, IsBackground, RunIs
  <2>7. ScoreOK'
    BY <2>2, <2>6, BoundGrows DEF ScoreOK, Bound, TypeOK, DetailsTypeOK
  <2>8. EvaluationOK' /\ VerdictsAreRight'
    BY <1>1, <2>1, <2>2 DEF EvaluationOK, VerdictsAreRight, VerdictFollowsEvaluation, Foreground, RunIs
  <2>9. \A i \in DOMAIN probes : ~(i < 1) /\ i >= 1
    BY ProbesOK
  <2>10. VerdictsGiven'
    BY <1>1, <2>1, <2>2, <2>9, SameDetails DEF VerdictsGiven, RunIs, Judged
  <2>11. ForegroundPods' /\ BackgroundPods'
    BY <1>1, <2>1, <2>2, <2>9 DEF ForegroundPods, BackgroundPods, MayRun, Judged, Between, IsForeground, RunIs
  <2> QED
    BY <1>1, <2>2, <2>3, <2>4, <2>5, <2>7, <2>8, <2>10, <2>11, SameDetails DEF PodsOK
<1> QED
  BY <1>2, <1>3, <1>4 DEF TypeOK

LEMMA SkipForegroundOK ==
  ASSUME IInv, SkipForeground
  PROVE  IInv'
<1> USE DEF IInv
<1>1. /\ run.pc = "next" /\ ~run.strict /\ run.idx \in DOMAIN probes /\ IsForeground(run.idx)
      /\ UNCHANGED <<detailVars, err, poller, probePod, engineState, lastEval, wrote, raced>>
  BY DEF SkipForeground, cur, IsForeground
<1>2. run.idx \in 1 .. Len(probes) /\ run.idx + 1 \in 1 .. Len(probes) + 1
  BY <1>1, ProbesOK
<1>3. RunIs(run.phase, "next", FALSE, run.idx + 1, run.local, run.then, run.ret)
  BY <1>1, <1>2 DEF SkipForeground, TypeOK, RunIs, Runs
<1>4. probes' = probes /\ probeDetails' = probeDetails /\ passedProbeCount' = passedProbeCount
  BY <1>1 DEF detailVars
<1>5. TypeOK'
  BY <1>1, <1>3, RunTypes DEF RunIs, TypeOK
<1>6. ControlOK'
  BY <1>1, <1>3, <1>4 DEF ControlOK, RunIs, Between
<1>7. PollerOK' /\ ScoreOK'
  <2>1. Forward
    BY <1>1, <1>2, <1>3, <1>4, ProbesOK DEF Forward, Past, RunIs, Judged
  <2> QED
    BY <1>1, <1>4, <1>5, <2>1, ForwardOK
<1>8. EvaluationOK' /\ VerdictsAreRight'
  BY <1>1, <1>3, <1>4 DEF EvaluationOK, VerdictsAreRight, VerdictFollowsEvaluation, Foreground, RunIs
<1>9. VerdictsGiven'
  BY <1>1, <1>3, <1>4, SameDetails DEF VerdictsGiven, RunIs, Judged
<1>10. ForegroundPods' /\ BackgroundPods'
  BY <1>1, <1>3, <1>4 DEF ForegroundPods, BackgroundPods, MayRun, Judged, IsForeground, RunIs
<1> QED
  BY <1>1, <1>4, <1>5, <1>6, <1>7, <1>8, <1>9, <1>10, SameDetails DEF PodsOK

\* execute: err = prepare...Probe(...)
LEMMA AssignOK ==
  ASSUME IInv, Assign
  PROVE  IInv'
<1> USE DEF IInv
<1>1. /\ run.pc = "assign" /\ run.idx \in DOMAIN probes
      /\ UNCHANGED <<detailVars, poller, probePod, engineState, lastEval, raced>>
  BY DEF Assign, ControlOK, Between
<1>2. RunIs(run.phase, "decide", run.strict, run.idx, run.local, run.then, run.ret)
  BY GotoIs DEF Assign, RunPCs
<1>3. wrote'[Main] = run.local /\ err' \in Errors /\ wrote' \in [{Main} \union DOMAIN probes -> Errors]
  BY StoreEffect DEF Assign, TypeOK
<1>4. probes' = probes /\ probeDetails' = probeDetails /\ passedProbeCount' = passedProbeCount
  BY <1>1 DEF detailVars
<1>5. TypeOK'
  BY <1>1, <1>2, <1>3, RunTypes DEF RunIs, TypeOK
<1>6. ControlOK'
  BY <1>1, <1>2, <1>4 DEF ControlOK, RunIs, Between, IsBackground
<1>7. PollerOK' /\ ScoreOK'
  <2>1. Forward
    BY <1>1, <1>2, <1>4 DEF Forward, Past, RunIs, Judged
  <2> QED
    BY <1>1, <1>4, <1>5, <2>1, ForwardOK
<1>8. EvaluationOK' /\ VerdictsAreRight'
  BY <1>1, <1>2, <1>4 DEF EvaluationOK, VerdictsAreRight, VerdictFollowsEvaluation, Foreground, RunIs
<1>9. Carried' = Carried
  BY <1>1, <1>2, <1>3 DEF Carried, RunIs
<1>10. VerdictsGiven'
  BY <1>1, <1>2, <1>4, <1>9, SameDetails DEF VerdictsGiven, SettledIn, RunIs, Judged
<1>11. ForegroundPods' /\ BackgroundPods'
  BY <1>1, <1>2, <1>4, <1>9
     DEF ForegroundPods, BackgroundPods, MayRun, Judged, Between, IsForeground, IsBackground, RunIs
<1> QED
  BY <1>1, <1>4, <1>5, <1>6, <1>7, <1>8, <1>10, <1>11, SameDetails DEF PodsOK

\* execute: ...; err != nil
LEMMA DecideOK ==
  ASSUME IInv, Decide
  PROVE  IInv'
<1> USE DEF IInv
<1>1. /\ run.pc = "decide" /\ run.idx \in DOMAIN probes /\ run.phase # "none"
      /\ UNCHANGED <<detailVars, err, poller, probePod, engineState, lastEval, wrote>>
      /\ raced' \in BOOLEAN /\ (raced => raced') /\ (~raced' => ~raced /\ err = wrote[Main])
  BY LoadEffect DEF Decide, Load, ControlOK, Between, TypeOK
<1>2. CASE err # Nil /\ run.strict
  BY <1>1, <1>2, ReturnOK DEF Decide, Errors, Nil, Err
<1>3. CASE ~(err # Nil /\ run.strict)
  <2>1. RunIs(run.phase, "next", run.strict, run.idx + 1, Nil, "assign", run.ret)
    <3> DEFINE failed == run.failed \/ err # Nil
    <3>1. failed \in BOOLEAN
      BY DEF TypeOK, Runs
    <3>2. run' = [run EXCEPT !.pc = "next", !.idx = @ + 1, !.local = Nil,
                             !.then = "assign", !.failed = failed]
      BY <1>3 DEF Decide
    <3> HIDE DEF failed
    <3> QED
      BY <1>1, <3>1, <3>2, NextIs
  <2>2. probes' = probes /\ probeDetails' = probeDetails /\ passedProbeCount' = passedProbeCount
    BY <1>1 DEF detailVars
  <2>3. TypeOK'
    BY <1>1, <2>1, RunTypes DEF RunIs, TypeOK
  <2>4. ControlOK'
    BY <1>1, <2>1, <2>2 DEF ControlOK, RunIs, Between
  <2>5. \A i \in DOMAIN probes : i \in Nat /\ run.idx \in Nat /\ (i < run.idx + 1 <=> i < run.idx \/ i = run.idx)
    BY <1>1, ProbesOK
  <2>6. PollerOK' /\ ScoreOK'
    <3>1. Forward
      BY <1>1, <2>1, <2>2, <2>5 DEF Forward, Past, RunIs, Judged
    <3> QED
      BY <1>1, <2>2, <2>3, <3>1, ForwardOK
  <2>7. EvaluationOK' /\ VerdictsAreRight'
    BY <1>1, <2>1, <2>2 DEF EvaluationOK, VerdictsAreRight, VerdictFollowsEvaluation, Foreground, RunIs
  <2>8. ~raced' /\ run.strict => Carried = Nil
    BY <1>1, <1>3 DEF Carried
  <2>9. VerdictsGiven'
    <3>1. ~raced' /\ run.strict => \A i \in DOMAIN probes : i < run.idx + 1 => SettledIn(run.phase, i)
      BY <1>1, <2>5, <2>8 DEF VerdictsGiven, Judged
    <3> QED
      BY <1>1, <2>1, <2>2, <3>1, SameDetails DEF VerdictsGiven, SettledIn, RunIs, Judged
  <2>10. ~raced' /\ run.strict => ~MayRun
    BY <1>1, <2>8 DEF MayRun, Nil, Err
  <2>11. ForegroundPods'
    <3>1. IsForeground(run.idx) => run.strict
      BY <1>1, ProbesOK DEF ControlOK, IsForeground, IsBackground, Between, ForegroundModes, BackgroundModes
    <3> QED
      BY <1>1, <2>1, <2>2, <2>10, <3>1 DEF ForegroundPods, IsForeground, RunIs
  <2>12. BackgroundPods'
    BY <1>1, <2>1, <2>2, <2>5, <2>10 DEF BackgroundPods, IsBackground, RunIs, Between
  <2> QED
    BY <1>1, <2>2, <2>3, <2>4, <2>6, <2>7, <2>9, <2>11, <2>12, SameDetails DEF PodsOK
<1> QED
  BY <1>2, <1>3

----------------------------------------------------------------------------
(* The steps of main at a probe *)

\* What such a step keeps: it says what it settles of the probe, and which pod may run.
LEMMA AtProbeOK ==
  ASSUME IInv, TypeOK', UNCHANGED probes, raced => raced',
         NEW pc, NEW local, NEW then,
         RunIs(run.phase, pc, run.strict, run.idx, local, then, run.ret),
         run.idx \in DOMAIN probes, run.pc \notin {"idle", "fetch"}, pc \notin Between,
         run.pc \in Judged => pc \in Judged,
         StatusOK', PodsOK',
         \A i \in DOMAIN probes \ {run.idx} :
           /\ SettledBefore(i) => SettledBefore(i)'
           /\ SettledAfter(i) => SettledAfter(i)'
           /\ probePod'[i] = "running" => probePod[i] = "running",
         run.phase # "PreChaos" =>
           \A i \in DOMAIN probes : i = run.idx /\ SettledBefore(i) => SettledBefore(i)',
         ~raced' /\ run.strict /\ pc \in Judged /\ Carried' = Nil => SettledIn(run.phase, run.idx)',
         ~raced' /\ probePod'[run.idx] = "running" /\ run.ret = Nil
           /\ (IsForeground(run.idx) \/ (run.phase = "PostChaos" /\ run.strict)) => MayRun'
  PROVE  /\ Forward /\ StatusOK' /\ PodsOK' /\ VerdictsGiven' /\ ForegroundPods' /\ BackgroundPods'
         /\ poller' = poller => PollerOK'
         /\ poller' = poller /\ passedProbeCount' = passedProbeCount => ScoreOK'
<1> USE DEF IInv
<1>1. run'.phase = run.phase /\ run'.pc = pc /\ run'.strict = run.strict /\ run'.idx = run.idx /\ run'.ret = run.ret
  BY DEF RunIs
<1>2. Forward
  BY <1>1 DEF Forward, Past, Between
<1>3. poller' = poller => PollerOK'
  BY <1>2, ForwardLaunched DEF PollerOK, Forward, IsBackground
<1>7. poller' = poller /\ passedProbeCount' = passedProbeCount => ScoreOK'
  BY <1>2, ForwardOK
<1>4. VerdictsGiven'
  <2>1. run.phase \in {"DuringChaos", "PostChaos"} /\ ~raced' => \A i \in DOMAIN probes : SettledBefore(i)'
    <3>1. ASSUME run.phase \in {"DuringChaos", "PostChaos"}, ~raced', NEW i \in DOMAIN probes
          PROVE  SettledBefore(i)'
      <4>1. SettledBefore(i)
        BY <3>1 DEF VerdictsGiven
      <4>2. CASE i = run.idx
        BY <3>1, <4>1, <4>2
      <4>3. CASE i # run.idx
        BY <4>1, <4>3
      <4> QED
        BY <4>2, <4>3
    <3> QED
      BY <3>1
  <2>2. \A i \in DOMAIN probes : i < run.idx => i # run.idx
    BY ProbesOK
  <2>3. run.strict /\ ~raced' => \A i \in DOMAIN probes : i < run.idx => SettledIn(run.phase, i)'
    BY <1>1, <2>2 DEF VerdictsGiven, SettledIn
  <2> QED
    BY <1>1, <2>1, <2>3 DEF VerdictsGiven, Between
<1>5. ForegroundPods'
  BY <1>1 DEF ForegroundPods, IsForeground
<1>6. BackgroundPods'
  BY <1>1, ProbesOK DEF BackgroundPods, IsBackground, Between, TypeOK
<1> QED
  BY <1>2, <1>3, <1>4, <1>5, <1>6, <1>7

\* main launches the goroutine that polls a probe.
LEMMA LaunchOK ==
  ASSUME IInv, TypeOK', Forward, UNCHANGED passedProbeCount,
         NEW i \in DOMAIN probes, Launches(run.phase, probes[i].mode), IsBackground(i), ~Past(i), Past(i)',
         poller' = [poller EXCEPT ![i] = "trigger"]
  PROVE  PollerOK' /\ ScoreOK'
<1> USE DEF IInv
<1>1. probes' = probes /\ run'.phase = run.phase
  BY DEF Forward
<1>2. poller'[i] = "trigger" /\ \A j \in DOMAIN probes \ {i} : poller'[j] = poller[j]
  BY DEF TypeOK
<1>3. Launched(i)' /\ ~Launched(i)
  BY <1>1 DEF Launched, Launches
<1>4. poller[i] = "none"
  BY <1>3 DEF PollerOK
<1>5. PollerOK'
  <2>1. ASSUME NEW j \in DOMAIN probes
        PROVE  /\ (poller[j] # "none" => IsBackground(j) /\ Launched(j))'
               /\ (poller[j] \in {"stop", "mark", "patch"} => probes[j].stopOnFailure)'
    <3>1. CASE j = i
      BY <1>1, <1>2, <1>3, <3>1 DEF IsBackground
    <3>2. CASE j # i
      BY <1>1, <1>2, <3>2, ForwardLaunched DEF PollerOK, IsBackground
    <3> QED
      BY <3>1, <3>2
  <2> QED
    BY <1>1, <2>1 DEF PollerOK
<1>6. ScoredByPoller' = ScoredByPoller
  BY <1>1, <1>2, <1>4 DEF ScoredByPoller
<1>7. Bound <= Bound' /\ Bound \in Nat /\ Bound' \in Nat
  BY <1>1, <1>6, ForwardScores, BoundGrows
<1>8. ScoreOK'
  BY <1>7 DEF ScoreOK, Bound, TypeOK, DetailsTypeOK
<1> QED
  BY <1>5, <1>8

\* main begins with a probe.
LEMMA HandlerOK ==
  ASSUME IInv, Handler
  PROVE  IInv'
<1> USE DEF IInv
<1>1. /\ run.pc = "next" /\ run.idx \in DOMAIN probes
      /\ run.strict \/ IsBackground(run.idx)
      /\ UNCHANGED <<detailVars, probePod, engineState, lastEval, raced>>
      /\ run.phase # "none"
  BY DEF Handler, ControlOK
<1>2. probes' = probes /\ probeDetails' = probeDetails /\ passedProbeCount' = passedProbeCount /\ probePod' = probePod
  BY <1>1 DEF detailVars
<1>3. /\ StatusOK' /\ PodsOK'
      /\ \A i \in DOMAIN probes : /\ SettledBefore(i) => SettledBefore(i)'
                                  /\ SettledAfter(i) => SettledAfter(i)'
  BY <1>2, SameDetails DEF PodsOK
<1>4. ~raced /\ run.ret = Nil /\ IsForeground(run.idx) => probePod[run.idx] # "running"
  BY <1>1 DEF ForegroundPods, MayRun, Judged
<1>5. CASE /\ Evaluates(run.phase, cur.mode)
           /\ Goto(IF cur.source THEN "createPod" ELSE "trigger")
           /\ UNCHANGED <<detailVars, err, poller, probePod, engineState, lastEval, wrote, raced>>
  <2> DEFINE pc == IF cur.source THEN "createPod" ELSE "trigger"
  <2>1. RunIs(run.phase, pc, run.strict, run.idx, run.local, run.then, run.ret)
    BY <1>5, GotoIs DEF RunPCs
  <2>2. TypeOK'
    BY <1>1, <1>5, <2>1, RunTypes DEF RunIs, TypeOK
  <2>3. ControlOK'
    BY <1>1, <1>2, <1>5, <2>1 DEF ControlOK, RunIs, Between, cur, IsBackground
  <2>4. EvaluationOK' /\ VerdictsAreRight'
    BY <1>1, <1>2, <1>5, <2>1 DEF EvaluationOK, VerdictsAreRight, VerdictFollowsEvaluation, Foreground, RunIs
  <2>5. run.idx \notin Background /\ IsForeground(run.idx)
    BY <1>5 DEF Evaluates, IsForeground, Background, Foreground, cur, ForegroundModes
  <2>6. pc \notin Between /\ pc \notin Judged
    BY DEF Between, Judged
  <2> HIDE DEF pc
  <2>7. /\ VerdictsGiven' /\ ForegroundPods' /\ BackgroundPods' /\ PollerOK' /\ ScoreOK'
    BY <1>1, <1>2, <1>3, <1>4, <1>5, <2>1, <2>2, <2>5, <2>6, AtProbeOK DEF Judged
  <2> QED
    BY <1>3, <2>2, <2>3, <2>4, <2>7
<1>6. CASE /\ Launches(run.phase, cur.mode)
           /\ \/ cur.source /\ Goto("createPod") /\ UNCHANGED poller
              \/ Goto("assign") /\ poller' = [poller EXCEPT ![run.idx] = "trigger"]
           /\ UNCHANGED <<detailVars, err, probePod, engineState, lastEval, wrote, raced>>
  <2>1. IsBackground(run.idx) /\ ~IsForeground(run.idx) /\ run.phase # "PostChaos" /\ run.idx \notin Foreground
    BY <1>6 DEF Launches, IsForeground, IsBackground, Foreground, cur, ForegroundModes, BackgroundModes
  <2>2. SettledIn(run.phase, run.idx)
    BY <2>1 DEF SettledIn, SettledBefore, IsBackground, BackgroundModes
  <2>3. CASE cur.source /\ Goto("createPod") /\ UNCHANGED poller
    <3>1. RunIs(run.phase, "createPod", run.strict, run.idx, run.local, run.then, run.ret)
      BY <2>3, GotoIs DEF RunPCs
    <3>2. TypeOK'
      BY <1>1, <1>6, <2>3, <3>1, RunTypes DEF RunIs, TypeOK
    <3>3. ControlOK'
      BY <1>1, <1>2, <1>6, <2>1, <2>3, <3>1 DEF ControlOK, RunIs, Between, cur, IsBackground
    <3>4. EvaluationOK' /\ VerdictsAreRight'
      BY <1>1, <1>2, <1>6, <3>1 DEF EvaluationOK, VerdictsAreRight, VerdictFollowsEvaluation, Foreground, RunIs
    <3>5. /\ VerdictsGiven' /\ ForegroundPods' /\ BackgroundPods' /\ PollerOK' /\ ScoreOK'
      BY <1>1, <1>2, <1>3, <2>1, <2>3, <3>1, <3>2, AtProbeOK DEF Judged, Between
    <3> QED
      BY <1>3, <3>2, <3>3, <3>4, <3>5
  <2>4. CASE Goto("assign") /\ poller' = [poller EXCEPT ![run.idx] = "trigger"]
    <3>1. RunIs(run.phase, "assign", run.strict, run.idx, run.local, run.then, run.ret)
      BY <2>4, GotoIs DEF RunPCs
    <3>2. poller \in [DOMAIN probes -> PollerStates] /\ poller' \in [DOMAIN probes -> PollerStates]
      BY <2>4 DEF TypeOK, PollerStates
    <3>3. TypeOK'
      BY <1>6, <3>1, <3>2 DEF TypeOK, DetailsTypeOK, detailVars, RunIs, Runs
    <3>4. ControlOK'
      BY <1>1, <1>2, <1>6, <2>1, <3>1 DEF ControlOK, RunIs, Between, cur, IsBackground
    <3>5. EvaluationOK' /\ VerdictsAreRight'
      BY <1>1, <1>2, <1>6, <3>1 DEF EvaluationOK, VerdictsAreRight, VerdictFollowsEvaluation, Foreground, RunIs
    <3>6. Forward /\ VerdictsGiven' /\ ForegroundPods' /\ BackgroundPods'
      <4>1. SettledIn(run.phase, run.idx)'
        BY <1>2, <2>1, <3>1 DEF RunIs, SettledIn, SettledBefore, IsBackground, BackgroundModes
      <4> QED
        BY <1>1, <1>2, <1>3, <2>1, <3>1, <3>3, <4>1, AtProbeOK DEF Judged, Between
    <3>7. PollerOK' /\ ScoreOK'
      <4>1. ~Past(run.idx) /\ Past(run.idx)'
        BY <1>1, <3>1, ProbesOK DEF Past, Judged, RunIs
      <4>2. run'.idx = run.idx /\ IsBackground(run.idx) /\ Launches(run.phase, probes[run.idx].mode)
        BY <1>6, <2>1, <3>1 DEF RunIs, cur
      <4> QED
        BY <1>1, <1>2, <2>4, <3>3, <3>6, <4>1, <4>2, LaunchOK
    <3> QED
      BY <1>3, <3>3, <3>4, <3>5, <3>6, <3>7
  <2> QED
    BY <1>6, <2>3, <2>4
<1>7. CASE /\ run.phase = "PostChaos" /\ cur.mode \in BackgroundModes
           /\ Store(Main, probeDetails[run.idx].failedWithError)
           /\ Goto("mark")
           /\ UNCHANGED <<detailVars, poller, probePod, engineState, lastEval, raced>>
  <2>1. RunIs(run.phase, "mark", run.strict, run.idx, run.local, run.then, run.ret)
    BY <1>7, GotoIs DEF RunPCs
  <2>2. TypeOK'
    <3>1. probeDetails[run.idx].failedWithError \in Errors
      BY <1>1 DEF TypeOK, DetailsTypeOK, ProbeDetails
    <3>2. err' \in Errors /\ wrote' \in [{Main} \union DOMAIN probes -> Errors]
      BY <1>7, <3>1, StoreEffect
    <3> QED
      BY <1>1, <1>7, <2>1, <3>2, RunTypes DEF RunIs, TypeOK
  <2>3. ControlOK'
    BY <1>1, <1>2, <1>7, <2>1 DEF ControlOK, RunIs, Between, cur, IsBackground, Judges
  <2>4. ~IsForeground(run.idx) /\ run.idx \notin Foreground
    BY <1>7 DEF IsForeground, Foreground, cur, ForegroundModes, BackgroundModes
  <2>5. EvaluationOK' /\ VerdictsAreRight'
    BY <1>1, <1>2, <1>7, <2>1, <2>4
       DEF EvaluationOK, VerdictsAreRight, VerdictFollowsEvaluation, Foreground, RunIs, IsForeground
  <2>6. MayRun'
    BY <2>1 DEF MayRun, RunIs
  <2>7. /\ VerdictsGiven' /\ ForegroundPods' /\ BackgroundPods' /\ PollerOK' /\ ScoreOK'
    BY <1>1, <1>2, <1>3, <1>7, <2>1, <2>2, <2>6, AtProbeOK DEF Judged, Between
  <2> QED
    BY <1>3, <2>2, <2>3, <2>5, <2>7
<1>8. CASE /\ ~Judges(run.phase, cur.mode)
           /\ Goto("assign")
           /\ UNCHANGED <<detailVars, err, poller, probePod, engineState, lastEval, wrote, raced>>
  <2>1. RunIs(run.phase, "assign", run.strict, run.idx, run.local, run.then, run.ret)
    BY <1>8, GotoIs DEF RunPCs
  <2>2. TypeOK'
    BY <1>1, <1>8, <2>1, RunTypes DEF RunIs, TypeOK
  <2>3. ControlOK'
    BY <1>1, <1>2, <1>8, <2>1 DEF ControlOK, RunIs, Between, cur, IsBackground
  <2>4. EvaluationOK' /\ VerdictsAreRight'
    BY <1>1, <1>2, <1>8, <2>1 DEF EvaluationOK, VerdictsAreRight, VerdictFollowsEvaluation, Foreground, RunIs
  <2>5. SettledIn(run.phase, run.idx)'
    BY <1>2, <1>8, <2>1
       DEF RunIs, SettledIn, SettledBefore, SettledAfter, Judges, Evaluates, IsBackground, cur
  <2>6. IsBackground(run.idx) => run.phase # "PostChaos"
    BY <1>8 DEF Judges, IsBackground, cur
  <2>7. /\ VerdictsGiven' /\ ForegroundPods' /\ BackgroundPods' /\ PollerOK' /\ ScoreOK'
    <3>1. IsForeground(run.idx) \/ IsBackground(run.idx)
      BY <1>1, ProbesOK DEF IsForeground, IsBackground, Modes
    <3> QED
      BY <1>1, <1>2, <1>3, <1>4, <1>8, <2>1, <2>2, <2>5, <2>6, <3>1, AtProbeOK DEF Judged, Between
  <2> QED
    BY <1>3, <2>2, <2>3, <2>4, <2>7
<1> QED
  BY <1>5, <1>6, <1>7, <1>8 DEF Handler

\* The pod of a probe with a source image is created.
LEMMA CreateProbePodOK ==
  ASSUME IInv, CreateProbePod
  PROVE  IInv'
<1> USE DEF IInv
<1>1. /\ run.pc = "createPod" /\ run.idx \in DOMAIN probes /\ probes[run.idx].source
      /\ UNCHANGED <<detailVars, err, poller, engineState, lastEval, wrote, raced>>
  BY DEF CreateProbePod, ControlOK, Between, cur
<1>2. probes' = probes /\ probeDetails' = probeDetails /\ passedProbeCount' = passedProbeCount
  BY <1>1 DEF detailVars
<1>3. /\ StatusOK'
      /\ \A i \in DOMAIN probes : /\ SettledBefore(i) => SettledBefore(i)'
                                  /\ SettledAfter(i) => SettledAfter(i)'
  BY <1>2, SameDetails
<1>4. CASE /\ probePod' = [probePod EXCEPT ![run.idx] = "running"]
           /\ Goto("checkPod")
  <2>1. RunIs(run.phase, "checkPod", run.strict, run.idx, run.local, run.then, run.ret)
    BY <1>4, GotoIs DEF RunPCs
  <2>2. /\ probePod' \in [DOMAIN probes -> PodStates]
        /\ \A i \in DOMAIN probes \ {run.idx} : probePod'[i] = probePod[i]
    BY <1>4 DEF TypeOK, PodStates
  <2>3. TypeOK'
    BY <1>1, <2>1, <2>2 DEF TypeOK, DetailsTypeOK, detailVars, RunIs, Runs
  <2>4. ControlOK'
    BY <1>1, <1>2, <2>1 DEF ControlOK, RunIs, Between, cur, IsBackground
  <2>5. EvaluationOK' /\ VerdictsAreRight'
    BY <1>1, <1>2, <2>1 DEF EvaluationOK, VerdictsAreRight, VerdictFollowsEvaluation, Foreground, RunIs
  <2>6. PodsOK'
    BY <1>1, <1>2, <2>2 DEF PodsOK
  <2>7. MayRun'
    BY <2>1 DEF MayRun, RunIs
  <2>8. /\ VerdictsGiven' /\ ForegroundPods' /\ BackgroundPods' /\ PollerOK' /\ ScoreOK'
    BY <1>1, <1>2, <1>3, <2>1, <2>2, <2>3, <2>6, <2>7, AtProbeOK DEF Judged, Between
  <2> QED
    BY <1>3, <2>3, <2>4, <2>5, <2>6, <2>8
<1>5. CASE run' = [run EXCEPT !.pc = "assign", !.local = Err] /\ UNCHANGED probePod
  <2>1. RunIs(run.phase, "assign", run.strict, run.idx, Err, run.then, run.ret)
    BY <1>5, LocalIs DEF RunPCs, Errors
  <2>2. TypeOK'
    BY <1>1, <1>5, <2>1, RunTypes DEF RunIs, TypeOK
  <2>3. ControlOK'
    BY <1>1, <1>2, <2>1 DEF ControlOK, RunIs, Between, cur, IsBackground
  <2>4. EvaluationOK' /\ VerdictsAreRight'
    BY <1>1, <1>2, <2>1 DEF EvaluationOK, VerdictsAreRight, VerdictFollowsEvaluation, Foreground, RunIs
  <2>5. PodsOK'
    BY <1>2, <1>5 DEF PodsOK
  <2>6. Carried' = Err /\ Err # Nil
    BY <2>1 DEF Carried, RunIs, Nil, Err
  <2>7. MayRun'
    BY <2>1, <2>6 DEF MayRun, RunIs, Judged
  <2>8. /\ VerdictsGiven' /\ ForegroundPods' /\ BackgroundPods' /\ PollerOK' /\ ScoreOK'
    BY <1>1, <1>2, <1>3, <1>5, <2>1, <2>2, <2>5, <2>6, <2>7, AtProbeOK DEF Judged, Between
  <2> QED
    BY <1>3, <2>2, <2>3, <2>4, <2>5, <2>8
<1> QED
  BY <1>4, <1>5 DEF CreateProbePod

\* Its status is checked, with an outcome in err ...
LEMMA CheckProbePodOK ==
  ASSUME IInv, CheckProbePod
  PROVE  IInv'
<1> USE DEF IInv
<1>1. /\ run.pc = "checkPod" /\ run.idx \in DOMAIN probes
      /\ UNCHANGED <<detailVars, poller, probePod, engineState, lastEval, raced>>
  BY DEF CheckProbePod, ControlOK, Between
<1>2. probes' = probes /\ probeDetails' = probeDetails /\ passedProbeCount' = passedProbeCount
  BY <1>1 DEF detailVars
<1>3. /\ StatusOK' /\ PodsOK'
      /\ \A i \in DOMAIN probes : /\ SettledBefore(i) => SettledBefore(i)'
                                  /\ SettledAfter(i) => SettledAfter(i)'
  BY <1>1, <1>2, SameDetails DEF PodsOK
<1>4. RunIs(run.phase, "podChecked", run.strict, run.idx, run.local, run.then, run.ret)
  BY GotoIs DEF CheckProbePod, RunPCs
<1>5. TypeOK'
  <2>1. err' \in Errors /\ wrote' \in [{Main} \union DOMAIN probes -> Errors]
    BY StoreEffect DEF CheckProbePod
  <2> QED
    BY <1>1, <1>4, <2>1, RunTypes DEF RunIs, TypeOK
<1>6. ControlOK'
  BY <1>1, <1>2, <1>4 DEF ControlOK, RunIs, Between, cur, IsBackground
<1>7. EvaluationOK' /\ VerdictsAreRight'
  BY <1>1, <1>2, <1>4 DEF EvaluationOK, VerdictsAreRight, VerdictFollowsEvaluation, Foreground, RunIs
<1>8. MayRun'
  BY <1>4 DEF MayRun, RunIs
<1>9. /\ VerdictsGiven' /\ ForegroundPods' /\ BackgroundPods' /\ PollerOK' /\ ScoreOK'
  BY <1>1, <1>2, <1>3, <1>4, <1>5, <1>8, AtProbeOK DEF Judged, Between
<1> QED
  BY <1>3, <1>5, <1>6, <1>7, <1>9

\* ... that main looks at: it goes on to evaluate the probe or launches its goroutine.
LEMMA ProbePodCheckedOK ==
  ASSUME IInv, ProbePodChecked
  PROVE  IInv'
<1> USE DEF IInv
<1>1. /\ run.pc = "podChecked" /\ run.idx \in DOMAIN probes
      /\ Evaluates(run.phase, cur.mode) \/ Launches(run.phase, cur.mode)
      /\ UNCHANGED <<detailVars, err, probePod, engineState, lastEval, wrote>>
      /\ raced' \in BOOLEAN /\ (raced => raced')
  BY LoadEffect DEF ProbePodChecked, Load, ControlOK, Between, cur, TypeOK
<1>2. probes' = probes /\ probeDetails' = probeDetails /\ passedProbeCount' = passedProbeCount
  BY <1>1 DEF detailVars
<1>3. /\ StatusOK' /\ PodsOK'
      /\ \A i \in DOMAIN probes : /\ SettledBefore(i) => SettledBefore(i)'
                                  /\ SettledAfter(i) => SettledAfter(i)'
  BY <1>1, <1>2, SameDetails DEF PodsOK
<1>4. CASE err # Nil
  <2>1. RunIs(run.phase, "assign", run.strict, run.idx, Err, run.then, run.ret) /\ UNCHANGED poller
    BY <1>4, LocalIs DEF ProbePodChecked, RunPCs, Errors
  <2>2. TypeOK'
    BY <1>1, <2>1, RunTypes DEF RunIs, TypeOK
  <2>3. ControlOK'
    BY <1>1, <1>2, <2>1 DEF ControlOK, RunIs, Between, cur, IsBackground
  <2>4. EvaluationOK' /\ VerdictsAreRight'
    BY <1>1, <1>2, <2>1 DEF EvaluationOK, VerdictsAreRight, VerdictFollowsEvaluation, Foreground, RunIs
  <2>5. Carried' = Err /\ Err # Nil
    BY <2>1 DEF Carried, RunIs, Nil, Err
  <2>6. MayRun'
    BY <2>1, <2>5 DEF MayRun, RunIs, Judged
  <2>7. /\ VerdictsGiven' /\ ForegroundPods' /\ BackgroundPods' /\ PollerOK' /\ ScoreOK'
    BY <1>1, <1>2, <1>3, <2>1, <2>2, <2>5, <2>6, AtProbeOK DEF Judged, Between
  <2> QED
    BY <1>3, <2>2, <2>3, <2>4, <2>7
<1>5. CASE err = Nil /\ cur.mode \in BackgroundModes
  <2>1. /\ RunIs(run.phase, "assign", run.strict, run.idx, run.local, run.then, run.ret)
        /\ poller' = [poller EXCEPT ![run.idx] = "trigger"]
    BY <1>5, GotoIs DEF ProbePodChecked, RunPCs
  <2>2. TypeOK'
    <3>1. poller' \in [DOMAIN probes -> PollerStates]
      BY <2>1 DEF TypeOK, PollerStates
    <3> QED
      BY <1>1, <2>1, <3>1 DEF TypeOK, DetailsTypeOK, detailVars, RunIs, Runs
  <2>3. ControlOK'
    BY <1>1, <1>2, <2>1 DEF ControlOK, RunIs, Between, cur, IsBackground
  <2>4. EvaluationOK' /\ VerdictsAreRight'
    BY <1>1, <1>2, <2>1 DEF EvaluationOK, VerdictsAreRight, VerdictFollowsEvaluation, Foreground, RunIs
  <2>5. /\ IsBackground(run.idx) /\ ~IsForeground(run.idx) /\ run.phase # "PostChaos"
        /\ Launches(run.phase, probes[run.idx].mode)
    BY <1>1, <1>5
       DEF Evaluates, Launches, IsForeground, IsBackground, cur, ForegroundModes, BackgroundModes
  <2>6. SettledIn(run.phase, run.idx)'
    BY <1>2, <2>1, <2>5 DEF RunIs, SettledIn, SettledBefore, IsBackground, BackgroundModes
  <2>7. Forward /\ VerdictsGiven' /\ ForegroundPods' /\ BackgroundPods'
    BY <1>1, <1>2, <1>3, <2>1, <2>2, <2>5, <2>6, AtProbeOK DEF Judged, Between
  <2>8. PollerOK' /\ ScoreOK'
    <3>1. ~Past(run.idx) /\ Past(run.idx)' /\ run'.idx = run.idx
      BY <1>1, <2>1, ProbesOK DEF Past, Judged, RunIs
    <3> QED
      BY <1>1, <1>2, <2>1, <2>2, <2>5, <2>7, <3>1, LaunchOK
  <2> QED
    BY <1>3, <2>2, <2>3, <2>4, <2>7, <2>8
<1>6. CASE err = Nil /\ cur.mode \notin BackgroundModes
  <2>1. RunIs(run.phase, "trigger", run.strict, run.idx, run.local, run.then, run.ret) /\ UNCHANGED poller
    BY <1>6, GotoIs DEF ProbePodChecked, RunPCs
  <2>2. TypeOK'
    BY <1>1, <2>1, RunTypes DEF RunIs, TypeOK
  <2>3. Evaluates(run.phase, cur.mode)
    BY <1>1, <1>6 DEF Launches, BackgroundModes
  <2>4. ControlOK'
    BY <1>1, <1>2, <2>1, <2>3 DEF ControlOK, RunIs, Between, cur, IsBackground
  <2>5. EvaluationOK' /\ VerdictsAreRight'
    BY <1>1, <1>2, <2>1 DEF EvaluationOK, VerdictsAreRight, VerdictFollowsEvaluation, Foreground, RunIs
  <2>6. MayRun'
    BY <2>1 DEF MayRun, RunIs
  <2>7. /\ VerdictsGiven' /\ ForegroundPods' /\ BackgroundPods' /\ PollerOK' /\ ScoreOK'
    BY <1>1, <1>2, <1>3, <2>1, <2>2, <2>6, AtProbeOK DEF Judged, Between
  <2> QED
    BY <1>3, <2>2, <2>4, <2>5, <2>7
<1> QED
  BY <1>4, <1>5, <1>6

\* The command of a probe is parsed.
LEMMA TriggerOK ==
  ASSUME IInv, Trigger
  PROVE  IInv'
<1> USE DEF IInv
<1>1. /\ run.pc = "trigger" /\ run.idx \in DOMAIN probes
      /\ UNCHANGED <<detailVars, poller, probePod, engineState, lastEval, raced>>
  BY DEF Trigger, ControlOK, Between
<1>2. probes' = probes /\ probeDetails' = probeDetails /\ passedProbeCount' = passedProbeCount
  BY <1>1 DEF detailVars
<1>3. /\ StatusOK' /\ PodsOK'
      /\ \A i \in DOMAIN probes : /\ SettledBefore(i) => SettledBefore(i)'
                                  /\ SettledAfter(i) => SettledAfter(i)'
  BY <1>1, <1>2, SameDetails DEF PodsOK
<1>4. RunIs(run.phase, "compare", run.strict, run.idx, run.local, run.then, run.ret)
  BY GotoIs DEF Trigger, RunPCs
<1>5. TypeOK'
  <2>1. err' \in Errors /\ wrote' \in [{Main} \union DOMAIN probes -> Errors]
    BY StoreEffect DEF Trigger, ParseCommand, TypeOK
  <2> QED
    BY <1>1, <1>4, <2>1, RunTypes DEF RunIs, TypeOK
<1>6. ControlOK'
  BY <1>1, <1>2, <1>4 DEF ControlOK, RunIs, Between, cur, IsBackground
<1>7. EvaluationOK' /\ VerdictsAreRight'
  BY <1>1, <1>2, <1>4 DEF EvaluationOK, VerdictsAreRight, VerdictFollowsEvaluation, Foreground, RunIs
<1>8. MayRun'
  BY <1>4 DEF MayRun, RunIs
<1>9. /\ VerdictsGiven' /\ ForegroundPods' /\ BackgroundPods' /\ PollerOK' /\ ScoreOK'
  BY <1>1, <1>2, <1>3, <1>4, <1>5, <1>8, AtProbeOK DEF Judged, Between
<1> QED
  BY <1>3, <1>5, <1>6, <1>7, <1>9

\* The outcome of the evaluation is kept in the handler's err, or in the one of the package.
LEMMA ValidateResultOK ==
  ASSUME IInv, ValidateResult
  PROVE  IInv'
<1> USE DEF IInv
<1>1. /\ run.pc = "compare" /\ run.idx \in DOMAIN probes
      /\ UNCHANGED <<detailVars, poller, probePod, engineState, raced>>
  BY DEF ValidateResult, ControlOK, Between
<1>2. probes' = probes /\ probeDetails' = probeDetails /\ passedProbeCount' = passedProbeCount
  BY <1>1 DEF detailVars
<1>3. /\ StatusOK' /\ PodsOK'
      /\ \A i \in DOMAIN probes : /\ SettledBefore(i) => SettledBefore(i)'
                                  /\ SettledAfter(i) => SettledAfter(i)'
  BY <1>1, <1>2, SameDetails DEF PodsOK
<1>4. PICK e \in Errors :
        /\ lastEval' = [lastEval EXCEPT ![run.idx] = e]
        /\ IF OwnErr THEN /\ run' = [run EXCEPT !.pc = "mark", !.local = e]
                          /\ UNCHANGED <<err, wrote>>
                     ELSE /\ Goto("mark")
                          /\ Store(Main, e)
  BY DEF ValidateResult
<1>5. PICK local \in Errors :
        /\ RunIs(run.phase, "mark", run.strict, run.idx, local, run.then, run.ret)
        /\ OwnErr => local = e
  <2>1. CASE OwnErr
    BY <1>4, <2>1, LocalIs DEF RunPCs
  <2>2. CASE ~OwnErr
    <3>1. run.local \in Errors
      BY DEF TypeOK
    <3> QED
      BY <1>4, <2>2, <3>1, GotoIs DEF RunPCs
  <2> QED
    BY <2>1, <2>2
<1>6. /\ err' \in Errors /\ wrote' \in [{Main} \union DOMAIN probes -> Errors]
      /\ ~OwnErr => wrote'[Main] = e
  BY <1>4, StoreEffect DEF TypeOK
<1>7. /\ lastEval' \in [DOMAIN probes -> Errors \union {"none"}] /\ lastEval'[run.idx] = e
      /\ \A i \in DOMAIN probes \ {run.idx} : lastEval'[i] = lastEval[i]
  BY <1>1, <1>4 DEF TypeOK
<1>8. TypeOK'
  BY <1>1, <1>5, <1>6, <1>7 DEF TypeOK, DetailsTypeOK, detailVars, RunIs, Runs
<1>9. ControlOK'
  BY <1>1, <1>2, <1>5 DEF ControlOK, RunIs, Between, cur, IsBackground, Judges
<1>10. EvaluationOK'
  <2>1. OwnErr' = OwnErr
    BY <1>2, <1>5 DEF OwnErr, cur, RunIs
  <2> QED
    BY <1>2, <1>5, <1>6, <1>7, <2>1 DEF EvaluationOK, RunIs
<1>11. VerdictsAreRight'
  BY <1>1, <1>2, <1>5, <1>7 DEF VerdictsAreRight, VerdictFollowsEvaluation, Foreground, RunIs
<1>12. MayRun'
  BY <1>5 DEF MayRun, RunIs
<1>13. /\ VerdictsGiven' /\ ForegroundPods' /\ BackgroundPods' /\ PollerOK' /\ ScoreOK'
  BY <1>1, <1>2, <1>3, <1>5, <1>8, <1>12, AtProbeOK DEF Judged, Between
<1> QED
  BY <1>3, <1>8, <1>9, <1>10, <1>11, <1>13

\* if err = ...; err != nil { return err }
LEMMA StoreReturnedOK ==
  ASSUME IInv, StoreReturned
  PROVE  IInv'
<1> USE DEF IInv
<1>1. /\ run.pc = "keep" /\ run.idx \in DOMAIN probes /\ run.local \in Errors
      /\ UNCHANGED <<detailVars, poller, probePod, engineState, lastEval, raced>>
  BY DEF StoreReturned, ControlOK, Between, TypeOK
<1>2. probes' = probes /\ probeDetails' = probeDetails /\ passedProbeCount' = passedProbeCount
  BY <1>1 DEF detailVars
<1>3. /\ StatusOK' /\ PodsOK'
      /\ \A i \in DOMAIN probes : /\ SettledBefore(i) => SettledBefore(i)'
                                  /\ SettledAfter(i) => SettledAfter(i)'
  BY <1>1, <1>2, SameDetails DEF PodsOK
<1>4. RunIs(run.phase, "kept", run.strict, run.idx, run.local, run.then, run.ret)
  BY GotoIs DEF StoreReturned, RunPCs
<1>5. err' \in Errors /\ wrote' \in [{Main} \union DOMAIN probes -> Errors] /\ wrote'[Main] = run.local
  BY <1>1, StoreEffect DEF StoreReturned
<1>6. TypeOK'
  BY <1>1, <1>4, <1>5, RunTypes DEF RunIs, TypeOK
<1>7. ControlOK'
  BY <1>1, <1>2, <1>4 DEF ControlOK, RunIs, Between, cur, IsBackground
<1>8. EvaluationOK' /\ VerdictsAreRight'
  BY <1>1, <1>2, <1>4 DEF EvaluationOK, VerdictsAreRight, VerdictFollowsEvaluation, Foreground, RunIs
<1>9. Carried' = Carried
  BY <1>1, <1>4, <1>5 DEF Carried, RunIs
<1>10. MayRun => MayRun'
  BY <1>1, <1>4, <1>9 DEF MayRun, RunIs, Judged
<1>11. ~raced' /\ run.strict /\ Carried' = Nil => SettledIn(run.phase, run.idx)'
  <2>1. ~raced' /\ run.strict /\ Carried' = Nil => SettledIn(run.phase, run.idx)
    BY <1>1, <1>9 DEF VerdictsGiven, Judged
  <2> QED
    BY <1>1, <1>3, <1>4, <2>1 DEF SettledIn, RunIs
<1>12. ~raced' /\ probePod'[run.idx] = "running" /\ run.ret = Nil
         /\ (IsForeground(run.idx) \/ (run.phase = "PostChaos" /\ run.strict)) => MayRun'
  BY <1>1, <1>10, ProbesOK
     DEF ForegroundPods, BackgroundPods, Between, IsForeground, IsBackground, Modes
<1>13. /\ VerdictsGiven' /\ ForegroundPods' /\ BackgroundPods' /\ PollerOK' /\ ScoreOK'
  BY <1>1, <1>2, <1>3, <1>4, <1>6, <1>11, <1>12, AtProbeOK DEF Judged, Between
<1> QED
  BY <1>3, <1>6, <1>7, <1>8, <1>13

LEMMA LoadReturnedOK ==
  ASSUME IInv, LoadReturned
  PROVE  IInv'
<1> USE DEF IInv
<1>1. /\ run.pc = "kept" /\ run.idx \in DOMAIN probes
      /\ err \in Errors /\ run.then \in {"assign", "deletePod"}
      /\ UNCHANGED <<detailVars, err, poller, probePod, engineState, lastEval, wrote>>
      /\ raced' \in BOOLEAN /\ (raced => raced') /\ (~raced' => ~raced /\ err = wrote[Main])
  BY LoadEffect DEF LoadReturned, Load, ControlOK, Between, TypeOK
<1>2. probes' = probes /\ probeDetails' = probeDetails /\ passedProbeCount' = passedProbeCount
  BY <1>1 DEF detailVars
<1>3. /\ StatusOK' /\ PodsOK'
      /\ \A i \in DOMAIN probes : /\ SettledBefore(i) => SettledBefore(i)'
                                  /\ SettledAfter(i) => SettledAfter(i)'
  BY <1>1, <1>2, SameDetails DEF PodsOK
<1>4. PICK pc \in {"assign", "deletePod"} :
        /\ pc = (IF err = Nil THEN run.then ELSE "assign")
        /\ RunIs(run.phase, pc, run.strict, run.idx, err, run.then, run.ret)
  <2> DEFINE pc == IF err = Nil THEN run.then ELSE "assign"
  <2>1. pc \in {"assign", "deletePod"} /\ pc \in RunPCs
    BY <1>1 DEF RunPCs
  <2>2. run' = [run EXCEPT !.pc = pc, !.local = err]
    BY DEF LoadReturned, TypeOK
  <2> HIDE DEF pc
  <2>3. RunIs(run.phase, pc, run.strict, run.idx, err, run.then, run.ret)
    BY <1>1, <2>1, <2>2, LocalIs
  <2> QED
    BY <2>1, <2>3 DEF pc
<1>5. TypeOK'
  BY <1>1, <1>4, RunTypes DEF RunIs, TypeOK
<1>6. ControlOK'
  BY <1>1, <1>2, <1>4 DEF ControlOK, RunIs, Between, cur, IsBackground
<1>7. EvaluationOK' /\ VerdictsAreRight'
  BY <1>1, <1>2, <1>4 DEF EvaluationOK, VerdictsAreRight, VerdictFollowsEvaluation, Foreground, RunIs
<1>8. ~raced' => Carried = err /\ (pc = "assign" => Carried' = err)
  BY <1>1, <1>4 DEF Carried, RunIs
<1>9. pc = "deletePod" => err = Nil
  BY <1>4
<1>10. ~raced' /\ MayRun => MayRun'
  <2>1. CASE err = Nil
    <3>1. ~raced' /\ MayRun => run.then = "deletePod"
      BY <1>1, <1>8, <2>1 DEF MayRun, Nil, Err
    <3> QED
      BY <1>4, <2>1, <3>1 DEF MayRun, RunIs
  <2>2. CASE err = Err
    <3>1. pc = "assign"
      BY <1>4, <2>2 DEF Nil, Err
    <3> QED
      BY <1>4, <1>8, <2>2, <3>1 DEF MayRun, RunIs, Judged
  <2> QED
    BY <1>1, <2>1, <2>2 DEF Errors
<1>11. ~raced' /\ run.strict /\ Carried' = Nil => SettledIn(run.phase, run.idx)'
  <2>1. ~raced' /\ run.strict /\ Carried' = Nil => SettledIn(run.phase, run.idx)
    BY <1>1, <1>4, <1>8, <1>9 DEF VerdictsGiven, Judged
  <2> QED
    BY <1>1, <1>3, <1>4, <2>1 DEF SettledIn, RunIs
<1>12. ~raced' /\ probePod'[run.idx] = "running" /\ run.ret = Nil
         /\ (IsForeground(run.idx) \/ (run.phase = "PostChaos" /\ run.strict)) => MayRun'
  BY <1>1, <1>10, ProbesOK
     DEF ForegroundPods, BackgroundPods, Between, IsForeground, IsBackground, Modes
<1>13. /\ VerdictsGiven' /\ ForegroundPods' /\ BackgroundPods' /\ PollerOK' /\ ScoreOK'
  BY <1>1, <1>2, <1>3, <1>4, <1>5, <1>11, <1>12, AtProbeOK DEF Judged, Between
<1> QED
  BY <1>3, <1>5, <1>6, <1>7, <1>13

\* The deletion of the pod is asked for, or fails.
LEMMA DeleteProbePodOK ==
  ASSUME IInv, DeleteProbePod
  PROVE  IInv'
<1> USE DEF IInv
<1>1. /\ run.pc = "deletePod" /\ run.idx \in DOMAIN probes
      /\ UNCHANGED <<detailVars, err, poller, engineState, lastEval, wrote, raced>>
  BY DEF DeleteProbePod, ControlOK, Between
<1>2. probes' = probes /\ probeDetails' = probeDetails /\ passedProbeCount' = passedProbeCount
  BY <1>1 DEF detailVars
<1>3. /\ StatusOK'
      /\ \A i \in DOMAIN probes : /\ SettledBefore(i) => SettledBefore(i)'
                                  /\ SettledAfter(i) => SettledAfter(i)'
  BY <1>2, SameDetails
<1>4. PICK e \in Errors :
        /\ Keep(e, "assign")
        /\ \/ /\ e = Nil /\ probePod[run.idx] \in {"running", "terminating"}
              /\ probePod' = [probePod EXCEPT ![run.idx] = "terminating"]
           \/ e = Err /\ UNCHANGED probePod
  BY DEF DeleteProbePod, Errors
<1>5. PICK pc \in {"keep", "assign"} : RunIs(run.phase, pc, run.strict, run.idx, e, "assign", run.ret)
  BY <1>4, KeepIs
<1>6. /\ probePod' \in [DOMAIN probes -> PodStates]
      /\ \A i \in DOMAIN probes \ {run.idx} : probePod'[i] = probePod[i]
      /\ e = Nil => probePod[run.idx] # "none" /\ probePod'[run.idx] = "terminating"
      /\ e = Err => probePod' = probePod
  <2>1. CASE /\ e = Nil /\ probePod[run.idx] \in {"running", "terminating"}
             /\ probePod' = [probePod EXCEPT ![run.idx] = "terminating"]
    BY <1>1, <2>1 DEF TypeOK, PodStates, Nil, Err
  <2>2. CASE e = Err /\ UNCHANGED probePod
    BY <2>2 DEF TypeOK, Nil, Err
  <2> QED
    BY <1>4, <2>1, <2>2
<1>7. TypeOK'
  BY <1>1, <1>5, <1>6 DEF TypeOK, DetailsTypeOK, detailVars, RunIs, Runs
<1>8. ControlOK'
  BY <1>1, <1>2, <1>5 DEF ControlOK, RunIs, Between, cur, IsBackground
<1>9. EvaluationOK' /\ VerdictsAreRight'
  BY <1>1, <1>2, <1>5 DEF EvaluationOK, VerdictsAreRight, VerdictFollowsEvaluation, Foreground, RunIs
<1>10. PodsOK'
  <2>1. \A i \in DOMAIN probes : probePod'[i] # "none" => probePod[i] # "none"
    BY <1>6, <1>4 DEF Errors
  <2> QED
    BY <1>2, <2>1 DEF PodsOK
<1>11. Carried = Nil /\ Carried' = e
  BY <1>1, <1>5 DEF Carried, RunIs
<1>12. ~raced' /\ run.strict /\ Carried' = Nil => SettledIn(run.phase, run.idx)'
  <2>1. ~raced' /\ run.strict => SettledIn(run.phase, run.idx)
    BY <1>1, <1>11 DEF VerdictsGiven, Judged
  <2> QED
    BY <1>1, <1>3, <1>5, <2>1 DEF SettledIn, RunIs
<1>13. probePod'[run.idx] = "running" => MayRun'
  <2>1. probePod'[run.idx] = "running" => e = Err
    BY <1>6 DEF Errors
  <2> QED
    BY <1>5, <1>11, <2>1 DEF MayRun, RunIs, Judged
<1>14. /\ VerdictsGiven' /\ ForegroundPods' /\ BackgroundPods' /\ PollerOK' /\ ScoreOK'
  BY <1>1, <1>2, <1>3, <1>5, <1>6, <1>7, <1>10, <1>12, <1>13, AtProbeOK DEF Judged, Between
<1> QED
  BY <1>3, <1>7, <1>8, <1>9, <1>10, <1>14

\* The verdict of a probe: of its evaluation, or of what its goroutine has recorded.
LEMMA MarkVerdictOK ==
  ASSUME IInv, MarkVerdict
  PROVE  IInv'
<1> USE DEF IInv
<1>1. /\ run.pc = "mark" /\ run.idx \in DOMAIN probes /\ run.phase \in Phases
      /\ Judges(run.phase, probes[run.idx].mode)
      /\ UNCHANGED <<probes, verdict, phase, err, poller, probePod, engineState, lastEval, wrote>>
  BY DEF MarkVerdict, ControlOK, Between, TypeOK, cur
<1> DEFINE e == IF OwnErr THEN run.local ELSE err
           ret == MarkedVerdictError(run.idx, e)
           then == IF cur.source THEN "deletePod" ELSE "assign"
<1>2. /\ e \in Errors /\ ret \in Errors /\ then \in {"assign", "deletePod"}
      /\ MarkedVerdictInEnd(run.idx, e, run.phase) /\ Keep(ret, then)
      /\ ret = IF probes[run.idx].stopOnFailure THEN e ELSE Nil
  BY DEF MarkVerdict, MarkedVerdictError, TypeOK, Errors
<1>3. /\ raced' \in BOOLEAN /\ (raced => raced')
      /\ ~raced' => OwnErr \/ err = wrote[Main]
  BY LoadEffect DEF MarkVerdict, Load, TypeOK
<1>4. PICK pc \in {"keep", "assign", "deletePod"} :
        /\ RunIs(run.phase, pc, run.strict, run.idx, ret, then, run.ret)
        /\ pc = "deletePod" => cur.source /\ ret = Nil
        /\ pc = "assign" => ret # Nil \/ ~cur.source
  <2> DEFINE pc == IF ~ReturnsOwnErr THEN "keep" ELSE IF ret = Nil THEN then ELSE "assign"
  <2> HIDE DEF e, ret
  <2>1. RunIs(run.phase, pc, run.strict, run.idx, ret, then, run.ret)
    BY <1>2, KeepIs
  <2>2. pc \in {"keep", "assign", "deletePod"}
    OBVIOUS
  <2>3. pc = "deletePod" => cur.source /\ ret = Nil
    OBVIOUS
  <2>4. pc = "assign" => ret # Nil \/ ~cur.source
    OBVIOUS
  <2> HIDE DEF pc
  <2> QED
    BY <2>1, <2>2, <2>3, <2>4
<1> DEFINE key == IF probes[run.idx].mode \in ForegroundModes THEN run.phase ELSE probes[run.idx].mode
           v == IF e = Nil THEN "Passed" ELSE "Failed"
<1>5. /\ probeDetails' \in [DOMAIN probes -> ProbeDetails] /\ passedProbeCount' \in Nat
      /\ \A j \in DOMAIN probes \ {run.idx} : probeDetails'[j] = probeDetails[j]
      /\ probeDetails'[run.idx].phase = v
      /\ \A k \in StatusKeys :
           probeDetails'[run.idx].status[k] = IF k = key THEN v ELSE probeDetails[run.idx].status[k]
      /\ \/ passedProbeCount' = passedProbeCount
         \/ passedProbeCount' = passedProbeCount + 1 /\ CountsInPhase(probes[run.idx].mode, run.phase)
  BY <1>1, <1>2, MarkEffect
<1> HIDE DEF e, ret, then, key, v
<1>6. TypeOK'
  BY <1>1, <1>3, <1>4, <1>5 DEF TypeOK, DetailsTypeOK, RunIs, Runs
<1>7. ControlOK'
  BY <1>1, <1>4 DEF ControlOK, RunIs, Between, cur, IsBackground, then
<1>8. v \in {"Passed", "Failed"} /\ (e = Nil <=> v = "Passed")
  BY DEF v
<1>9. EvaluationOK'
  BY <1>4 DEF EvaluationOK, RunIs
<1>10. VerdictsAreRight'
  <2>1. ASSUME ~raced', NEW i \in Foreground, lastEval[i] # "none"
        PROVE  probeDetails'[i].phase = (IF lastEval[i] = Nil THEN "Passed" ELSE "Failed")
    <3>1. CASE i = run.idx
      <4>1. lastEval[i] = e
        BY <1>1, <1>3, <2>1, <3>1 DEF EvaluationOK, IsForeground, Foreground, e
      <4> QED
        BY <1>5, <3>1, <4>1 DEF v
    <3>2. CASE i # run.idx
      BY <1>3, <1>5, <2>1, <3>2 DEF VerdictsAreRight, VerdictFollowsEvaluation, Foreground
    <3> QED
      BY <3>1, <3>2
  <2> QED
    BY <1>1, <2>1 DEF VerdictsAreRight, VerdictFollowsEvaluation, Foreground
<1>11. StatusOK'
  <2>1. \A k \in StatusKeys : probeDetails'[run.idx].status[k] = "Awaited"
                              => probeDetails[run.idx].status[k] = "Awaited"
    BY <1>5, <1>8
  <2> QED
    BY <1>1, <1>5, <2>1 DEF StatusOK
<1>12. PodsOK'
  BY <1>1 DEF PodsOK
<1>13. \A i \in DOMAIN probes \ {run.idx} : /\ SettledBefore(i) => SettledBefore(i)'
                                            /\ SettledAfter(i) => SettledAfter(i)'
  BY <1>1, <1>5 DEF SettledBefore, SettledAfter, Given, IsBackground
<1>14. probeDetails'[run.idx].phase # "N/A"
  BY <1>5, <1>8
<1>15. run.phase # "PreChaos" =>
         \A i \in DOMAIN probes : i = run.idx /\ SettledBefore(i) => SettledBefore(i)'
  <2>1. ASSUME run.phase # "PreChaos", SettledBefore(run.idx), probes[run.idx].mode \in {"SOT", "Edge"}
        PROVE  /\ probeDetails'[run.idx].status["PreChaos"] # "Awaited"
               /\ probes[run.idx].stopOnFailure => probeDetails'[run.idx].status["PreChaos"] = "Passed"
    <3>1. key # "PreChaos"
      BY <2>1 DEF key, ForegroundModes
    <3>2. probeDetails'[run.idx].status["PreChaos"] = probeDetails[run.idx].status["PreChaos"]
      BY <1>5, <3>1 DEF StatusKeys
    <3> QED
      BY <2>1, <3>2 DEF SettledBefore, Given
  <2> QED
    BY <1>1, <1>14, <2>1 DEF SettledBefore, Given
<1>16. Carried' = ret
  BY <1>4, <1>5 DEF Carried, RunIs
<1>17. ret = Nil => SettledIn(run.phase, run.idx)'
  <2>1. probes' = probes /\ run'.phase = run.phase /\ run'.idx = run.idx
    BY <1>1, <1>4 DEF RunIs
  <2>2. ret = Nil /\ probes[run.idx].stopOnFailure => v = "Passed"
    BY <1>2, <1>8
  <2>3. key \in StatusKeys /\ probeDetails'[run.idx].status[key] = v
    <3>1. key \in StatusKeys
      BY <1>1, ProbesOK DEF key, Judges, Evaluates, StatusKeys, Modes, ForegroundModes, BackgroundModes
    <3> QED
      BY <1>5, <3>1
  <2>4. CASE run.phase = "PreChaos"
    <3>1. key = "PreChaos"
      BY <1>1, <2>4 DEF key, Judges, Evaluates, ForegroundModes
    <3> QED
      BY <1>8, <1>14, <2>1, <2>2, <2>3, <2>4, <3>1 DEF SettledIn, SettledBefore, Given
  <2>5. CASE run.phase = "PostChaos"
    <3>1. IF IsBackground(run.idx) THEN key = probes[run.idx].mode
                                   ELSE probes[run.idx].mode \in {"EOT", "Edge"} /\ key = "PostChaos"
      BY <1>1, <2>5 DEF key, Judges, Evaluates, ForegroundModes, BackgroundModes, IsBackground
    <3>2. probes[run.idx].mode \in {"EOT", "Edge"} => ~IsBackground(run.idx)
      BY DEF IsBackground, BackgroundModes
    <3> QED
      BY <1>8, <1>14, <2>1, <2>3, <2>5, <3>1, <3>2 DEF SettledIn, SettledAfter, Given, IsBackground
  <2>6. CASE run.phase = "DuringChaos"
    BY <2>1, <2>6 DEF SettledIn
  <2> QED
    BY <1>1, <2>4, <2>5, <2>6 DEF Phases
<1>18. probePod'[run.idx] = "running" => MayRun'
  <2>1. probePod[run.idx] = "running" => cur.source
    BY <1>1 DEF PodsOK, cur
  <2>2. ret # Nil => ret = Err
    BY <1>2 DEF Errors
  <2>3. cur.source => then = "deletePod"
    BY DEF then
  <2> QED
    BY <1>1, <1>4, <1>16, <2>1, <2>2, <2>3 DEF MayRun, RunIs, Judged
<1>19. /\ VerdictsGiven' /\ ForegroundPods' /\ BackgroundPods' /\ PollerOK' /\ Forward
       /\ passedProbeCount' = passedProbeCount => ScoreOK'
  BY <1>1, <1>3, <1>4, <1>6, <1>11, <1>12, <1>13, <1>15, <1>16, <1>17, <1>18, AtProbeOK DEF Judged, Between
<1>20. ASSUME passedProbeCount' = passedProbeCount + 1, CountsInPhase(probes[run.idx].mode, run.phase)
       PROVE  ScoreOK'
  <2>1. Scored \subseteq Scored' /\ ScoredTwice \subseteq ScoredTwice' /\ ScoredByPoller' = ScoredByPoller
    BY <1>1, <1>19, ForwardScores DEF ScoredByPoller
  <2>2. run.idx \in Scored' \ Scored \/ run.idx \in ScoredTwice' \ ScoredTwice
    <3>1. PICK i \in DOMAIN probes : i = run.idx
      BY <1>1
    <3>2. ~Past(i) /\ Past(i)'
      BY <1>1, <1>4, <3>1, ProbesOK DEF Past, Judged, RunIs
    <3>3. run'.phase = run.phase /\ run'.strict = run.strict /\ run'.pc # "fetch" /\ probes' = probes
      BY <1>1, <1>4 DEF RunIs
    <3>4. probes[i].mode \in Modes
      BY <1>1, ProbesOK
    <3>5. CASE probes[i].mode = "SOT"
      <4>1. run.phase = "PreChaos"
        BY <1>1, <3>1, <3>5 DEF Judges, Evaluates, BackgroundModes
      <4>2. i \in Scored' /\ i \notin Scored
        BY <3>1, <3>2, <3>3, <3>5, <4>1 DEF Scored, IsBackground, BackgroundModes
      <4> QED
        BY <3>1, <4>2
    <3>6. CASE probes[i].mode \in {"EOT", "Edge"}
      <4>1. run.phase = "PostChaos"
        BY <1>1, <1>20, <3>1, <3>6 DEF Judges, Evaluates, BackgroundModes, CountsInPhase
      <4>2. run.strict
        BY <1>1, <3>1, <3>6 DEF ControlOK, IsBackground, BackgroundModes, Between, TypeOK
      <4>3. i \in Scored' /\ i \notin Scored
        BY <3>1, <3>2, <3>3, <3>6, <4>1, <4>2 DEF Scored, IsBackground, BackgroundModes
      <4> QED
        BY <3>1, <4>3
    <3>7. CASE IsBackground(i)
      <4>1. run.phase = "PostChaos" /\ run.pc # "fetch"
        BY <1>1, <3>1, <3>7 DEF Judges, Evaluates, IsBackground, BackgroundModes
      <4>2. CASE run.strict
        BY <3>1, <3>2, <3>3, <3>7, <4>1, <4>2 DEF ScoredTwice, IsBackground
      <4>3. CASE ~run.strict
        <5>1. i \in Scored' /\ i \notin Scored
          BY <3>1, <3>2, <3>3, <3>7, <4>1, <4>3 DEF Scored, IsBackground, BackgroundModes
        <5> QED
          BY <3>1, <5>1
      <4> QED
        BY <4>2, <4>3 DEF TypeOK
    <3> QED
      BY <3>4, <3>5, <3>6, <3>7 DEF Modes, ForegroundModes, IsBackground
  <2>3. Bound + 1 <= Bound' /\ Bound \in Nat /\ Bound' \in Nat
    BY <1>1, <2>1, <2>2, BoundSteps
  <2> QED
    BY <1>20, <2>3 DEF ScoreOK, Bound, TypeOK, DetailsTypeOK
<1> QED
  BY <1>5, <1>6, <1>7, <1>9, <1>10, <1>11, <1>12, <1>19, <1>20

----------------------------------------------------------------------------
(* The steps of a polling goroutine *)

\* What such a step leaves alone.
LEMMA PollerStepOK ==
  ASSUME IInv, UNCHANGED <<run, probes, verdict, phase, probePod>>,
         NEW i \in DOMAIN probes, poller[i] # "none",
         NEW s \in PollerStates \ {"none"}, MoveTo(i, s),
         s \in {"stop", "mark", "patch"} => probes[i].stopOnFailure,
         err' \in Errors, engineState' \in {"active", "stop"},
         wrote' \in [{Main} \union DOMAIN probes -> Errors], wrote'[Main] = wrote[Main],
         lastEval' \in [DOMAIN probes -> Errors \union {"none"}],
         \A j \in DOMAIN probes \ {i} : lastEval'[j] = lastEval[j],
         raced' \in BOOLEAN, raced => raced',
         probeDetails' \in [DOMAIN probes -> ProbeDetails],
         \A j \in DOMAIN probes \ {i} : probeDetails'[j] = probeDetails[j],
         probeDetails'[i].phase = "N/A" => probeDetails[i].phase = "N/A",
         \A k \in StatusKeys : probeDetails'[i].status[k] = "Awaited"
                                 => probeDetails[i].status[k] = "Awaited",
         poller[i] \in {"patch", "done"} => s \in {"patch", "done"},
         \/ passedProbeCount' = passedProbeCount
         \/ passedProbeCount' = passedProbeCount + 1 /\ poller[i] = "mark" /\ s = "patch"
  PROVE  IInv'
<1> USE DEF IInv
<1>1. /\ passedProbeCount \in Nat /\ poller \in [DOMAIN probes -> PollerStates]
      /\ run' = run /\ probes' = probes /\ probePod' = probePod
  BY DEF TypeOK, DetailsTypeOK
<1>2. /\ poller' \in [DOMAIN probes -> PollerStates] /\ poller'[i] = s
      /\ \A j \in DOMAIN probes \ {i} : poller'[j] = poller[j]
  BY <1>1 DEF MoveTo
<1>3. IsBackground(i) /\ ~IsForeground(i) /\ Launched(i)
  BY DEF PollerOK, IsForeground, IsBackground, ForegroundModes, BackgroundModes
<1>4. passedProbeCount' \in Nat
  BY <1>1
<1>5. TypeOK'
  BY <1>1, <1>2, <1>4 DEF TypeOK, DetailsTypeOK
<1>6. ControlOK' /\ PodsOK'
  BY <1>1 DEF ControlOK, PodsOK, cur, IsBackground
<1>7. PollerOK'
  <2>1. ASSUME NEW j \in DOMAIN probes
        PROVE  /\ (poller[j] # "none" => IsBackground(j) /\ Launched(j))'
               /\ (poller[j] \in {"stop", "mark", "patch"} => probes[j].stopOnFailure)'
    <3>1. Launched(j)' <=> Launched(j)
      BY <1>1 DEF Launched, Past
    <3>2. CASE j = i
      BY <1>1, <1>2, <1>3, <3>1, <3>2 DEF IsBackground
    <3>3. CASE j # i
      BY <1>1, <1>2, <3>1, <3>3 DEF PollerOK, IsBackground
    <3> QED
      BY <3>2, <3>3
  <2> QED
    BY <1>1, <2>1 DEF PollerOK
<1>8. EvaluationOK'
  BY <1>1, <1>3 DEF EvaluationOK, IsForeground, OwnErr, cur, ControlOK, Between
<1>9. VerdictsAreRight'
  BY <1>1, <1>3 DEF VerdictsAreRight, VerdictFollowsEvaluation, Foreground, IsForeground
<1>10. StatusOK'
  BY <1>1 DEF StatusOK
<1>11. ASSUME NEW j \in DOMAIN probes
       PROVE  (SettledBefore(j) => SettledBefore(j)') /\ (SettledAfter(j) => SettledAfter(j)')
  <2>1. CASE j = i
    <3>1. probes[i].mode \in BackgroundModes
      BY <1>3 DEF IsBackground
    <3>2. Given(i, probes[i].mode) => Given(i, probes[i].mode)'
      BY <1>1, <3>1 DEF Given, StatusKeys, BackgroundModes
    <3> QED
      BY <1>1, <2>1, <3>1, <3>2 DEF SettledBefore, SettledAfter, IsBackground, BackgroundModes
  <2>2. CASE j # i
    BY <1>1, <2>2 DEF SettledBefore, SettledAfter, Given, IsBackground
  <2> QED
    BY <2>1, <2>2
<1>12. VerdictsGiven'
  <2>1. Carried' = Carried
    BY <1>1 DEF Carried
  <2>2. \A j \in DOMAIN probes : SettledIn(run.phase, j) => SettledIn(run.phase, j)'
    BY <1>1, <1>11 DEF SettledIn
  <2>3. run.pc \in Judged => run.idx \in DOMAIN probes
    BY DEF ControlOK, Judged, Between
  <2>4. ASSUME run.strict, run.pc \in Judged, SettledIn(run.phase, run.idx)
        PROVE  SettledIn(run.phase, run.idx)'
    <3>1. PICK j \in DOMAIN probes : j = run.idx
      BY <2>3, <2>4
    <3> QED
      BY <1>1, <2>2, <2>4, <3>1
  <2> QED
    BY <1>1, <1>11, <2>1, <2>2, <2>4 DEF VerdictsGiven
<1>13. ForegroundPods' /\ BackgroundPods'
  <2>1. MayRun' <=> MayRun
    BY <1>1 DEF MayRun, Carried
  <2> QED
    BY <1>1, <2>1 DEF ForegroundPods, BackgroundPods, IsForeground, IsBackground
<1>14. ScoreOK'
  <2>1. Scored' = Scored /\ ScoredTwice' = ScoredTwice
    BY <1>1 DEF Scored, ScoredTwice, Past, IsBackground
  <2>2. ScoredByPoller \subseteq ScoredByPoller'
    BY <1>1, <1>2 DEF ScoredByPoller
  <2>3. CASE passedProbeCount' = passedProbeCount
    <3>1. Bound <= Bound' /\ Bound \in Nat /\ Bound' \in Nat
      BY <1>1, <2>1, <2>2, BoundGrows
    <3> QED
      BY <1>1, <2>3, <3>1 DEF ScoreOK, Bound
  <2>4. CASE passedProbeCount' = passedProbeCount + 1 /\ poller[i] = "mark" /\ s = "patch"
    <3>1. i \in ScoredByPoller' /\ i \notin ScoredByPoller
      BY <1>1, <1>2, <2>4 DEF ScoredByPoller
    <3>2. Bound + 1 <= Bound' /\ Bound \in Nat /\ Bound' \in Nat
      BY <1>1, <2>1, <2>2, <3>1, BoundSteps
    <3> QED
      BY <1>1, <2>4, <3>2 DEF ScoreOK, Bound
  <2> QED
    BY <2>3, <2>4
<1> QED
  BY <1>5, <1>6, <1>7, <1>8, <1>9, <1>10, <1>12, <1>13, <1>14

\* A goroutine evaluates its probe, and records a failure.
LEMMA PollOK ==
  ASSUME IInv, NEW i \in DOMAIN probes, Poll(i)
  PROVE  IInv'
<1>1. /\ probeDetails \in [DOMAIN probes -> ProbeDetails] /\ err \in Errors
      /\ wrote \in [{Main} \union DOMAIN probes -> Errors] /\ raced \in BOOLEAN
      /\ engineState \in {"active", "stop"} /\ lastEval \in [DOMAIN probes -> Errors \union {"none"}]
      /\ i # Main
  BY ProbesOK DEF IInv, TypeOK, DetailsTypeOK, Main
<1>2. CASE PollTrigger(i)
  <2>1. /\ err' \in Errors /\ wrote' \in [{Main} \union DOMAIN probes -> Errors] /\ wrote'[Main] = wrote[Main]
    BY <1>1, <1>2, StoreEffect DEF PollTrigger, ParseCommand, IInv
  <2>2. UNCHANGED <<run, probes, verdict, phase, probePod, probeDetails, passedProbeCount, engineState, lastEval, raced>>
    BY <1>2 DEF PollTrigger, detailVars
  <2>3. poller[i] = "trigger" /\ MoveTo(i, "compare") /\ "compare" \in PollerStates \ {"none"}
    BY <1>2 DEF PollTrigger, PollerStates
  <2> QED
    BY <1>1, <2>1, <2>2, <2>3, PollerStepOK
<1>3. CASE PollCompare(i)
  <2>1. PICK e \in Errors : Store(i, e) /\ lastEval' = [lastEval EXCEPT ![i] = e]
    BY <1>3 DEF PollCompare
  <2>2. /\ err' \in Errors /\ wrote' \in [{Main} \union DOMAIN probes -> Errors] /\ wrote'[Main] = wrote[Main]
    BY <1>1, <2>1, StoreEffect DEF IInv
  <2>3. /\ lastEval' \in [DOMAIN probes -> Errors \union {"none"}]
        /\ \A j \in DOMAIN probes \ {i} : lastEval'[j] = lastEval[j]
    BY <1>1, <2>1
  <2>4. UNCHANGED <<run, probes, verdict, phase, probePod, probeDetails, passedProbeCount, engineState, raced>>
    BY <1>3 DEF PollCompare, detailVars
  <2>5. poller[i] = "compare" /\ MoveTo(i, "check") /\ "check" \in PollerStates \ {"none"}
    BY <1>3 DEF PollCompare, PollerStates
  <2> QED
    BY <1>1, <2>2, <2>3, <2>4, <2>5, PollerStepOK
<1>4. CASE PollCheck(i)
  <2>1. raced' \in BOOLEAN /\ (raced => raced')
    BY <1>1, <1>4 DEF PollCheck, Load
  <2>2. UNCHANGED <<run, probes, verdict, phase, probePod, probeDetails, passedProbeCount, engineState, lastEval, err, wrote>>
    BY <1>4 DEF PollCheck, detailVars
  <2>3. PICK s \in {"trigger", "record"} : MoveTo(i, s)
    BY <1>4 DEF PollCheck
  <2>4. poller[i] = "check" /\ s \in PollerStates \ {"none"}
    BY <1>4 DEF PollCheck, PollerStates
  <2> QED
    BY <1>1, <2>1, <2>2, <2>3, <2>4, PollerStepOK
<1>5. CASE PollRecord(i)
  <2>1. raced' \in BOOLEAN /\ (raced => raced')
    BY <1>1, <1>5 DEF PollRecord, Load
  <2>2. UNCHANGED <<run, probes, verdict, phase, probePod, passedProbeCount, engineState, lastEval, err, wrote>>
    BY <1>5 DEF PollRecord
  <2>3. /\ probeDetails' \in [DOMAIN probes -> ProbeDetails]
        /\ \A j \in DOMAIN probes \ {i} : probeDetails'[j] = probeDetails[j]
        /\ probeDetails'[i].phase = probeDetails[i].phase /\ probeDetails'[i].status = probeDetails[i].status
    <3>1. probeDetails' = [probeDetails EXCEPT ![i] = [@ EXCEPT !.failedWithError = err]]
      BY <1>5 DEF PollRecord
    <3> QED
      BY <1>1, <3>1 DEF ProbeDetails
  <2>4. PICK s \in {"stop", "done"} : MoveTo(i, s) /\ (s = "stop" => probes[i].stopOnFailure)
    BY <1>5 DEF PollRecord
  <2>5. poller[i] = "record" /\ s \in PollerStates \ {"none"}
    BY <1>5 DEF PollRecord, PollerStates
  <2> QED
    BY <1>1, <2>1, <2>2, <2>3, <2>4, <2>5, PollerStepOK
<1> QED
  BY <1>2, <1>3, <1>4, <1>5 DEF Poll

\* The timer of an OnChaos probe has run out.
LEMMA TimeIsUpOK ==
  ASSUME IInv, NEW i \in DOMAIN probes, TimeIsUp(i)
  PROVE  IInv'
<1>1. /\ probeDetails \in [DOMAIN probes -> ProbeDetails] /\ err \in Errors
      /\ wrote \in [{Main} \union DOMAIN probes -> Errors] /\ raced \in BOOLEAN
      /\ engineState \in {"active", "stop"} /\ lastEval \in [DOMAIN probes -> Errors \union {"none"}]
  BY DEF IInv, TypeOK, DetailsTypeOK
<1>2. UNCHANGED <<run, probes, verdict, phase, probePod, probeDetails, passedProbeCount, engineState, lastEval,
                  err, wrote, raced>>
  BY DEF TimeIsUp, detailVars
<1>3. poller[i] = "trigger" /\ MoveTo(i, "done") /\ "done" \in PollerStates \ {"none"}
  BY DEF TimeIsUp, PollerStates
<1> QED
  BY <1>1, <1>2, <1>3, PollerStepOK

\* A goroutine stops the chaos: it marks the verdict and patches the chaosengine.
LEMMA StopChaosEngineOK ==
  ASSUME IInv, NEW i \in DOMAIN probes, StopChaosEngine(i)
  PROVE  IInv'
<1>1. /\ probeDetails \in [DOMAIN probes -> ProbeDetails] /\ err \in Errors
      /\ wrote \in [{Main} \union DOMAIN probes -> Errors] /\ raced \in BOOLEAN
      /\ engineState \in {"active", "stop"} /\ lastEval \in [DOMAIN probes -> Errors \union {"none"}]
      /\ i # Main
  BY ProbesOK DEF IInv, TypeOK, DetailsTypeOK, Main
<1>2. poller[i] \in {"stop", "mark", "patch"} => probes[i].stopOnFailure
  BY DEF IInv, PollerOK
<1>3. CASE StopCheckRecorded(i)
  <2>1. probeDetails[i].failedWithError \in Errors
    BY <1>1 DEF ProbeDetails
  <2>2. /\ err' \in Errors /\ wrote' \in [{Main} \union DOMAIN probes -> Errors] /\ wrote'[Main] = wrote[Main]
    BY <1>1, <1>3, <2>1, StoreEffect DEF StopCheckRecorded, IInv
  <2>3. UNCHANGED <<run, probes, verdict, phase, probePod, probeDetails, passedProbeCount, engineState, lastEval, raced>>
    BY <1>3 DEF StopCheckRecorded, detailVars
  <2>4. poller[i] = "stop" /\ MoveTo(i, "mark") /\ "mark" \in PollerStates \ {"none"}
    BY <1>3 DEF StopCheckRecorded, PollerStates
  <2> QED
    BY <1>1, <1>2, <2>2, <2>3, <2>4, PollerStepOK
<1>4. CASE StopMarkVerdict(i)
  <2>1. raced' \in BOOLEAN /\ (raced => raced')
    BY <1>1, <1>4 DEF StopMarkVerdict, Load
  <2>2. UNCHANGED <<run, probes, verdict, phase, probePod, engineState, lastEval, err, wrote>>
    BY <1>4 DEF StopMarkVerdict
  <2>3. /\ probeDetails' \in [DOMAIN probes -> ProbeDetails]
        /\ \A j \in DOMAIN probes \ {i} : probeDetails'[j] = probeDetails[j]
        /\ probeDetails'[i].phase # "N/A"
        /\ \A k \in StatusKeys : probeDetails'[i].status[k] = "Awaited"
                                   => probeDetails[i].status[k] = "Awaited"
        /\ passedProbeCount' \in {passedProbeCount, passedProbeCount + 1}
    <3>1. MarkedVerdictInEnd(i, err, "PostChaos") /\ "PostChaos" \in Phases
      BY <1>4 DEF StopMarkVerdict, Phases
    <3> QED
      BY <1>1, <3>1, MarkEffect DEF IInv
  <2>4. poller[i] = "mark" /\ MoveTo(i, "patch") /\ "patch" \in PollerStates \ {"none"}
    BY <1>4 DEF StopMarkVerdict, PollerStates
  <2> QED
    BY <1>1, <1>2, <2>1, <2>2, <2>3, <2>4, PollerStepOK
<1>5. CASE StopPatchEngine(i)
  <2>1. engineState' \in {"active", "stop"}
    BY <1>1, <1>5 DEF StopPatchEngine
  <2>2. UNCHANGED <<run, probes, verdict, phase, probePod, probeDetails, passedProbeCount, lastEval, err, wrote, raced>>
    BY <1>5 DEF StopPatchEngine, detailVars
  <2>3. poller[i] = "patch" /\ MoveTo(i, "done") /\ "done" \in PollerStates \ {"none"}
    BY <1>5 DEF StopPatchEngine, PollerStates
  <2> QED
    BY <1>1, <1>2, <2>1, <2>2, <2>3, PollerStepOK
<1> QED
  BY <1>3, <1>4, <1>5 DEF StopChaosEngine

----------------------------------------------------------------------------
(* The inductive invariant holds *)

\* A pod that is being deleted ends.
LEMMA PodTerminatesOK ==
  ASSUME IInv, NEW i \in DOMAIN probes, PodTerminates(i)
  PROVE  IInv'
<1> USE DEF IInv
<1>1. /\ UNCHANGED <<detailVars, err, run, poller, engineState, lastEval, wrote, raced>>
      /\ probePod[i] = "terminating"
      /\ probePod' \in [DOMAIN probes -> PodStates]
      /\ probePod'[i] = "gone" /\ \A j \in DOMAIN probes \ {i} : probePod'[j] = probePod[j]
  BY DEF PodTerminates, TypeOK, PodStates
<1>2. probes' = probes /\ probeDetails' = probeDetails /\ passedProbeCount' = passedProbeCount
  BY <1>1 DEF detailVars
<1>3. TypeOK'
  BY <1>1 DEF TypeOK, DetailsTypeOK, detailVars
<1>4. ControlOK' /\ EvaluationOK' /\ VerdictsAreRight'
  BY <1>1, <1>2
     DEF ControlOK, cur, IsBackground, EvaluationOK, IsForeground, OwnErr,
         VerdictsAreRight, VerdictFollowsEvaluation, Foreground
<1>5. PollerOK' /\ ScoreOK'
  <2>1. Forward
    BY <1>1, <1>2 DEF Forward, Past
  <2> QED
    BY <1>1, <1>2, <1>3, <2>1, ForwardOK
<1>6. PodsOK'
  BY <1>1, <1>2 DEF PodsOK
<1>7. StatusOK' /\ VerdictsGiven'
  BY <1>1, <1>2, SMTT(30)
  DEF StatusOK, VerdictsGiven, SettledIn, SettledBefore, SettledAfter, Given, IsBackground, Carried
<1>8. ForegroundPods' /\ BackgroundPods'
  <2>1. MayRun' <=> MayRun
    BY <1>1 DEF MayRun, Carried
  <2>2. \A j \in DOMAIN probes : probePod'[j] = "running" => probePod[j] = "running"
    BY <1>1
  <2> QED
    BY <1>1, <1>2, <2>1, <2>2 DEF ForegroundPods, BackgroundPods, IsForeground, IsBackground
<1> QED
  BY <1>3, <1>4, <1>5, <1>6, <1>7, <1>8

LEMMA InitOK ==
  ASSUME Init
  PROVE  IInv
<1>1. probes \in ProbeLists /\ probes \in Seq(ProbeAttributes) /\ Len(probes) \in Nat
      /\ DOMAIN probes = 1 .. Len(probes)
  BY ProbeListsAssumption DEF Init
<1>2. \A i \in DOMAIN probes : probes[i] \in ProbeAttributes /\ probes[i].mode \in Modes
  BY <1>1 DEF ProbeAttributes
<1>3. \A i \in DOMAIN probes :
        /\ probeDetails[i] \in ProbeDetails
        /\ probeDetails[i].phase = "N/A"
        /\ \A k \in StatusKeys : probeDetails[i].status[k] = "Awaited" => k \in StatusKeysOf(probes[i].mode)
  <2>1. ASSUME NEW i \in DOMAIN probes
        PROVE  probeDetails[i] = [phase |-> "N/A", status |-> SetProbeInitialStatus(probes[i].mode),
                                  failedWithError |-> Nil]
    BY DEF Init, InitialProbeDetails
  <2>2. ASSUME NEW mode
        PROVE  /\ SetProbeInitialStatus(mode) \in [StatusKeys -> Statuses]
               /\ \A k \in StatusKeys : SetProbeInitialStatus(mode)[k] = "Awaited" => k \in StatusKeysOf(mode)
    BY DEF SetProbeInitialStatus, Statuses
  <2>3. ASSUME NEW i \in DOMAIN probes
        PROVE  /\ probeDetails[i] \in ProbeDetails
               /\ probeDetails[i].phase = "N/A"
               /\ probeDetails[i].status = SetProbeInitialStatus(probes[i].mode)
    <3> DEFINE status == SetProbeInitialStatus(probes[i].mode)
    <3>1. status \in [StatusKeys -> Statuses]
      BY <2>2
    <3>2. probeDetails[i] = [phase |-> "N/A", status |-> status, failedWithError |-> Nil]
      BY <2>1
    <3> HIDE DEF status
    <3>3. probeDetails[i] \in ProbeDetails /\ probeDetails[i].phase = "N/A" /\ probeDetails[i].status = status
      BY <3>1, <3>2 DEF ProbeDetails, ProbePhases, Errors
    <3> QED
      BY <3>3 DEF status
  <2> QED
    BY <2>2, <2>3
<1>4. probeDetails \in [DOMAIN probes -> ProbeDetails]
  BY <1>3 DEF Init, InitialProbeDetails
<1>5. run = Idle("none", Nil) /\ run \in Runs(Len(probes))
  <2>1. 1 \in 1 .. Len(probes) + 1
    BY <1>1
  <2> QED
    BY <2>1 DEF Init, ProbeInit, Idle, Runs, RunPCs, Errors
<1>6. run.phase = "none" /\ run.pc = "idle" /\ run.ret = Nil /\ run.strict
  BY <1>5 DEF Idle
<1>7. TypeOK
  <2>1. DetailsTypeOK
    BY <1>1, <1>4 DEF Init, DetailsTypeOK, Verdicts, ResultPhases
  <2> QED
    BY <1>5, <2>1 DEF Init, ProbeInit, TypeOK, Runs, PollerStates, PodStates, Errors
<1>8. /\ \A i \in DOMAIN probes : poller[i] = "none" /\ probePod[i] = "none" /\ lastEval[i] = "none"
      /\ passedProbeCount = 0
  BY DEF Init, ProbeInit
<1>9. ControlOK
  BY <1>6 DEF ControlOK, Between
<1>10. PollerOK /\ PodsOK
  BY <1>8 DEF PollerOK, PodsOK
<1>11. EvaluationOK /\ VerdictsAreRight
  BY <1>6, <1>8 DEF EvaluationOK, VerdictsAreRight, VerdictFollowsEvaluation, Foreground
<1>12. StatusOK
  BY <1>3 DEF StatusOK
<1>13. VerdictsGiven
  BY <1>6 DEF VerdictsGiven, SettledIn, Judged
<1>14. ForegroundPods /\ BackgroundPods
  BY <1>6, <1>8 DEF ForegroundPods, BackgroundPods
<1>15. ScoreOK
  <2>1. IsFiniteSet(DOMAIN probes)
    BY <1>1, FS_Interval
  <2>2. \A S \in {Scored, ScoredTwice, ScoredByPoller} : S \subseteq DOMAIN probes
    BY DEF Scored, ScoredTwice, ScoredByPoller
  <2>3. \A S \in {Scored, ScoredTwice, ScoredByPoller} : Cardinality(S) \in Nat
    BY <2>1, <2>2, FS_Subset, FS_CardinalityType
  <2> QED
    BY <1>8, <2>3 DEF ScoreOK
<1> QED
  BY <1>7, <1>9, <1>10, <1>11, <1>12, <1>13, <1>14, <1>15 DEF IInv

LEMMA PollerOfProbe ==
  ASSUME NEW i, Poller(i)
  PROVE  Poll(i) \/ TimeIsUp(i) \/ StopChaosEngine(i)
BY DEF Poller, TriggerInlineContinuousCmdProbe, TriggerSourceContinuousCmdProbe, TriggerContinuousHTTPProbe,
       TriggerContinuousK8sProbe, TriggerContinuousPromProbe, TriggerInlineOnChaosCmdProbe,
       TriggerSourceOnChaosCmdProbe, TriggerOnChaosHTTPProbe, TriggerOnChaosK8sProbe, TriggerOnChaosPromProbe

LEMMA StepOK ==
  ASSUME IInv, Next
  PROVE  IInv'
<1>1. CASE CallRunProbes
  BY <1>1, CallRunProbesOK
<1>2. CASE GetProbesFromEngine
  BY <1>2, GetProbesOK
<1>3. CASE SkipForeground
  BY <1>3, SkipForegroundOK
<1>4. CASE EndOfLoop
  BY <1>4, EndOfLoopOK
<1>5. CASE Assign
  BY <1>5, AssignOK
<1>6. CASE Decide
  BY <1>6, DecideOK
<1>7. CASE \/ PreChaosCmdProbe \/ PreChaosHTTPProbe \/ PreChaosK8sProbe \/ PreChaosPromProbe
           \/ PostChaosCmdProbe \/ PostChaosHTTPProbe \/ PostChaosK8sProbe \/ PostChaosPromProbe
           \/ OnChaosCmdProbe \/ OnChaosHTTPProbe \/ OnChaosK8sProbe \/ OnChaosPromProbe
  BY <1>7, HandlerCases, HandlerOK DEF IInv
<1>8. CASE CreateHelperPod
  BY <1>8, CreateProbePodOK, CheckProbePodOK, ProbePodCheckedOK DEF CreateHelperPod
<1>9. CASE Trigger
  BY <1>9, TriggerOK
<1>10. CASE ValidateResult
  BY <1>10, ValidateResultOK
<1>11. CASE MarkVerdict
  BY <1>11, MarkVerdictOK
<1>12. CASE StoreReturned
  BY <1>12, StoreReturnedOK
<1>13. CASE LoadReturned
  BY <1>13, LoadReturnedOK
<1>14. CASE DeleteProbePod
  BY <1>14, DeleteProbePodOK
<1>15. CASE \E i \in DOMAIN probes : Poller(i) \/ PodTerminates(i)
  BY <1>15, PollerOfProbe, PollOK, TimeIsUpOK, StopChaosEngineOK, PodTerminatesOK
<1> QED
  BY <1>1, <1>2, <1>3, <1>4, <1>5, <1>6, <1>7, <1>8, <1>9, <1>10, <1>11, <1>12, <1>13, <1>14, <1>15
     DEF Next, Execute

LEMMA StutterOK ==
  ASSUME IInv, UNCHANGED vars
  PROVE  IInv'
<1>1. /\ probes' = probes /\ verdict' = verdict /\ phase' = phase /\ probeDetails' = probeDetails
      /\ passedProbeCount' = passedProbeCount /\ err' = err /\ run' = run /\ poller' = poller
      /\ probePod' = probePod /\ engineState' = engineState /\ lastEval' = lastEval /\ wrote' = wrote
      /\ raced' = raced
  BY DEF vars, detailVars, probeVars
<1>2. TypeOK' /\ ControlOK' /\ PollerOK' /\ PodsOK' /\ EvaluationOK'
  BY <1>1 DEF IInv, TypeOK, DetailsTypeOK, ControlOK, cur, IsBackground, PollerOK, Launched, Past, PodsOK,
              EvaluationOK, IsForeground, OwnErr
<1>3. VerdictsAreRight' /\ StatusOK' /\ VerdictsGiven'
  BY <1>1 DEF IInv, VerdictsAreRight, VerdictFollowsEvaluation, Foreground, StatusOK, VerdictsGiven, SettledIn,
              SettledBefore, SettledAfter, Given, IsBackground, Carried
<1>4. ForegroundPods' /\ BackgroundPods'
  BY <1>1 DEF IInv, ForegroundPods, BackgroundPods, IsForeground, IsBackground, MayRun, Carried
<1>5. ScoreOK'
  BY <1>1 DEF IInv, ScoreOK, Scored, ScoredTwice, ScoredByPoller, Past, IsBackground
<1> QED
  BY <1>2, <1>3, <1>4, <1>5 DEF IInv

\* The inductive invariant holds in every state, for any list of probes.
THEOREM Invariance == Spec => []IInv
<1>1. Init => IInv
  BY InitOK
<1>2. IInv /\ [Next]_vars => IInv'
  BY StepOK, StutterOK
<1> QED
  BY <1>1, <1>2, PTL DEF Spec

----------------------------------------------------------------------------
(* What it gives *)

\* Control states, verdicts and errors stay in their ranges, and every table has an entry for
\* each probe.
THEOREM TypeCorrect == Spec => []TypeOK
<1>1. IInv => TypeOK
  BY DEF IInv
<1> QED
  BY <1>1, Invariance, PTL

\* markedVerdictInEnd: as long as no goroutine has loaded what another one stored in err, the
\* verdict of a SOT, Edge or EOT probe is that of its last evaluation.
THEOREM VerdictsRight == Spec => []VerdictsAreRight
<1>1. IInv => VerdictsAreRight
  BY DEF IInv
<1> QED
  BY <1>1, Invariance, PTL

\* RunProbes("PreChaos"): chaos is not injected unless every SOT and Edge probe that stops the
\* experiment on failure has passed.
THEOREM PreChaosGated == Spec => []PreChaosGate
<1>1. IInv => PreChaosGate
  <2>1. ASSUME IInv, ~raced, run.phase \in {"DuringChaos", "PostChaos"}, NEW i \in Foreground,
               probes[i].stopOnFailure, probes[i].mode # "EOT"
        PROVE  probeDetails[i].status["PreChaos"] = "Passed"
    <3>1. i \in DOMAIN probes /\ probes[i].mode \in {"SOT", "Edge"}
      BY <2>1 DEF Foreground, ForegroundModes
    <3> QED
      BY <2>1, <3>1 DEF IInv, VerdictsGiven, SettledBefore
  <2> QED
    BY <2>1 DEF PreChaosGate
<1> QED
  BY <1>1, Invariance, PTL

\* RunProbes: when the three phases have returned no error, every probe has a verdict under
\* every key it reports.
THEOREM AllJudged == Spec => []EveryProbeJudged
<1>1. IInv => EveryProbeJudged
  <2>1. ASSUME IInv, ~raced, PostChaosPassed, NEW i \in DOMAIN probes
        PROVE  /\ probeDetails[i].phase # "N/A"
               /\ \A k \in StatusKeys : probeDetails[i].status[k] # "Awaited"
    <3>1. SettledBefore(i) /\ SettledAfter(i)
      BY <2>1 DEF IInv, VerdictsGiven, PostChaosPassed, SettledIn
    <3>2. probes[i].mode \in Modes
      BY <2>1, ProbesOK DEF IInv
    <3>3. probeDetails[i].phase # "N/A" /\ \A k \in StatusKeysOf(probes[i].mode) : Given(i, k)
      BY <3>1, <3>2
         DEF SettledBefore, SettledAfter, Given, IsBackground, StatusKeysOf, Modes, ForegroundModes, BackgroundModes
    <3> QED
      BY <2>1, <3>3 DEF IInv, StatusOK, Given
  <2> QED
    BY <2>1 DEF EveryProbeJudged
<1> QED
  BY <1>1, Invariance, PTL

\* deleteProbePod: ... and the deletion of every probe pod has been asked for.
THEOREM NoPodLeft == Spec => []NoPodLeftRunning
<1>1. IInv => NoPodLeftRunning
  <2>1. ASSUME IInv, ~raced, PostChaosPassed, NEW i \in DOMAIN probes
        PROVE  probePod[i] # "running"
    <3>1. run.pc = "idle" /\ run.ret = Nil /\ run.phase = "PostChaos" /\ run.strict
      BY <2>1 DEF PostChaosPassed, IInv, ControlOK, TypeOK
    <3>2. IsForeground(i) \/ IsBackground(i)
      BY <2>1, ProbesOK DEF IInv, IsForeground, IsBackground, Modes
    <3>3. ~(run.pc \in Judged /\ Carried = Err)
      BY <3>1 DEF Judged
    <3> QED
      BY <2>1, <3>1, <3>2, <3>3 DEF IInv, ForegroundPods, BackgroundPods, MayRun
  <2> QED
    BY <2>1 DEF NoPodLeftRunning
<1> QED
  BY <1>1, Invariance, PTL

\* PassedProbeCount: a probe adds at most 1 to the score, a background probe at most 2, or 3 if its
\* goroutine marks its verdict also.
THEOREM ScoreBounded == Spec => []ScoreBound
<1>1. IInv => ScoreBound
  <2> SUFFICES ASSUME IInv PROVE ScoreBound
    OBVIOUS
  <2> DEFINE Stoppers == {i \in Background : probes[i].stopOnFailure}
  <2>1. /\ Len(probes) \in Nat /\ DOMAIN probes = 1 .. Len(probes)
        /\ IsFiniteSet(DOMAIN probes) /\ Cardinality(DOMAIN probes) = Len(probes)
    BY ProbesOK, FS_Interval DEF IInv
  <2>2. \A i \in DOMAIN probes : IsBackground(i) => i \in Background
    BY DEF IsBackground, Background, Foreground, ForegroundModes, BackgroundModes
  <2>3. Scored \subseteq DOMAIN probes /\ ScoredTwice \subseteq Background /\ Background \subseteq DOMAIN probes
        /\ Stoppers \subseteq Background
    BY <2>2 DEF Scored, ScoredTwice, Background
  <2>4. ScoredByPoller \subseteq Stoppers
    BY <2>2 DEF IInv, PollerOK, ScoredByPoller
  <2>5. IsFiniteSet(Background) /\ IsFiniteSet(Stoppers)
    BY <2>1, <2>3, FS_Subset
  <2>6. /\ Cardinality(Scored) <= Len(probes) /\ Cardinality(ScoredTwice) <= Cardinality(Background)
        /\ Cardinality(ScoredByPoller) <= Cardinality(Stoppers)
    BY <2>1, <2>3, <2>4, <2>5, FS_Subset
  <2>7. /\ Cardinality(Scored) \in Nat /\ Cardinality(ScoredTwice) \in Nat /\ Cardinality(ScoredByPoller) \in Nat
        /\ Cardinality(Background) \in Nat /\ Cardinality(Stoppers) \in Nat
    <3>1. IsFiniteSet(Scored) /\ IsFiniteSet(ScoredTwice) /\ IsFiniteSet(ScoredByPoller)
      BY <2>1, <2>3, <2>4, <2>5, FS_Subset
    <3> QED
      BY <2>5, <3>1, FS_CardinalityType
  <2>8. passedProbeCount \in Nat
    BY DEF IInv, TypeOK, DetailsTypeOK
  <2> QED
    BY <2>1, <2>6, <2>7, <2>8 DEF IInv, ScoreOK, ScoreBound
<1> QED
  BY <1>1, Invariance, PTL

----------------------------------------------------------------------------
(* Recorded failures *)

\* A goroutine that has recorded a failure polls no more, and marks the probe with it.
RecordedOK ==
  \A i \in DOMAIN probes :
    /\ probeDetails[i].failedWithError = Err => poller[i] \in {"stop", "mark", "patch", "done"}
    /\ poller[i] = "mark" => wrote[i] = probeDetails[i].failedWithError

HasFailed(i) == probeDetails[i].phase = "Failed"

\* What becomes of a failure that had been recorded when PostChaos started: the second
\* loop fails the probe, and returns the error if the probe is to stop the experiment.
Reported(i) ==
  /\ i \in DOMAIN probes /\ IsBackground(i)
  /\ run.phase = "PostChaos" /\ probeDetails[i].failedWithError = Err
  /\ ~raced =>
       /\ run.strict /\ i < run.idx => HasFailed(i) /\ ~probes[i].stopOnFailure
       /\ run.strict /\ i = run.idx /\ run.pc = "mark" => wrote[Main] = Err
       /\ run.strict /\ i = run.idx /\ run.pc \in Judged =>
            HasFailed(i) /\ (probes[i].stopOnFailure => Carried = Err)
       /\ run.pc = "idle" /\ run.ret = Nil => HasFailed(i) /\ ~probes[i].stopOnFailure

\* A failure that has been recorded by the time PostChaos starts.
RecordedInTime(i) ==
  /\ run.phase = "PostChaos" /\ run.pc = "fetch"
  /\ i \in Background /\ probeDetails[i].failedWithError = Err

\* What main changes of the details and of the goroutines: it launches those that have not run.
LEMMA MainEffect ==
  ASSUME IInv, CallRunProbes \/ Execute
  PROVE  /\ UNCHANGED probes
         /\ \A i \in DOMAIN probes :
              /\ wrote'[i] = wrote[i]
              /\ probeDetails'[i].failedWithError = probeDetails[i].failedWithError
              /\ poller'[i] = poller[i] \/ (poller[i] = "none" /\ poller'[i] = "trigger")
<1> USE DEF IInv
<1>1. \A i \in DOMAIN probes : i # Main
  BY ProbesOK DEF Main
<1>2. ASSUME NEW e, Store(Main, e)
      PROVE  \A i \in DOMAIN probes : wrote'[i] = wrote[i]
  BY <1>1, <1>2 DEF Store, TypeOK
<1>3. CASE \/ CallRunProbes \/ GetProbesFromEngine \/ SkipForeground \/ EndOfLoop \/ Decide
           \/ LoadReturned \/ DeleteProbePod
  BY <1>3 DEF CallRunProbes, RunProbes, GetProbesFromEngine, SkipForeground, EndOfLoop, Decide, LoadReturned,
              DeleteProbePod, detailVars
<1>4. CASE Assign \/ StoreReturned
  BY <1>2, <1>4 DEF Assign, StoreReturned, detailVars
<1>5. CASE Trigger \/ ValidateResult
  BY <1>2, <1>5 DEF Trigger, ParseCommand, ValidateResult, detailVars
<1>6. ASSUME run.idx \in DOMAIN probes, Launches(run.phase, cur.mode), run.pc \in {"next", "podChecked"},
             poller' = [poller EXCEPT ![run.idx] = "trigger"]
      PROVE  \A i \in DOMAIN probes :
               poller'[i] = poller[i] \/ (poller[i] = "none" /\ poller'[i] = "trigger")
  <2>1. ~Past(run.idx)
    BY <1>6, ProbesOK DEF Past, Judged
  <2>2. ~Launched(run.idx)
    BY <1>6, <2>1 DEF Launched, Launches, cur
  <2>3. poller[run.idx] = "none"
    BY <1>6, <2>2 DEF PollerOK
  <2> QED
    BY <1>6, <2>3 DEF TypeOK
<1>7. CASE \/ PreChaosCmdProbe \/ PreChaosHTTPProbe \/ PreChaosK8sProbe \/ PreChaosPromProbe
           \/ PostChaosCmdProbe \/ PostChaosHTTPProbe \/ PostChaosK8sProbe \/ PostChaosPromProbe
           \/ OnChaosCmdProbe \/ OnChaosHTTPProbe \/ OnChaosK8sProbe \/ OnChaosPromProbe
  <2>1. Handler
    BY <1>7, HandlerCases
  <2>2. UNCHANGED <<probes, probeDetails>>
    BY <2>1 DEF Handler, detailVars
  <2>3. \A i \in DOMAIN probes : wrote'[i] = wrote[i]
    BY <1>2, <2>1 DEF Handler
  <2>4. \/ UNCHANGED poller
        \/ /\ run.idx \in DOMAIN probes /\ Launches(run.phase, cur.mode) /\ run.pc = "next"
           /\ poller' = [poller EXCEPT ![run.idx] = "trigger"]
    BY <2>1 DEF Handler
  <2> QED
    BY <1>6, <2>2, <2>3, <2>4
<1>8. CASE CreateHelperPod
  <2>1. CASE CreateProbePod
    BY <2>1 DEF CreateProbePod, detailVars
  <2>2. CASE CheckProbePod
    BY <1>2, <2>2 DEF CheckProbePod, detailVars
  <2>3. CASE ProbePodChecked
    <3>1. UNCHANGED <<probes, probeDetails, wrote>> /\ run.pc = "podChecked" /\ run.idx \in DOMAIN probes
      BY <2>3 DEF ProbePodChecked, detailVars, ControlOK, Between
    <3>2. \/ UNCHANGED poller
          \/ cur.mode \in BackgroundModes /\ poller' = [poller EXCEPT ![run.idx] = "trigger"]
      BY <2>3 DEF ProbePodChecked
    <3>3. cur.mode \in BackgroundModes => Launches(run.phase, cur.mode)
      BY <3>1 DEF ControlOK, Evaluates, BackgroundModes
    <3> QED
      BY <1>6, <3>1, <3>2, <3>3
  <2> QED
    BY <1>8, <2>1, <2>2, <2>3 DEF CreateHelperPod
<1>9. CASE MarkVerdict
  <2>1. UNCHANGED <<probes, poller, wrote>> /\ run.idx \in DOMAIN probes /\ run.phase \in Phases
    BY <1>9 DEF MarkVerdict, ControlOK, Between, TypeOK
  <2>2. PICK e \in Errors : MarkedVerdictInEnd(run.idx, e, run.phase)
    BY <1>9 DEF MarkVerdict, TypeOK
  <2>3. \A i \in DOMAIN probes : probeDetails'[i].failedWithError = probeDetails[i].failedWithError
    BY <2>1, <2>2, MarkEffect
  <2> QED
    BY <2>1, <2>3
<1> QED
  BY <1>3, <1>4, <1>5, <1>7, <1>8, <1>9 DEF Execute

\* The part of the invariant about what the goroutines have recorded.
LEMMA MainRecorded ==
  ASSUME IInv, RecordedOK, CallRunProbes \/ Execute
  PROVE  RecordedOK'
<1>1. ASSUME NEW i \in DOMAIN probes
      PROVE  /\ probeDetails'[i].failedWithError = Err => poller'[i] \in {"stop", "mark", "patch", "done"}
             /\ poller'[i] = "mark" => wrote'[i] = probeDetails'[i].failedWithError
  <2>1. /\ wrote'[i] = wrote[i]
        /\ probeDetails'[i].failedWithError = probeDetails[i].failedWithError
        /\ poller'[i] = poller[i] \/ (poller[i] = "none" /\ poller'[i] = "trigger")
    BY MainEffect
  <2> QED
    BY <2>1 DEF RecordedOK
<1> QED
  BY <1>1, MainEffect DEF RecordedOK

\* What a goroutine's step, or the end of a pod, changes of another probe: nothing.
LEMMA OthersEffect ==
  ASSUME IInv, NEW j \in DOMAIN probes, Poller(j) \/ PodTerminates(j)
  PROVE  /\ UNCHANGED <<probes, run>> /\ wrote'[Main] = wrote[Main] /\ (raced => raced')
         /\ \A i \in DOMAIN probes \ {j} :
              /\ wrote'[i] = wrote[i] /\ poller'[i] = poller[i] /\ probeDetails'[i] = probeDetails[i]
<1> USE DEF IInv
<1>1. j # Main
  BY ProbesOK DEF Main
<1>2. ASSUME NEW e, Store(j, e)
      PROVE  \A i \in {Main} \union DOMAIN probes : i # j => wrote'[i] = wrote[i]
  BY <1>2 DEF Store, TypeOK
<1>3. ASSUME NEW s, MoveTo(j, s)
      PROVE  \A i \in DOMAIN probes \ {j} : poller'[i] = poller[i]
  BY <1>3 DEF MoveTo, TypeOK
<1>4. CASE PodTerminates(j)
  BY <1>4 DEF PodTerminates, detailVars
<1>5. CASE PollTrigger(j) \/ PollCompare(j)
  BY <1>1, <1>2, <1>3, <1>5 DEF PollTrigger, PollCompare, ParseCommand, detailVars
<1>6. CASE PollCheck(j) \/ TimeIsUp(j) \/ StopPatchEngine(j)
  <2>0. Load(j) \/ UNCHANGED raced => (raced => raced')
    BY LoadEffect DEF TypeOK
  <2>1. UNCHANGED <<probes, run, wrote, probeDetails>> /\ (raced => raced')
    BY <1>6, <2>0 DEF PollCheck, TimeIsUp, StopPatchEngine, detailVars
  <2>2. \E s : MoveTo(j, s)
    BY <1>6 DEF PollCheck, TimeIsUp, StopPatchEngine
  <2> QED
    BY <1>3, <2>1, <2>2
<1>7. CASE PollRecord(j)
  <2>1. \A i \in DOMAIN probes \ {j} : probeDetails'[i] = probeDetails[i]
    BY <1>7 DEF PollRecord, TypeOK, DetailsTypeOK
  <2> QED
    BY <1>3, <1>7, <2>1 DEF PollRecord, Load
<1>8. CASE StopCheckRecorded(j)
  BY <1>1, <1>2, <1>3, <1>8 DEF StopCheckRecorded, detailVars
<1>9. CASE StopMarkVerdict(j)
  <2>1. MarkedVerdictInEnd(j, err, "PostChaos") /\ "PostChaos" \in Phases /\ err \in Errors
    BY <1>9 DEF StopMarkVerdict, Phases, TypeOK
  <2>2. \A i \in DOMAIN probes \ {j} : probeDetails'[i] = probeDetails[i]
    BY <2>1, MarkEffect
  <2> QED
    BY <1>3, <1>9, <2>2 DEF StopMarkVerdict, Load
<1> QED
  BY <1>4, <1>5, <1>6, <1>7, <1>8, <1>9, PollerOfProbe DEF Poll, StopChaosEngine

\* What it changes of its own probe: a failure that it has recorded is there to stay, and it
\* marks the probe with it.
LEMMA OwnEffect ==
  ASSUME IInv, RecordedOK, NEW j \in DOMAIN probes, Poller(j) \/ PodTerminates(j)
  PROVE  /\ probeDetails'[j].failedWithError = Err => poller'[j] \in {"stop", "mark", "patch", "done"}
         /\ poller'[j] = "mark" => wrote'[j] = probeDetails'[j].failedWithError
         /\ probeDetails[j].failedWithError = Err =>
              /\ probeDetails'[j].failedWithError = Err
              /\ ~raced' => probeDetails'[j].phase = probeDetails[j].phase \/ probeDetails'[j].phase = "Failed"
<1> USE DEF IInv
<1>1. /\ probeDetails[j].failedWithError = Err => poller[j] \in {"stop", "mark", "patch", "done"}
      /\ poller[j] = "mark" => wrote[j] = probeDetails[j].failedWithError
  BY DEF RecordedOK
<1>2. ASSUME NEW s, MoveTo(j, s)
      PROVE  poller'[j] = s
  BY <1>2 DEF MoveTo, TypeOK
<1>3. CASE PodTerminates(j)
  BY <1>1, <1>3 DEF PodTerminates, detailVars
<1>4. CASE PollTrigger(j) \/ PollCompare(j)
  BY <1>1, <1>2, <1>4 DEF PollTrigger, PollCompare, detailVars
<1>5. CASE PollCheck(j)
  <2>1. UNCHANGED probeDetails /\ poller[j] = "check" /\ poller'[j] \in {"trigger", "record"}
    BY <1>2, <1>5 DEF PollCheck, detailVars
  <2> QED
    BY <1>1, <2>1
<1>6. CASE TimeIsUp(j) \/ StopPatchEngine(j)
  BY <1>1, <1>2, <1>6 DEF TimeIsUp, StopPatchEngine, detailVars
<1>7. CASE PollRecord(j)
  <2>1. poller[j] = "record" /\ poller'[j] \in {"stop", "done"}
    BY <1>2, <1>7 DEF PollRecord
  <2> QED
    BY <1>1, <2>1
<1>8. CASE StopCheckRecorded(j)
  <2>1. UNCHANGED probeDetails /\ poller'[j] = "mark" /\ wrote'[j] = probeDetails[j].failedWithError
    BY <1>2, <1>8 DEF StopCheckRecorded, Store, TypeOK, detailVars
  <2> QED
    BY <2>1
<1>9. CASE StopMarkVerdict(j)
  <2>1. /\ MarkedVerdictInEnd(j, err, "PostChaos") /\ "PostChaos" \in Phases /\ err \in Errors
        /\ poller[j] = "mark" /\ poller'[j] = "patch" /\ (~raced' => err = wrote[j])
    BY <1>2, <1>9 DEF StopMarkVerdict, Phases, TypeOK, Load
  <2>2. /\ probeDetails'[j].phase = (IF err = Nil THEN "Passed" ELSE "Failed")
        /\ probeDetails'[j].failedWithError = probeDetails[j].failedWithError
    BY <2>1, MarkEffect
  <2> QED
    BY <1>1, <2>1, <2>2 DEF Nil, Err
<1> QED
  BY <1>3, <1>4, <1>5, <1>6, <1>7, <1>8, <1>9, PollerOfProbe DEF Poll, StopChaosEngine

\* ... so that part of the invariant is kept by the goroutines too.
LEMMA OthersRecorded ==
  ASSUME IInv, RecordedOK, NEW j \in DOMAIN probes, Poller(j) \/ PodTerminates(j)
  PROVE  RecordedOK'
<1>1. ASSUME NEW i \in DOMAIN probes
      PROVE  /\ probeDetails'[i].failedWithError = Err => poller'[i] \in {"stop", "mark", "patch", "done"}
             /\ poller'[i] = "mark" => wrote'[i] = probeDetails'[i].failedWithError
  <2>1. CASE i = j
    BY <2>1, OwnEffect
  <2>2. CASE i # j
    BY <2>2, OthersEffect DEF RecordedOK
  <2> QED
    BY <2>1, <2>2
<1> QED
  BY <1>1, OthersEffect DEF RecordedOK

\* A reported failure stays reported when another goroutine takes a step.
LEMMA OthersReported ==
  ASSUME IInv, RecordedOK, NEW i, Reported(i), NEW j \in DOMAIN probes, Poller(j) \/ PodTerminates(j)
  PROVE  Reported(i)'
<1>1. UNCHANGED <<probes, run>> /\ wrote'[Main] = wrote[Main] /\ (raced => raced')
  BY OthersEffect
<1>2. /\ i \in DOMAIN probes /\ probeDetails[i].failedWithError = Err
      /\ IsBackground(i) /\ run.phase = "PostChaos"
  BY DEF Reported
<1>3. /\ probeDetails'[i].failedWithError = Err
      /\ ~raced' => (HasFailed(i) => HasFailed(i)')
  <2>1. CASE i = j
    BY <1>2, <2>1, OwnEffect DEF HasFailed
  <2>2. CASE i # j
    BY <1>2, <2>2, OthersEffect DEF HasFailed
  <2> QED
    BY <2>1, <2>2
<1>4. IsBackground(i)' /\ Carried' = Carried
  BY <1>1, <1>2 DEF IsBackground, Carried
<1> QED
  BY <1>1, <1>2, <1>3, <1>4 DEF Reported

----------------------------------------------------------------------------
(* Main reports what was recorded *)

\* Main is about to be at the probe, or is past it.
ReportedAt(i) ==
  /\ run.strict /\ i < run.idx => HasFailed(i) /\ ~probes[i].stopOnFailure
  /\ run.strict /\ i = run.idx /\ run.pc = "mark" => wrote[Main] = Err
  /\ run.strict /\ i = run.idx /\ run.pc \in Judged =>
       HasFailed(i) /\ (probes[i].stopOnFailure => Carried = Err)
  /\ run.pc = "idle" /\ run.ret = Nil => HasFailed(i) /\ ~probes[i].stopOnFailure

\* It suffices to look at where main is after its step.
LEMMA ReportedIf ==
  ASSUME IInv, NEW i, Reported(i), CallRunProbes \/ Execute, run'.phase = run.phase,
         ~raced' => ReportedAt(i)'
  PROVE  Reported(i)'
<1>1. /\ i \in DOMAIN probes /\ probeDetails[i].failedWithError = Err
      /\ IsBackground(i) /\ run.phase = "PostChaos"
  BY DEF Reported
<1>2. probes' = probes /\ probeDetails'[i].failedWithError = Err
  BY <1>1, MainEffect
<1>3. IsBackground(i)'
  BY <1>1, <1>2 DEF IsBackground
<1> QED
  BY <1>1, <1>2, <1>3 DEF Reported, ReportedAt

\* Between two probes, and on the way out of a loop.
LEMMA LoopReported ==
  ASSUME IInv, NEW i, Reported(i), GetProbesFromEngine \/ SkipForeground \/ EndOfLoop
  PROVE  Reported(i)'
<1> USE DEF IInv
<1>1. /\ i \in DOMAIN probes /\ IsBackground(i) /\ run.phase = "PostChaos"
      /\ ~raced => ReportedAt(i)
      /\ i \in Nat /\ ~(i < 1) /\ ~(i > Len(probes)) /\ run.idx \in 1 .. Len(probes) + 1 /\ Len(probes) \in Nat
      /\ DOMAIN probes = 1 .. Len(probes)
  BY ProbesOK DEF Reported, ReportedAt, TypeOK
<1>2. UNCHANGED <<probes, probeDetails, wrote, raced>>
  BY DEF GetProbesFromEngine, SkipForeground, EndOfLoop, detailVars
<1>3. CASE run'.phase = run.phase /\ run'.pc = "next" /\ (~run'.strict \/ run'.idx = 1)
  <2>1. ~raced' => ReportedAt(i)'
    BY <1>1, <1>2, <1>3 DEF ReportedAt, Judged
  <2> QED
    BY <1>3, <2>1, ReportedIf DEF Execute
<1>4. CASE Return(Err)
  <2>1. RunIs(run.phase, "idle", TRUE, 1, Nil, "assign", Err)
    BY <1>4, ReturnIs DEF Errors
  <2>2. ~raced' => ReportedAt(i)'
    BY <1>1, <1>2, <2>1 DEF ReportedAt, Judged, RunIs, Nil, Err
  <2> QED
    BY <2>1, <2>2, ReportedIf DEF Execute, RunIs
<1>5. CASE GetProbesFromEngine
  <2>1. CASE run' = [run EXCEPT !.pc = "next", !.strict = (run.phase # "PostChaos")]
    BY <1>1, <1>3, <2>1 DEF TypeOK
  <2> QED
    BY <1>4, <1>5, <2>1 DEF GetProbesFromEngine
<1>6. CASE SkipForeground
  BY <1>3, <1>6 DEF SkipForeground, TypeOK
<1>7. CASE EndOfLoop /\ run.strict
  <2>1. run.pc = "next" /\ run.idx \notin DOMAIN probes /\ Return(Nil)
    BY <1>7 DEF EndOfLoop
  <2>2. i < run.idx
    BY <1>1, <2>1
  <2>3. RunIs(run.phase, "idle", TRUE, 1, Nil, "assign", Nil)
    BY <2>1, ReturnIs DEF Errors
  <2>4. ~raced' => ReportedAt(i)'
    BY <1>1, <1>2, <1>7, <2>2, <2>3 DEF ReportedAt, Judged, RunIs, HasFailed
  <2> QED
    BY <1>7, <2>3, <2>4, ReportedIf DEF Execute, RunIs
<1>8. CASE EndOfLoop /\ ~run.strict
  <2>1. run.failed \in BOOLEAN
    BY DEF TypeOK
  <2>2. CASE run.failed
    BY <1>4, <1>8, <2>2 DEF EndOfLoop
  <2>3. CASE ~run.failed
    <3>1. run' = [run EXCEPT !.strict = TRUE, !.idx = 1] /\ run.pc = "next"
      BY <1>8, <2>3 DEF EndOfLoop
    <3> QED
      BY <1>3, <3>1 DEF TypeOK
  <2> QED
    BY <2>1, <2>2, <2>3
<1> QED
  BY <1>5, <1>6, <1>7, <1>8

\* At a probe: main stays there.
LEMMA AtProbeReported ==
  ASSUME IInv, NEW i, Reported(i), Execute, NEW pc, NEW local, NEW then,
         RunIs(run.phase, pc, run.strict, run.idx, local, then, run.ret), pc # "idle",
         ~raced' /\ run.strict /\ i = run.idx =>
           /\ pc = "mark" => wrote'[Main] = Err
           /\ pc \in Judged => HasFailed(i)' /\ (probes[i].stopOnFailure => Carried' = Err),
         i # run.idx => probeDetails'[i] = probeDetails[i],
         raced => raced'
  PROVE  Reported(i)'
<1>1. i \in DOMAIN probes /\ probes' = probes
  BY MainEffect DEF Reported
<1>2. ~raced => ReportedAt(i)
  BY DEF Reported, ReportedAt
<1>3. i < run.idx => i # run.idx
  BY <1>1, ProbesOK DEF IInv, TypeOK
<1>4. ~raced' => ReportedAt(i)'
  BY <1>1, <1>2, <1>3 DEF ReportedAt, RunIs, HasFailed
<1> QED
  BY <1>4, ReportedIf DEF RunIs

\* The error that main takes along from the probe.
LEMMA CarryReported ==
  ASSUME IInv, NEW i, Reported(i), Assign \/ StoreReturned \/ LoadReturned \/ DeleteProbePod
  PROVE  Reported(i)'
<1> USE DEF IInv
<1>1. /\ UNCHANGED <<probes, probeDetails>> /\ Execute
      /\ ~raced => ReportedAt(i)
      /\ run.local \in Errors /\ run.then \in {"assign", "deletePod"}
  BY DEF Assign, StoreReturned, LoadReturned, DeleteProbePod, detailVars, Execute, Reported, ReportedAt, TypeOK
<1>2. CASE Assign
  <2>1. RunIs(run.phase, "decide", run.strict, run.idx, run.local, run.then, run.ret) /\ run.pc = "assign"
    BY <1>2, GotoIs DEF Assign, RunPCs
  <2>2. wrote'[Main] = run.local /\ UNCHANGED raced
    BY <1>1, <1>2, StoreEffect DEF Assign
  <2>3. Carried = run.local /\ Carried' = wrote'[Main]
    BY <2>1 DEF Carried, RunIs
  <2> QED
    BY <1>1, <2>1, <2>2, <2>3, AtProbeReported DEF ReportedAt, Judged, HasFailed
<1>3. CASE StoreReturned
  <2>1. RunIs(run.phase, "kept", run.strict, run.idx, run.local, run.then, run.ret) /\ run.pc = "keep"
    BY <1>3, GotoIs DEF StoreReturned, RunPCs
  <2>2. wrote'[Main] = run.local /\ UNCHANGED raced
    BY <1>1, <1>3, StoreEffect DEF StoreReturned
  <2>3. Carried = run.local /\ Carried' = wrote'[Main]
    BY <2>1 DEF Carried, RunIs
  <2> QED
    BY <1>1, <2>1, <2>2, <2>3, AtProbeReported DEF ReportedAt, Judged, HasFailed
<1>4. CASE LoadReturned
  <2>1. run.pc = "kept" /\ err \in Errors /\ (raced => raced') /\ (~raced' => err = wrote[Main])
    BY <1>4 DEF LoadReturned, Load, TypeOK
  <2>2. PICK pc \in {"assign", "deletePod"} :
          /\ err # Nil => pc = "assign"
          /\ RunIs(run.phase, pc, run.strict, run.idx, err, run.then, run.ret)
    <3>1. CASE err = Nil
      <4>1. RunIs(run.phase, run.then, run.strict, run.idx, err, run.then, run.ret)
        BY <1>1, <1>4, <2>1, <3>1, LocalIs DEF LoadReturned, RunPCs
      <4> QED
        BY <1>1, <3>1, <4>1
    <3>2. CASE err # Nil
      BY <1>4, <2>1, <3>2, LocalIs DEF LoadReturned, RunPCs
    <3> QED
      BY <3>1, <3>2
  <2>3. Carried = wrote[Main] /\ (pc = "assign" => Carried' = err)
    BY <2>1, <2>2 DEF Carried, RunIs
  <2>4. ~raced' /\ run.strict /\ i = run.idx =>
          HasFailed(i) /\ (probes[i].stopOnFailure => Carried' = Err)
    BY <1>1, <2>1, <2>2, <2>3 DEF ReportedAt, Judged, Nil, Err
  <2> QED
    BY <1>1, <2>1, <2>2, <2>4, AtProbeReported DEF HasFailed
<1>5. CASE DeleteProbePod
  <2>1. run.pc = "deletePod" /\ UNCHANGED <<raced, wrote>>
    BY <1>5 DEF DeleteProbePod
  <2>2. PICK e \in Errors : Keep(e, "assign")
    BY <1>5 DEF DeleteProbePod, Errors
  <2>3. PICK pc \in {"keep", "assign"} : RunIs(run.phase, pc, run.strict, run.idx, e, "assign", run.ret)
    <3>1. \/ RunIs(run.phase, "keep", run.strict, run.idx, e, "assign", run.ret)
          \/ RunIs(run.phase, "assign", run.strict, run.idx, e, "assign", run.ret)
      BY <2>2, KeepIs
    <3> QED
      BY <3>1
  <2>4. Carried = Nil
    BY <2>1 DEF Carried
  <2>5. ~raced /\ run.strict /\ i = run.idx => HasFailed(i) /\ ~probes[i].stopOnFailure
    BY <1>1, <2>1, <2>4 DEF ReportedAt, Judged, Nil, Err
  <2> QED
    BY <1>1, <2>1, <2>3, <2>5, AtProbeReported DEF HasFailed
<1> QED
  BY <1>2, <1>3, <1>4, <1>5

\* RunProbes goes on after a probe, or returns its error.
LEMMA DecideReported ==
  ASSUME IInv, NEW i, Reported(i), Decide
  PROVE  Reported(i)'
<1> USE DEF IInv
<1>1. /\ UNCHANGED <<probes, probeDetails, wrote>> /\ Execute
      /\ ~raced => ReportedAt(i)
      /\ (raced => raced') /\ (~raced' => err = wrote[Main])
      /\ run.pc = "decide" /\ err \in Errors
      /\ i \in DOMAIN probes /\ i \in Nat /\ ~(i < 1) /\ run.idx \in Nat
  <2>1. UNCHANGED <<probes, probeDetails, wrote>> /\ (raced => raced') /\ (~raced' => err = wrote[Main])
    BY DEF Decide, Load, detailVars
  <2>2. Execute
    BY DEF Execute
  <2>3. i \in DOMAIN probes /\ (~raced => ReportedAt(i))
    BY DEF Reported, ReportedAt
  <2>4. run.pc = "decide" /\ err \in Errors /\ run.idx \in Nat
    BY ProbesOK DEF Decide, TypeOK
  <2>5. i \in Nat /\ ~(i < 1)
    BY <2>3, ProbesOK
  <2> QED
    BY <2>1, <2>2, <2>3, <2>4, <2>5
<1>2. Carried = wrote[Main]
  BY <1>1 DEF Carried
<1>3. CASE err # Nil /\ run.strict
  <2>1. RunIs(run.phase, "idle", TRUE, 1, Nil, "assign", Err)
    BY <1>3, ReturnIs DEF Decide, Errors
  <2>2. ~raced' => ReportedAt(i)'
    BY <1>1, <2>1 DEF ReportedAt, Judged, RunIs, Nil, Err
  <2> QED
    BY <1>1, <2>1, <2>2, ReportedIf DEF RunIs
<1>4. CASE ~(err # Nil /\ run.strict)
  <2>1. run' = [run EXCEPT !.pc = "next", !.idx = @ + 1, !.local = Nil,
                           !.then = "assign", !.failed = @ \/ err # Nil]
    BY <1>4 DEF Decide
  <2>2. (run.failed \/ err # Nil) \in BOOLEAN
    OBVIOUS
  <2>3. RunIs(run.phase, "next", run.strict, run.idx + 1, Nil, "assign", run.ret)
    BY <1>1, <2>1, <2>2, NextIs
  <2>4. ~raced' /\ run.strict /\ i = run.idx => HasFailed(i) /\ ~probes[i].stopOnFailure
    BY <1>1, <1>2, <1>4 DEF ReportedAt, Judged, Nil, Err
  <2>5. i < run.idx + 1 => i < run.idx \/ i = run.idx
    BY <1>1
  <2>6. ~raced' => ReportedAt(i)'
    BY <1>1, <2>3, <2>4, <2>5 DEF ReportedAt, Judged, RunIs, HasFailed
  <2> QED
    BY <1>1, <2>3, <2>6, ReportedIf DEF RunIs
<1> QED
  BY <1>3, <1>4

\* The handlers ask for what was recorded.
LEMMA HandlerReported ==
  ASSUME IInv, NEW i, Reported(i), Handler, Execute
  PROVE  Reported(i)'
<1> USE DEF IInv
<1>1. /\ UNCHANGED <<probes, probeDetails, raced>>
      /\ i \in DOMAIN probes /\ IsBackground(i) /\ run.phase = "PostChaos"
      /\ probeDetails[i].failedWithError = Err
  BY DEF Handler, detailVars, Reported
<1>2. i = run.idx => ~Evaluates(run.phase, cur.mode) /\ ~Launches(run.phase, cur.mode)
                     /\ Judges(run.phase, cur.mode)
  BY <1>1 DEF Evaluates, Launches, Judges, IsBackground, BackgroundModes, cur
<1>3. PICK pc \in {"createPod", "trigger", "assign", "mark"} :
        /\ RunIs(run.phase, pc, run.strict, run.idx, run.local, run.then, run.ret)
        /\ i = run.idx => pc = "mark"
        /\ pc = "mark" => Store(Main, probeDetails[run.idx].failedWithError)
  <2>1. CASE i = run.idx
    <3>1. Goto("mark") /\ Store(Main, probeDetails[run.idx].failedWithError)
      BY <1>2, <2>1 DEF Handler
    <3> QED
      BY <3>1, GotoIs DEF RunPCs
  <2>2. CASE i # run.idx /\ Store(Main, probeDetails[run.idx].failedWithError) /\ Goto("mark")
    BY <2>2, GotoIs DEF RunPCs
  <2>3. CASE i # run.idx /\ (Goto("createPod") \/ Goto("trigger") \/ Goto("assign"))
    BY <2>3, GotoIs DEF RunPCs
  <2> QED
    BY <2>1, <2>2, <2>3 DEF Handler
<1>4. i = run.idx => wrote'[Main] = Err
  BY <1>1, <1>3, StoreEffect DEF Errors
<1> QED
  BY <1>1, <1>3, <1>4, AtProbeReported DEF Judged

\* Evaluations and pods of their own belong to other probes here.
LEMMA ElsewhereReported ==
  ASSUME IInv, NEW i, Reported(i), CreateHelperPod \/ Trigger \/ ValidateResult
  PROVE  Reported(i)'
<1> USE DEF IInv
<1>1. /\ UNCHANGED <<probes, probeDetails>> /\ Execute /\ (raced => raced')
      /\ i \in DOMAIN probes /\ IsBackground(i) /\ run.phase = "PostChaos"
      /\ run.pc \in {"createPod", "checkPod", "podChecked", "trigger", "compare"}
  <2>1. Execute
    BY DEF Execute
  <2>2. i \in DOMAIN probes /\ IsBackground(i) /\ run.phase = "PostChaos"
    BY DEF Reported
  <2>3. Load(Main) \/ UNCHANGED raced => (raced => raced')
    BY LoadEffect DEF TypeOK
  <2>4. CASE CreateHelperPod
    <3>1. UNCHANGED <<probes, probeDetails>> /\ (Load(Main) \/ UNCHANGED raced)
      BY <2>4 DEF CreateHelperPod, CreateProbePod, CheckProbePod, ProbePodChecked, detailVars
    <3>2. run.pc \in {"createPod", "checkPod", "podChecked"}
      BY <2>4 DEF CreateHelperPod, CreateProbePod, CheckProbePod, ProbePodChecked
    <3> QED
      BY <2>1, <2>2, <2>3, <3>1, <3>2
  <2>5. CASE Trigger \/ ValidateResult
    <3>1. UNCHANGED <<probes, probeDetails, raced>> /\ run.pc \in {"trigger", "compare"}
      BY <2>5 DEF Trigger, ValidateResult, detailVars
    <3> QED
      BY <2>1, <2>2, <3>1
  <2> QED
    BY <2>4, <2>5
<1>2. i # run.idx
  <2>1. Evaluates(run.phase, cur.mode) \/ Launches(run.phase, cur.mode)
    BY <1>1 DEF ControlOK
  <2> QED
    BY <1>1, <2>1 DEF Evaluates, Launches, IsBackground, BackgroundModes, cur
<1>3. PICK pc, local, then :
        pc \in RunPCs \ {"idle"} /\ RunIs(run.phase, pc, run.strict, run.idx, local, then, run.ret)
  <2>1. CASE \E pc \in RunPCs \ {"idle"} : Goto(pc)
    BY <2>1, GotoIs
  <2>2. CASE \E pc \in RunPCs \ {"idle"}, e \in Errors : run' = [run EXCEPT !.pc = pc, !.local = e]
    BY <2>2, LocalIs
  <2>3. \A pc \in {"checkPod", "podChecked", "assign", "trigger", "compare", "mark"} : pc \in RunPCs \ {"idle"}
    BY DEF RunPCs
  <2>4. CASE CreateProbePod
    BY <2>1, <2>2, <2>3, <2>4 DEF CreateProbePod, Errors
  <2>5. CASE CheckProbePod
    BY <2>1, <2>3, <2>5 DEF CheckProbePod
  <2>6. CASE ProbePodChecked
    BY <2>1, <2>2, <2>3, <2>6 DEF ProbePodChecked, Errors
  <2>7. CASE Trigger
    BY <2>1, <2>3, <2>7 DEF Trigger
  <2>8. CASE ValidateResult
    BY <2>1, <2>2, <2>3, <2>8 DEF ValidateResult
  <2> QED
    BY <2>4, <2>5, <2>6, <2>7, <2>8 DEF CreateHelperPod
<1> QED
  BY <1>1, <1>2, <1>3, AtProbeReported

\* The probe is marked with the recorded failure.
LEMMA MarkReported ==
  ASSUME IInv, NEW i, Reported(i), MarkVerdict
  PROVE  Reported(i)'
<1> USE DEF IInv
<1>1. /\ run.pc = "mark" /\ run.idx \in DOMAIN probes /\ run.phase = "PostChaos" /\ Execute
      /\ i \in DOMAIN probes /\ IsBackground(i)
      /\ UNCHANGED <<probes, wrote>> /\ (raced => raced')
      /\ ~raced => ReportedAt(i)
  BY DEF MarkVerdict, Load, ControlOK, Between, Execute, Reported, ReportedAt
<1> DEFINE e == IF OwnErr THEN run.local ELSE err
           ret == MarkedVerdictError(run.idx, e)
           then == IF cur.source THEN "deletePod" ELSE "assign"
<1>2. /\ e \in Errors /\ ret \in Errors /\ then \in {"assign", "deletePod"}
      /\ MarkedVerdictInEnd(run.idx, e, run.phase) /\ Keep(ret, then)
      /\ ret = IF probes[run.idx].stopOnFailure THEN e ELSE Nil
  BY DEF MarkVerdict, MarkedVerdictError, TypeOK, Errors
<1>3. i = run.idx => ~OwnErr /\ (~raced' /\ run.strict => e = Err)
  <2>1. i = run.idx => ~OwnErr
    BY <1>1 DEF OwnErr, IsBackground, BackgroundModes, ForegroundModes, cur
  <2>2. i = run.idx => (~raced' => ~raced /\ err = wrote[Main])
    BY <2>1 DEF MarkVerdict, Load
  <2> QED
    BY <1>1, <2>1, <2>2 DEF ReportedAt
<1>4. PICK pc \in {"keep", "assign", "deletePod"} :
        /\ RunIs(run.phase, pc, run.strict, run.idx, ret, then, run.ret)
        /\ ret # Nil => pc # "deletePod"
  <2> DEFINE pc == IF ~ReturnsOwnErr THEN "keep" ELSE IF ret = Nil THEN then ELSE "assign"
  <2> HIDE DEF e, ret
  <2>1. RunIs(run.phase, pc, run.strict, run.idx, ret, then, run.ret)
    BY <1>2, KeepIs
  <2>2. pc \in {"keep", "assign", "deletePod"} /\ (ret # Nil => pc # "deletePod")
    OBVIOUS
  <2> HIDE DEF pc
  <2> QED
    BY <2>1, <2>2
<1>5. /\ probeDetails'[run.idx].phase = (IF e = Nil THEN "Passed" ELSE "Failed")
      /\ \A j \in DOMAIN probes \ {run.idx} : probeDetails'[j] = probeDetails[j]
  BY <1>1, <1>2, MarkEffect DEF Phases
<1> HIDE DEF e, ret, then
<1>6. pc \in {"keep", "assign"} => Carried' = ret
  BY <1>4 DEF Carried, RunIs
<1>7. ~raced' /\ run.strict /\ i = run.idx => HasFailed(i)' /\ (probes[i].stopOnFailure => Carried' = Err)
  BY <1>2, <1>3, <1>4, <1>5, <1>6 DEF HasFailed, Nil, Err
<1> QED
  BY <1>1, <1>4, <1>5, <1>7, AtProbeReported

----------------------------------------------------------------------------
(* A recorded failure is reported *)

\* A reported failure stays reported in every step.
LEMMA StepReported ==
  ASSUME IInv, RecordedOK, NEW i, Reported(i), [Next]_vars
  PROVE  Reported(i)'
<1>1. CASE CallRunProbes
  BY <1>1 DEF CallRunProbes, NextPhase, Reported
<1>2. CASE Execute
  <2>1. CASE \/ PreChaosCmdProbe \/ PreChaosHTTPProbe \/ PreChaosK8sProbe \/ PreChaosPromProbe
             \/ PostChaosCmdProbe \/ PostChaosHTTPProbe \/ PostChaosK8sProbe \/ PostChaosPromProbe
             \/ OnChaosCmdProbe \/ OnChaosHTTPProbe \/ OnChaosK8sProbe \/ OnChaosPromProbe
    BY <1>2, <2>1, HandlerCases, HandlerReported DEF IInv
  <2> QED
    BY <1>2, <2>1, LoopReported, CarryReported, DecideReported, ElsewhereReported, MarkReported DEF Execute
<1>3. CASE \E j \in DOMAIN probes : Poller(j) \/ PodTerminates(j)
  BY <1>3, OthersReported
<1>4. CASE UNCHANGED vars
  BY <1>4 DEF vars, detailVars, probeVars, Reported, IsBackground, HasFailed, Carried
<1> QED
  BY <1>1, <1>2, <1>3, <1>4 DEF Next

\* checkForErrorInContinuousProbe asks for what the goroutine has recorded once and for all.
THEOREM RecordedInvariance == Spec => []RecordedOK
<1>1. Init => RecordedOK
  <2> SUFFICES ASSUME Init, NEW i \in DOMAIN probes
               PROVE  probeDetails[i].failedWithError = Nil /\ poller[i] = "none"
    BY DEF RecordedOK, Nil, Err
  <2> QED
    BY DEF Init, ProbeInit, InitialProbeDetails
<1>2. IInv /\ RecordedOK /\ [Next]_vars => RecordedOK'
  <2>1. ASSUME IInv, RecordedOK, UNCHANGED vars PROVE RecordedOK'
    BY <2>1 DEF vars, detailVars, probeVars, RecordedOK
  <2> QED
    BY <2>1, MainRecorded, OthersRecorded DEF Next
<1> QED
  BY <1>1, <1>2, Invariance, PTL DEF Spec

\* checkForErrorInContinuousProbe: a failure that a goroutine has recorded by the time PostChaos
\* starts fails the probe, and the experiment if the probe is to stop it, for any list of probes.
THEOREM RecordedIsReported == Spec => FailureIsReported
<1> SUFFICES ASSUME NEW i \in UNION {DOMAIN list : list \in ProbeLists}
             PROVE  Spec => [](RecordedInTime(i) =>
                              []((i \in Background /\ PostChaosPassed /\ ~raced)
                                   => /\ probeDetails[i].phase = "Failed"
                                      /\ ~probes[i].stopOnFailure))
  BY DEF FailureIsReported, RecordedInTime
<1> DEFINE Told == (i \in Background /\ PostChaosPassed /\ ~raced)
                     => /\ probeDetails[i].phase = "Failed"
                        /\ ~probes[i].stopOnFailure
<1>1. IInv /\ RecordedInTime(i) => Reported(i)
  <2> SUFFICES ASSUME IInv, RecordedInTime(i) PROVE Reported(i)
    OBVIOUS
  <2>1. i \in DOMAIN probes /\ IsBackground(i)
    BY ProbesOK DEF RecordedInTime, Background, Foreground, IsBackground, Modes, IInv
  <2>2. run.pc = "fetch" /\ run.idx = 1 /\ ~(i < 1)
    BY <2>1, ProbesOK DEF RecordedInTime, IInv, ControlOK
  <2> QED
    BY <2>1, <2>2 DEF RecordedInTime, Reported, Judged
<1>2. IInv /\ RecordedOK /\ Reported(i) /\ [Next]_vars => Reported(i)'
  BY StepReported
<1>3. Reported(i) => Told
  BY DEF Reported, PostChaosPassed, HasFailed
<1> QED
  BY <1>1, <1>2, <1>3, Invariance, RecordedInvariance, PTL DEF Spec
=============================================================================
