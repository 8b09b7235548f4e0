------------------------ MODULE ExperimentRunProofs ------------------------
(***************************************************************************)
(* Proofs about Experiment: what is counted and told of a run that no      *)
(* signal disturbs.  Main alone calls ChaosResult then, so that its place  *)
(* in the script, its copy of the result, the verdict and the history have *)
(* to agree at every step (Alone); and as long as no goroutine has loaded  *)
(* from err what another had stored, the probes that main has behind it    *)
(* have their verdicts, of which alone a pass is made (Earned).            *)
(***************************************************************************)
EXTENDS ExperimentProofs

----------------------------------------------------------------------------
(* Main alone: no signal has come *)

\* The history is the one that the process found, or has the run in it once, under the
\* verdict of a completed result.
Uncounted == cr.runs = oldResult.runs
Closes(r) ==
  /\ r.phase = "Completed" /\ verdict \in {"Pass", "Fail"} /\ r.verdict = verdict
  /\ r.score # R!AwaitedScore
  /\ r.runs = [oldResult.runs EXCEPT ![verdict] = @ + 1]
Closed == Closes(cr)

own == call["main"]
Calling == own.pc # "idle"
HeadRank == IF MainScript = <<>> THEN 0 ELSE Rank(Head(MainScript))
Final == own.state = "EOT"

\* The abort watcher sleeps.
Asleep == todo["abort"] = <<>> /\ call["abort"].pc = "idle"

\* Main is in a call only at an operation that makes one.
CallPlace ==
  /\ Calling => busy["main"] /\ HeadRank = (IF Final THEN 9 ELSE 2)
  /\ HeadRank \notin {2, 4, 5, 7, 9} => ~busy["main"]

\* The copy that main has of the resource, which nobody else writes.
CopyOK ==
  /\ own.pc # "reget"
  /\ own.pc \in {"labels", "create", "status", "fill"} => own.res = cr
  /\ own.pc = "create" => ~cr.exists
  /\ own.pc \in {"status", "fill", "score", "update"} =>
       own.res.exists /\ cr.exists /\ (Final => phase = "Completed")
  /\ own.pc = "score" => /\ own.res.rv = cr.rv /\ own.res.runs = cr.runs
                         /\ own.res.verdict = verdict /\ own.res.phase = phase
  /\ own.pc = "update" /\ Final =>
       IF own.res.rv = cr.rv THEN Uncounted /\ Closes(own.res) ELSE Closed
  /\ own.pc = "update" /\ ~Final => own.res.runs = oldResult.runs

\* The verdict at main's place.
VerdictOK ==
  /\ verdict \in {"Awaited", "Pass", "Fail"}
  /\ Left(2) => verdict = "Awaited" /\ phase = "Running"
  /\ ~failed /\ Left(6) => verdict = "Awaited"
  /\ ~failed /\ Left(9) /\ ~Left(6) => verdict \in {"Pass", "Fail"}
  /\ ~failed /\ Left(9) /\ verdict = "Fail" => HeadRank = 9 /\ busy["main"]
  /\ failed /\ ~Left(8) => verdict = "Fail"
  /\ verdict = "Pass" => chaos = "injected"
  /\ Left(6) /\ ~Left(5) => chaos = "injected"

\* When the run is counted.
CountOK ==
  /\ Uncounted \/ Closed
  /\ ~cr.exists => cr.runs = R!NoResult.runs
  /\ Left(9) /\ ~(HeadRank = 9 /\ busy["main"] /\ own.pc \in {"idle", "update"}) => Uncounted
  /\ failed /\ Left(8) => Uncounted
  /\ HeadRank = 9 /\ busy["main"] /\ own.pc = "idle" /\ own.ret = Nil /\ recorded => Closed
  /\ recorded => cr.exists
  /\ Left(2) => ~recorded
  /\ Left(9) => eot = "none"
  /\ eot = Nil /\ recorded => Closed
  /\ ~failed /\ ~lenient /\ Left(10) => Left(9) \/ eot = Nil

\* What the event details and the events in the ChaosResult tell.
Event(reason) == [kind |-> "ChaosResult", reason |-> reason]
Told(reason) == Event(reason) \in published \union {eventsDetails}

EventsOK ==
  ~lenient =>
    /\ Told("Pass") => ~Left(9) /\ ~Left(8) /\ verdict = "Pass" /\ eot = Nil
    /\ Told("Fail") => ~Left(9) /\ ~Left(8) /\ verdict # "Pass"

Alone == Asleep /\ CallPlace /\ CopyOK /\ VerdictOK /\ CountOK /\ EventsOK
AloneOK == Unsignalled => Alone

----------------------------------------------------------------------------
(* How a script goes on *)

\* The operation that main is at, and what is left.
LEMMA Place ==
  ASSUME TypeIInv
  PROVE  /\ HeadRank \in 0 .. 10
         /\ MainScript = <<>> => HeadRank = 0
         /\ HeadRank > 0 => Left(HeadRank)
         /\ \A r \in 1 .. 10 : Left(r) /\ HeadRank > 0 => HeadRank <= r
         /\ HeadRank \in 1 .. 7 => ~failed /\ Left(9)
         /\ HeadRank = 8 => failed
<1>1. PlannedSeq(MainScript, lenient, failed) /\ (~failed => FollowedUp(MainScript))
  BY TypesOf DEF ScriptsOK
<1>2. CASE MainScript = <<>>
  BY <1>2 DEF HeadRank
<1>3. CASE MainScript # <<>>
  <2>1. HeadRank = Rank(Head(MainScript)) /\ HeadRank \in 0 .. 10
    BY <1>3, RankNat DEF HeadRank
  <2>2. Left(HeadRank)
    BY <1>1, <1>3, <2>1, HeadAndTail DEF Left
  <2>3. ASSUME NEW r \in 1 .. 10, Left(r), HeadRank > 0
        PROVE  HeadRank <= r
    <3>1. CASE Has(Tail(MainScript), r)
      <4>1. PICK k \in DOMAIN Tail(MainScript) : Rank(Tail(MainScript)[k]) = r
        BY <3>1 DEF Has
      <4>2. Precedes(Head(MainScript), Tail(MainScript)[k])
        BY <1>1, <1>3, HeadAndTail
      <4> QED
        BY <2>1, <2>3, <4>1, <4>2 DEF Precedes
    <3>2. r = Rank(Head(MainScript)) \/ Has(Tail(MainScript), r)
      BY <1>1, <1>3, <2>3, HeadAndTail DEF Left
    <3> QED
      BY <2>1, <3>1, <3>2
  <2>4. ASSUME HeadRank \in 1 .. 8, ~failed
        PROVE  Left(9)
    <3>1. Head(MainScript).op \notin TailOps
      BY <2>1, <2>4 DEF Rank, TailOps
    <3>2. 1 \in DOMAIN MainScript /\ MainScript[1] = Head(MainScript)
      BY <1>1, <1>3 DEF PlannedSeq
    <3> QED
      BY <1>1, <2>4, <3>1, <3>2 DEF FollowedUp, Left
  <2>5. Planned(Head(MainScript), lenient, failed)
    BY <1>1, <1>3, HeadAndTail
  <2>6. (HeadRank \in 1 .. 7 => ~failed) /\ (HeadRank = 8 => failed)
    BY <2>1, <2>5 DEF Planned, Rank
  <2>7. HeadRank \in 1 .. 7 => Left(9)
    BY <2>4, <2>6
  <2> QED
    BY <1>3, <2>1, <2>2, <2>3, <2>6, <2>7
<1> QED
  BY <1>2, <1>3

\* The rest of the script,
Goes == failed' = failed /\ \A r \in 1 .. 10 : Left(r)' <=> Left(r) /\ HeadRank # r
\* nothing, after an error,
Leaves == ~failed /\ ~failed' /\ \A r \in 1 .. 10 : ~Left(r)'
\* or the end of a failed experiment.
Breaks ==
  /\ ~failed /\ failed' /\ Left(9) /\ HeadRank # 9
  /\ Left(8)' /\ \A r \in 1 .. 7 : ~Left(r)'

\* The end of a failed experiment in four parts.
LEMMA RecordJoins ==
  ASSUME NEW lax, NEW failing, NEW c, NEW u, NEW e, NEW n,
         Part(c, 8, 8, lax, failing), Has(c, 8), Part(u, 9, 9, lax, failing),
         Part(e, 10, 10, lax, failing), Part(n, 11, 11, lax, failing)
  PROVE  /\ Part(c \o u, 8, 9, lax, failing) /\ Has(c \o u, 8)
         /\ Part(((c \o u) \o e) \o n, 8, 11, lax, failing) /\ Has(((c \o u) \o e) \o n, 8)
<1> DEFINE s2 == c \o u
<1>1. Part(s2, 8, 9, lax, failing) /\ \A r : Has(s2, r) <=> Has(c, r) \/ Has(u, r)
  BY Grows
<1> HIDE DEF s2
<1> DEFINE s3 == s2 \o e
<1>2. Part(s3, 8, 10, lax, failing) /\ \A r : Has(s3, r) <=> Has(s2, r) \/ Has(e, r)
  BY <1>1, Grows
<1> HIDE DEF s3
<1> DEFINE s4 == s3 \o n
<1>3. Part(s4, 8, 11, lax, failing) /\ \A r : Has(s4, r) <=> Has(s3, r) \/ Has(n, r)
  BY <1>2, Grows
<1> HIDE DEF s4
<1> QED
  BY <1>1, <1>2, <1>3, Zenon DEF s2, s3, s4

\* What RecordAfterFailure, and an event with SetResultAfterCompletion, leave to do.
LEMMA RecordRanks ==
  ASSUME NEW lax \in BOOLEAN, NEW failing \in BOOLEAN, failing
  PROVE  /\ Part(RecordAfterFailure, 8, 11, lax, failing) /\ Has(RecordAfterFailure, 8)
         /\ Part(Complete("Fail"), 8, 8, lax, failing) /\ Has(Complete("Fail"), 8)
         /\ Part(Complete("Fail") \o Update("EOT", "ignore"), 8, 9, lax, failing)
         /\ Has(Complete("Fail") \o Update("EOT", "ignore"), 8)
<1> DEFINE o == [op |-> "complete", arg |-> "Fail", onError |-> "ignore"]
<1> DEFINE c == Complete("Fail")
<1> DEFINE u == Update("EOT", "ignore")
<1> DEFINE e == ResultEvent("Fail")
<1> DEFINE n == IfEngine(EngineEvent)
<1>0. 11 \in Nat
  OBVIOUS
<1>1. o \in Ops /\ Planned(o, lax, failing) /\ Rank(o) = 8
  BY DEF Ops, OpNames, Args, Handlers, Reasons, Planned, Rank
<1>2. c = <<o>>
  BY DEF Complete, Op
<1> HIDE DEF o
<1>3. Part(c, 8, 8, lax, failing) /\ Has(c, 8)
  BY <1>1, <1>2, RankPart
<1>4. "ignore" = (IF lax \/ failing THEN "ignore" ELSE "return")
      /\ "Fail" \in IF failing THEN {"Fail"} ELSE {"byVerdict", "Summary"}
  OBVIOUS
<1>5. Part(u, 9, 9, lax, failing) /\ Part(e, 10, 10, lax, failing) /\ Part(n, 11, 11, lax, failing)
  BY <1>0, <1>4, FinishPart
<1>6. RecordAfterFailure = ((c \o u) \o e) \o n
  BY DEF RecordAfterFailure
<1>7. c = Complete("Fail") /\ c \o u = Complete("Fail") \o Update("EOT", "ignore")
  OBVIOUS
<1> HIDE DEF c, u, e, n
<1> QED
  BY <1>3, <1>5, <1>6, <1>7, RecordJoins, Zenon

\* An event before it makes no difference.
LEMMA EventRanks ==
  ASSUME NEW t, NEW lo \in {8}, NEW hi \in Nat, NEW lax \in BOOLEAN, NEW failing \in BOOLEAN,
         Part(t, lo, hi, lax, failing), Has(t, 8)
  PROVE  /\ Has(t, 8) /\ \A r \in 1 .. 7 : ~Has(t, r)
         /\ Has(EngineEvent \o t, 8) /\ \A r \in 1 .. 7 : ~Has(EngineEvent \o t, r)
<1>1. \A r \in 1 .. 7 : r \in Nat \ {0} /\ r < lo
  OBVIOUS
<1>2. \A r \in 1 .. 7 : ~Has(t, r)
  BY <1>1, PartLacks
<1>3. \A r \in Nat \ {0} : Has(EngineEvent \o t, r) <=> Has(t, r)
  BY EventFirst DEF Part
<1> QED
  BY <1>2, <1>3

\* A failed experiment is completed, and does no more than that.
LEMMA ErrorCompletes ==
  ASSUME NEW rest, NEW lax \in BOOLEAN, NEW failing \in BOOLEAN, failing,
         NEW h \in Handlers \ {"ignore", "warn", "return"}
  PROVE  Has(OnError(h, rest), 8) /\ \A r \in 1 .. 7 : ~Has(OnError(h, rest), r)
<1>0. /\ Part(RecordAfterFailure, 8, 11, lax, failing) /\ Has(RecordAfterFailure, 8)
      /\ Part(Complete("Fail"), 8, 8, lax, failing) /\ Has(Complete("Fail"), 8)
  BY RecordRanks
<1>1. CASE h = "record"
  <2>1. OnError(h, rest) = RecordAfterFailure
    BY <1>1 DEF OnError
  <2> QED
    BY <1>0, <2>1, EventRanks
<1>2. CASE h = "event"
  <2>1. OnError(h, rest) = EngineEvent \o RecordAfterFailure
    BY <1>2 DEF OnError
  <2> QED
    BY <1>0, <2>1, EventRanks
<1>3. CASE h = "complete"
  <2>1. OnError(h, rest) = EngineEvent \o Complete("Fail")
    BY <1>3 DEF OnError
  <2> QED
    BY <1>0, <2>1, EventRanks
<1>4. CASE h = "update"
  <2> DEFINE s == Complete("Fail") \o Update("EOT", "ignore")
  <2>1. OnError(h, rest) = (EngineEvent \o Complete("Fail")) \o Update("EOT", "ignore")
    BY <1>4 DEF OnError
  <2>2. Part(s, 8, 9, lax, failing) /\ Has(s, 8)
    BY RecordRanks
  <2>3. (EngineEvent \o Complete("Fail")) \o Update("EOT", "ignore") = EngineEvent \o s
    <3> DEFINE a == EngineEvent
    <3> DEFINE b == Complete("Fail")
    <3> DEFINE c == Update("EOT", "ignore")
    <3>1. a \in Seq(Ops) /\ b \in Seq(Ops) /\ c \in Seq(Ops)
      BY DEF EngineEvent, Complete, Update, Op, Ops, OpNames, Args, Reasons, Handlers
    <3> HIDE DEF a, b, c
    <3>2. (a \o b) \o c = a \o (b \o c)
      BY <3>1, Associative
    <3> QED
      BY <3>2 DEF a, b, c
  <2> HIDE DEF s
  <2> QED
    BY <2>1, <2>2, <2>3, EventRanks
<1> QED
  BY <1>1, <1>2, <1>3, <1>4 DEF Handlers

\* An operation is done, ...
LEMMA DoneGoes ==
  ASSUME TypeIInv, MainScript # <<>>, Done("main"), UNCHANGED failed
  PROVE  Goes
<1>1. MainScript' = Tail(MainScript)
  BY TypesOf DEF Done, MainScript, OwnTypes, Thread
<1>2. PlannedSeq(MainScript, lenient, failed)
  BY TypesOf DEF ScriptsOK
<1>3. ASSUME NEW r \in 1 .. 10
      PROVE  Has(Tail(MainScript), r) <=> Has(MainScript, r) /\ Rank(Head(MainScript)) # r
  <2>1. Has(MainScript, r) <=> r = Rank(Head(MainScript)) \/ Has(Tail(MainScript), r)
    BY <1>2, HeadAndTail
  <2>2. ASSUME Has(Tail(MainScript), r)
        PROVE  Rank(Head(MainScript)) # r
    <3>1. PICK k \in DOMAIN Tail(MainScript) : Rank(Tail(MainScript)[k]) = r
      BY <2>2 DEF Has
    <3>2. Precedes(Head(MainScript), Tail(MainScript)[k])
      BY <1>2, HeadAndTail
    <3>3. Rank(Head(MainScript)) \in 0 .. 10
      BY RankNat
    <3> QED
      BY <3>1, <3>2, <3>3 DEF Precedes
  <2> QED
    BY <2>1, <2>2
<1> QED
  BY <1>1, <1>3 DEF Goes, Left, HeadRank

\* ... or has failed.
LEMMA FailGoes ==
  ASSUME TypeIInv, MainScript # <<>>, Fail("main")
  PROVE  Goes \/ Leaves \/ Breaks
<1> DEFINE h == Head(MainScript).onError
<1>0. /\ failed \in BOOLEAN /\ lenient \in BOOLEAN /\ h \in Handlers
      /\ Planned(Head(MainScript), lenient, failed) /\ PlannedSeq(MainScript, lenient, failed)
      /\ "main" \in Thread
  <2>1. "main" \in Thread /\ todo["main"] # <<>>
    BY DEF Thread, MainScript
  <2> QED
    BY <2>1, TypesOf, NextOperation DEF OwnTypes, Ops, MainScript, ScriptsOK
<1>1. /\ failed' = (failed \/ h \notin {"ignore", "warn", "return"})
      /\ todo' = [todo EXCEPT !["main"] = OnError(h, Tail(MainScript))]
  BY DEF Fail, MainScript
<1>2. MainScript' = OnError(h, Tail(MainScript))
  BY <1>0, <1>1, TypesOf DEF MainScript, OwnTypes
<1>3. CASE h = "ignore"
  <2>1. Done("main") /\ UNCHANGED failed
    BY <1>0, <1>1, <1>3 DEF Done, OnError, MainScript
  <2> QED
    BY <2>1, DoneGoes
<1>4. CASE h = "return"
  <2>1. ~failed
    BY <1>0, <1>4 DEF Planned
  <2>2. MainScript' = <<>> /\ \A r : ~Has(<<>>, r)
    BY <1>2, <1>4 DEF OnError, Has
  <2>3. ~failed'
    BY <1>1, <1>4, <2>1
  <2> QED
    BY <2>1, <2>2, <2>3 DEF Leaves, Left
<1>5. CASE h = "warn"
  <2>1. MainScript' = EngineEvent \o Tail(MainScript) /\ failed' = failed
    BY <1>0, <1>1, <1>2, <1>5 DEF OnError
  <2>2. Rank(Head(MainScript)) = 0
    BY <1>0, <1>5 DEF Planned, Rank
  <2>3. PlannedSeq(Tail(MainScript), lenient, failed)
        /\ \A r : Has(MainScript, r) <=> r = Rank(Head(MainScript)) \/ Has(Tail(MainScript), r)
    BY <1>0, HeadAndTail
  <2>4. \A r \in Nat \ {0} : Has(EngineEvent \o Tail(MainScript), r) <=> Has(Tail(MainScript), r)
    BY <1>0, <2>3, EventFirst
  <2>5. \A r \in 1 .. 10 : Has(MainScript', r) <=> Has(MainScript, r) /\ HeadRank # r
    BY <2>1, <2>2, <2>3, <2>4 DEF HeadRank
  <2> QED
    BY <2>1, <2>5 DEF Goes, Left
<1>6. CASE h \notin {"ignore", "warn", "return"}
  <2>1. failed' /\ failed' \in BOOLEAN
    BY <1>0, <1>1, <1>6
  <2>2. Has(MainScript', 8) /\ \A r \in 1 .. 7 : ~Has(MainScript', r)
    BY <1>0, <1>2, <1>6, <2>1, ErrorCompletes
  <2>3. ~failed /\ Head(MainScript).op \notin TailOps /\ HeadRank # 9
    BY <1>0, <1>6 DEF Planned, TailOps, HeadRank, Rank
  <2>4. Left(9)
    <3>1. FollowedUp(MainScript) /\ 1 \in DOMAIN MainScript /\ MainScript[1] = Head(MainScript)
      BY <1>0, <2>3, TypesOf DEF ScriptsOK, PlannedSeq
    <3> QED
      BY <2>3, <3>1 DEF FollowedUp, Left
  <2> QED
    BY <2>1, <2>2, <2>3, <2>4 DEF Breaks, Left
<1> QED
  BY <1>3, <1>4, <1>5, <1>6

----------------------------------------------------------------------------
(* Main's steps *)

\* A run is counted or not.
LEMMA Exclusive ==
  ASSUME TypeIInv
  PROVE  ~(Uncounted /\ Closed)
<1> SUFFICES ASSUME Uncounted, Closed PROVE FALSE
  OBVIOUS
<1>1. cr.runs = oldResult.runs /\ verdict \in {"Pass", "Fail"}
      /\ cr.runs = [oldResult.runs EXCEPT ![verdict] = @ + 1]
  BY DEF Uncounted, Closed, Closes
<1>2. cr.runs \in [R!Outcome -> Nat] /\ verdict \in R!Outcome
  BY <1>1, TypesOf DEF R!TypeOK, R!Results, R!Outcome
<1>3. cr.runs[verdict] = cr.runs[verdict] + 1 /\ cr.runs[verdict] \in Nat
  BY <1>1, <1>2
<1> QED
  BY <1>3

\* What neither the result nor the verdict has changed stays counted, or not.
LEMMA SameCount ==
  ASSUME UNCHANGED <<cr, verdict, oldResult>>
  PROVE  (Uncounted' <=> Uncounted) /\ (Closed' <=> Closed) /\ \A r : Closes(r)' <=> Closes(r)
  BY DEF Uncounted, Closed, Closes

\* An operation of the script that leaves the result, the calls and the verdict as they are.
Steps ==
  /\ Goes \/ Leaves \/ Breaks
  /\ UNCHANGED <<cr, call, verdict, phase, oldResult, eot, lenient>>
  /\ ~busy["main"]' /\ own.pc = "idle"
  /\ HeadRank \in {0, 1, 2, 3, 4, 5, 7, 10}
  /\ HeadRank = 5 /\ ~failed' => chaos' = "injected"

LEMMA StepsCall ==
  ASSUME Alone, Steps
  PROVE  CallPlace' /\ CopyOK'
<1>1. own' = own
  BY DEF Steps, own
<1> QED
  BY <1>1 DEF Steps, CallPlace, CopyOK, Calling

LEMMA StepsVerdict ==
  ASSUME TypeIInv, Alone, Steps, chaos' \in {chaos, "injected"}
  PROVE  VerdictOK'
<1>1. VerdictOK /\ verdict' = verdict /\ phase' = phase /\ failed \in BOOLEAN
  BY TypesOf DEF Alone, Steps, OwnTypes
<1>2. /\ HeadRank \in 1 .. 7 => ~failed /\ Left(9)
      /\ HeadRank > 0 => Left(HeadRank)
      /\ \A r \in 1 .. 10 : Left(r) /\ HeadRank > 0 => HeadRank <= r
  BY Place
<1>3. HeadRank \in {0, 1, 2, 3, 4, 5, 7, 10} /\ (HeadRank = 5 /\ ~failed' => chaos' = "injected")
  BY DEF Steps
<1>4. CASE Goes
  <2>1. /\ Left(2)' => Left(2)
        /\ (Left(6)' <=> Left(6)) /\ (Left(8)' <=> Left(8)) /\ (Left(9)' <=> Left(9))
        /\ (Left(5)' <=> Left(5) /\ HeadRank # 5) /\ failed' = failed
    BY <1>3, <1>4 DEF Goes
  <2>2. ASSUME Left(6)', ~Left(5)'
        PROVE  chaos' = "injected"
    <3>1. CASE HeadRank = 5
      <4>1. ~failed'
        BY <1>2, <2>1, <3>1
      <4> QED
        BY <1>3, <3>1, <4>1
    <3>2. CASE HeadRank # 5
      <4>1. chaos = "injected"
        BY <1>1, <2>1, <2>2, <3>2 DEF VerdictOK
      <4> QED
        BY <4>1
    <3> QED
      BY <3>1, <3>2
  <2> QED
    BY <1>1, <1>3, <2>1, <2>2 DEF VerdictOK
<1>5. CASE Leaves
  BY <1>1, <1>5 DEF Leaves, VerdictOK
<1>6. CASE Breaks
  BY <1>1, <1>6 DEF Breaks, VerdictOK
<1> QED
  BY <1>4, <1>5, <1>6 DEF Steps

LEMMA StepsCount ==
  ASSUME TypeIInv, Alone, Steps, recorded' = recorded \/ (HeadRank = 2 /\ recorded' = cr.exists)
  PROVE  CountOK'
<1>1. CountOK /\ failed \in BOOLEAN /\ HeadRank \in {0, 1, 2, 3, 4, 5, 7, 10}
      /\ ~busy["main"]' /\ own' = own /\ cr' = cr /\ eot' = eot /\ lenient' = lenient
  BY TypesOf DEF Alone, Steps, OwnTypes, own
<1>2. (Uncounted' <=> Uncounted) /\ (Closed' <=> Closed)
  BY SameCount DEF Steps
<1>3. /\ HeadRank > 0 => Left(HeadRank)
      /\ HeadRank \in 1 .. 7 => ~failed /\ Left(9)
      /\ \A r \in 1 .. 10 : Left(r) /\ HeadRank > 0 => HeadRank <= r
  BY Place
<1>4. recorded' => cr.exists
  BY <1>1 DEF CountOK
<1>5. eot = Nil /\ recorded' => Closed
  <2>1. CASE HeadRank = 2
    <3>1. eot = "none"
      BY <1>1, <1>3, <2>1 DEF CountOK
    <3> QED
      BY <3>1 DEF Nil
  <2>2. CASE HeadRank # 2
    BY <1>1, <2>2 DEF CountOK
  <2> QED
    BY <2>1, <2>2
<1>6. Left(2) /\ HeadRank # 2 => ~recorded'
  BY <1>1 DEF CountOK
<1>7. Left(9) => Uncounted
  BY <1>1 DEF CountOK
<1>8. CASE Goes
  <2>1. /\ Left(2)' => Left(2) /\ HeadRank # 2
        /\ (Left(8)' <=> Left(8)) /\ (Left(9)' <=> Left(9)) /\ (Left(10)' => Left(10))
        /\ failed' = failed
    BY <1>1, <1>8 DEF Goes
  <2> QED
    BY <1>1, <1>2, <1>4, <1>5, <1>6, <1>7, <2>1 DEF CountOK
<1>9. CASE Leaves
  BY <1>1, <1>2, <1>4, <1>5, <1>9 DEF Leaves, CountOK
<1>10. CASE Breaks
  <2>1. Uncounted /\ eot = "none" /\ ~Left(2)' /\ failed'
    BY <1>1, <1>7, <1>10 DEF Breaks, CountOK
  <2> QED
    BY <1>1, <1>2, <1>4, <1>5, <2>1 DEF CountOK
<1> QED
  BY <1>8, <1>9, <1>10 DEF Steps

\* Nothing new is told: what has been told of the verdict was told after the last ChaosResult.
LEMMA StepsEvents ==
  ASSUME TypeIInv, Alone, Goes \/ Leaves \/ Breaks, HeadRank \in 0 .. 10,
         UNCHANGED <<verdict, eot, lenient>>,
         Told("Pass")' => Told("Pass"), Told("Fail")' => Told("Fail")
  PROVE  EventsOK'
<1>1. EventsOK /\ \A r \in {8, 9} : r \in 1 .. 10
  BY DEF Alone
<1>2. CASE Goes
  BY <1>1, <1>2 DEF Goes, EventsOK
<1>3. CASE Leaves
  BY <1>1, <1>3 DEF Leaves, EventsOK
<1>4. CASE Breaks
  BY <1>1, <1>4 DEF Breaks, EventsOK
<1> QED
  BY <1>2, <1>3, <1>4

LEMMA SameEvents ==
  ASSUME UNCHANGED <<eventsDetails, published>>, NEW r
  PROVE  Told(r)' <=> Told(r)
  BY DEF Told, Event

\* What leaves the watcher alone.
LEMMA Sleeps ==
  ASSUME TypeIInv, Alone, UNCHANGED call,
         todo' = todo \/ Done("main") \/ Fail("main")
  PROVE  Asleep'
<1>1. todo'["abort"] = todo["abort"]
  BY TypesOf DEF OwnTypes, Thread, Done, Fail
<1> QED
  BY <1>1 DEF Alone, Asleep

\* The operation that main is at.
LEMMA MainHead ==
  ASSUME TypeIInv, NEW op, At("main", op)
  PROVE  /\ MainScript # <<>> /\ HeadRank = Rank(Head(MainScript))
         /\ Head(MainScript) \in Ops /\ Planned(Head(MainScript), lenient, failed)
         /\ Head(MainScript).op = op /\ Arg("main") = Head(MainScript).arg
<1>1. MainScript # <<>> /\ Head(MainScript).op = op /\ todo["main"] = MainScript
  BY DEF At, MainScript
<1>2. PlannedSeq(MainScript, lenient, failed)
  BY TypesOf DEF ScriptsOK
<1> QED
  BY <1>1, <1>2, HeadAndTail DEF HeadRank, Arg

\* An operation in main's script that ChaosResult and the verdict have no part in.
LEMMA QuietStep ==
  ASSUME TypeIInv, Alone, MainScript # <<>>, (Done("main") /\ UNCHANGED failed) \/ Fail("main"),
         HeadRank \in {0, 1, 3, 4, 7, 10}, HeadRank \in {4, 7} => ~busy["main"]',
         busy' = busy \/ HeadRank \in {4, 7},
         UNCHANGED <<cr, call, verdict, phase, oldResult, eot, lenient, chaos, recorded>>
  PROVE  /\ Asleep' /\ CallPlace' /\ CopyOK' /\ VerdictOK' /\ CountOK'
         /\ Goes \/ Leaves \/ Breaks
<1>1. Goes \/ Leaves \/ Breaks
  BY DoneGoes, FailGoes
<1>2. own.pc = "idle"
  BY DEF Alone, CallPlace, Calling
<1>3. ~busy["main"]'
  BY DEF Alone, CallPlace
<1>4. Steps
  BY <1>1, <1>2, <1>3 DEF Steps
<1> QED
  BY <1>1, <1>4, Sleeps, StepsCall, StepsVerdict, StepsCount

LEMMA InitProbesAlone ==
  ASSUME TypeIInv, Alone, DoInitProbes("main")
  PROVE  Alone'
<1>1. /\ At("main", "initProbes")
      /\ (Done("main") /\ UNCHANGED failed) \/ Fail("main")
      /\ UNCHANGED <<verdict, phase, cr, call, oldResult, lenient, busy, chaos, eventsDetails,
                     published, recorded, eot>>
  BY DEF DoInitProbes, Succeed
<1>2. HeadRank = 1 /\ MainScript # <<>>
  BY <1>1, MainHead DEF Rank
<1>3. /\ Asleep' /\ CallPlace' /\ CopyOK' /\ VerdictOK' /\ CountOK'
      /\ Goes \/ Leaves \/ Breaks
  BY <1>1, <1>2, QuietStep
<1>4. EventsOK'
  BY <1>1, <1>2, <1>3, StepsEvents, SameEvents
<1> QED
  BY <1>3, <1>4 DEF Alone

LEMMA WatchOrCheckAlone ==
  ASSUME TypeIInv, Alone, LaunchWatcher("main") \/ StatusCheck("main")
  PROVE  Alone'
<1>1. /\ At("main", "watch") \/ At("main", "check")
      /\ (Done("main") /\ UNCHANGED failed) \/ Fail("main")
      /\ UNCHANGED <<verdict, phase, cr, call, oldResult, lenient, busy, chaos, eventsDetails,
                     published, recorded, eot>>
  BY DEF LaunchWatcher, StatusCheck, Succeed, detailVars, resultVars
<1>2. HeadRank \in {0, 3} /\ MainScript # <<>>
  BY <1>1, MainHead DEF Rank
<1>3. /\ Asleep' /\ CallPlace' /\ CopyOK' /\ VerdictOK' /\ CountOK'
      /\ Goes \/ Leaves \/ Breaks
  BY <1>1, <1>2, QuietStep
<1>4. EventsOK'
  BY <1>1, <1>2, <1>3, StepsEvents, SameEvents
<1> QED
  BY <1>3, <1>4 DEF Alone

LEMMA GenerateAlone ==
  ASSUME TypeIInv, Alone, GenerateEvents("main")
  PROVE  Alone'
<1>1. /\ At("main", "generateEvents") /\ Done("main") /\ UNCHANGED failed
      /\ published' = published \union {eventsDetails}
      /\ UNCHANGED <<verdict, phase, cr, call, oldResult, lenient, busy, chaos, eventsDetails,
                     recorded, eot>>
  BY DEF GenerateEvents, detailVars, resultVars
<1>2. HeadRank = 0 /\ MainScript # <<>>
  BY <1>1, MainHead DEF Rank
<1>3. /\ Asleep' /\ CallPlace' /\ CopyOK' /\ VerdictOK' /\ CountOK'
      /\ Goes \/ Leaves \/ Breaks
  BY <1>1, <1>2, QuietStep
<1>4. (Told("Pass")' <=> Told("Pass")) /\ (Told("Fail")' <=> Told("Fail"))
  BY <1>1 DEF Told, Event
<1>5. EventsOK'
  BY <1>1, <1>2, <1>3, <1>4, StepsEvents
<1> QED
  BY <1>3, <1>5 DEF Alone

LEMMA SetEventAlone ==
  ASSUME TypeIInv, Alone, DoSetEvent("main")
  PROVE  Alone'
<1>1. /\ Done("main") /\ UNCHANGED failed
      /\ UNCHANGED <<verdict, phase, cr, call, oldResult, lenient, busy, chaos, published,
                     recorded, eot>>
  BY DEF DoSetEvent, detailVars, resultVars
<1>2. HeadRank \in {0, 10} /\ MainScript # <<>>
  <2>1. At("main", "setResultEvent") \/ At("main", "setEngineEvent")
    BY DEF DoSetEvent
  <2> QED
    BY <2>1, MainHead DEF Rank
<1>3. /\ Asleep' /\ CallPlace' /\ CopyOK' /\ VerdictOK' /\ CountOK'
      /\ Goes \/ Leaves \/ Breaks
  BY <1>1, <1>2, QuietStep
<1>4. CASE At("main", "setEngineEvent")
  <2>1. eventsDetails' = [kind |-> "ChaosEngine", reason |-> "Engine"]
    BY <1>4 DEF DoSetEvent, At
  <2>2. (Told("Pass")' => Told("Pass")) /\ (Told("Fail")' => Told("Fail"))
    BY <1>1, <2>1 DEF Told, Event
  <2>3. EventsOK'
    BY <1>1, <1>2, <1>3, <2>2, StepsEvents
  <2> QED
    BY <1>3, <2>3 DEF Alone
<1>5. CASE At("main", "setResultEvent")
  <2>1. eventsDetails' = [kind |-> "ChaosResult",
                          reason |-> IF Arg("main") # "byVerdict" THEN Arg("main")
                                     ELSE IF verdict = "Pass" THEN "Pass" ELSE "Fail"]
    BY <1>5 DEF DoSetEvent, At
  <2>2. /\ Arg("main") \in (IF failed THEN {"Fail"} ELSE {"Awaited", "byVerdict", "Summary"})
        /\ HeadRank = (IF Arg("main") = "Awaited" THEN 0 ELSE 10)
    BY <1>5, MainHead DEF Planned, Rank
  <2>3. CASE Arg("main") \in {"Awaited", "Summary"}
    <3>1. eventsDetails' \in {Event("Awaited"), Event("Summary")}
      BY <2>1, <2>3 DEF Event
    <3>2. (Told("Pass")' => Told("Pass")) /\ (Told("Fail")' => Told("Fail"))
      BY <1>1, <3>1 DEF Told, Event
    <3>3. EventsOK'
      BY <1>1, <1>2, <1>3, <3>2, StepsEvents
    <3> QED
      BY <1>3, <3>3 DEF Alone
  <2>4. CASE Arg("main") \in {"byVerdict", "Fail"}
    <3>1. HeadRank = 10 /\ (failed <=> Arg("main") = "Fail")
      BY <2>2, <2>4
    <3>2. ~Left(8) /\ ~Left(9) /\ Left(10) /\ Goes
      <4>1. Left(10) /\ \A r \in 1 .. 10 : Left(r) => 10 <= r
        BY <3>1, Place
      <4> QED
        BY <1>1, <1>2, <4>1, DoneGoes
    <3>3. ~Left(8)' /\ ~Left(9)'
      BY <3>2 DEF Goes
    <3>4. CASE failed
      <4>1. eventsDetails' = Event("Fail") /\ verdict = "Fail"
        BY <2>1, <3>1, <3>2, <3>4 DEF Event, Alone, VerdictOK
      <4>2. EventsOK'
        BY <1>1, <3>3, <4>1 DEF Alone, EventsOK, Told, Event
      <4> QED
        BY <1>3, <4>2 DEF Alone
    <3>5. CASE ~failed
      <4>1. eventsDetails' = Event(IF verdict = "Pass" THEN "Pass" ELSE "Fail")
        BY <2>1, <2>4, <3>1, <3>5 DEF Event
      <4>2. ~lenient => eot = Nil
        BY <3>2, <3>5 DEF Alone, CountOK
      <4>3. EventsOK'
        BY <1>1, <3>3, <4>1, <4>2 DEF Alone, EventsOK, Told, Event
      <4> QED
        BY <1>3, <4>3 DEF Alone
    <3> QED
      BY <3>4, <3>5
  <2> QED
    BY <2>2, <2>3, <2>4
<1> QED
  BY <1>4, <1>5 DEF DoSetEvent

LEMMA PassAlone ==
  ASSUME TypeIInv, Alone, PassVerdict("main")
  PROVE  Alone'
<1>1. /\ At("main", "pass") /\ Done("main") /\ UNCHANGED failed /\ verdict' = "Pass"
      /\ UNCHANGED <<phase, cr, call, oldResult, lenient, busy, chaos, eventsDetails,
                     published, recorded, eot>>
  BY DEF PassVerdict, resultVars
<1>2. HeadRank = 6 /\ MainScript # <<>>
  BY <1>1, MainHead DEF Rank
<1>3. /\ ~failed /\ Left(9) /\ Left(6) /\ \A r \in 1 .. 10 : Left(r) => 6 <= r
  BY <1>2, Place
<1>4. ~Left(2) /\ ~Left(5)
  BY <1>3
<1>5. Goes
  BY <1>1, <1>2, DoneGoes
<1>6. ~Left(2)' /\ ~Left(6)' /\ Left(9)' /\ ~failed'
  BY <1>2, <1>3, <1>4, <1>5 DEF Goes
<1>7. /\ own' = own /\ own.pc = "idle" /\ ~busy["main"] /\ ~busy["main"]'
      /\ Uncounted /\ Uncounted' /\ eot = "none" /\ chaos = "injected"
  BY <1>1, <1>2, <1>3, <1>4 DEF Alone, CallPlace, Calling, CountOK, VerdictOK, Uncounted, own
<1>8. Asleep'
  BY <1>1, Sleeps
<1>9. CallPlace' /\ CopyOK'
  BY <1>7 DEF CallPlace, CopyOK, Calling
<1>10. VerdictOK'
  BY <1>1, <1>6, <1>7 DEF VerdictOK
<1>11. CountOK'
  BY <1>1, <1>6, <1>7 DEF Alone, CountOK, Nil
<1>12. EventsOK'
  BY <1>1, <1>3, SameEvents DEF Alone, EventsOK
<1> QED
  BY <1>8, <1>9, <1>10, <1>11, <1>12 DEF Alone

LEMMA CompleteAlone ==
  ASSUME TypeIInv, Alone, CompleteResult("main")
  PROVE  Alone'
<1>1. /\ At("main", "complete") /\ Done("main") /\ UNCHANGED failed
      /\ UNCHANGED <<cr, call, oldResult, lenient, busy, chaos, eventsDetails,
                     published, recorded, eot>>
      /\ SetResultAfterCompletion(Arg("main"), IF Arg("main") = "Fail" THEN "Completed" ELSE "Stopped")
  BY DEF CompleteResult, resultVars
<1>2. HeadRank = 8 /\ MainScript # <<>> /\ Arg("main") = "Fail"
  BY <1>1, MainHead DEF Rank, Planned
<1>3. verdict' = "Fail" /\ phase' = "Completed"
  BY <1>1, <1>2 DEF SetResultAfterCompletion
<1>4. failed /\ Left(8) /\ \A r \in 1 .. 10 : Left(r) => 8 <= r
  BY <1>2, Place
<1>5. Goes
  BY <1>1, <1>2, DoneGoes
<1>6. ~Left(2)' /\ ~Left(6)' /\ ~Left(8)' /\ (Left(9)' <=> Left(9)) /\ failed'
  <2>1. ~Left(2) /\ ~Left(6)
    BY <1>4
  <2> QED
    BY <1>1, <1>2, <1>4, <1>5, <2>1 DEF Goes
<1>7. /\ own' = own /\ own.pc = "idle" /\ ~busy["main"] /\ ~busy["main"]'
      /\ Uncounted /\ Uncounted'
  BY <1>1, <1>2, <1>4 DEF Alone, CallPlace, Calling, CountOK, Uncounted, own
<1>8. ~(eot = Nil /\ recorded)
  BY <1>7, Exclusive DEF Alone, CountOK
<1>9. Asleep'
  BY <1>1, Sleeps
<1>10. CallPlace' /\ CopyOK'
  BY <1>7 DEF CallPlace, CopyOK, Calling
<1>11. VerdictOK'
  BY <1>3, <1>6 DEF VerdictOK
<1>12. CountOK'
  BY <1>1, <1>6, <1>7, <1>8 DEF Alone, CountOK
<1>13. EventsOK'
  BY <1>1, <1>4, SameEvents DEF Alone, EventsOK
<1> QED
  BY <1>9, <1>10, <1>11, <1>12, <1>13 DEF Alone

\* ChaosResult is called, ...
LEMMA CallUpdateAlone ==
  ASSUME TypeIInv, Alone, CallUpdate("main")
  PROVE  Alone'
<1>1. /\ At("main", "update") /\ ~busy["main"] /\ busy' = [busy EXCEPT !["main"] = TRUE]
      /\ R!CallChaosResult("main", Arg("main"))
      /\ UNCHANGED <<cr, verdict, phase, oldResult, lenient, todo, failed, chaos, eventsDetails,
                     published, recorded, eot>>
  BY DEF CallUpdate, R!CallChaosResult, R!detailVars
<1>2. HeadRank = (IF Arg("main") = "EOT" THEN 9 ELSE 2) /\ Arg("main") \in {"SOT", "EOT"}
  BY <1>1, MainHead DEF Rank, Planned
<1>3. /\ HeadRank' = HeadRank /\ (\A r : Left(r)' <=> Left(r))
      /\ (\A r : Told(r)' <=> Told(r))
  BY <1>1 DEF HeadRank, Left, MainScript, Told, Event
<1>4. own'.pc = "get" /\ own'.state = Arg("main") /\ call'["abort"] = call["abort"]
  BY <1>1, TypesOf DEF R!CallChaosResult, R!IdleCall, own, Thread, R!TypeOK
<1>5. busy["main"]'
  BY <1>1, TypesOf DEF OwnTypes, Thread
<1>6. own.pc = "idle" /\ (Left(9) => Uncounted)
  BY <1>1 DEF Alone, CallPlace, Calling, CountOK
<1>7. (Uncounted' <=> Uncounted) /\ (Closed' <=> Closed)
  BY <1>1, SameCount
<1>8. Asleep'
  BY <1>1, <1>4 DEF Alone, Asleep
<1>9. CallPlace' /\ CopyOK'
  BY <1>2, <1>3, <1>4, <1>5 DEF CallPlace, CopyOK, Calling, Final
<1>10. VerdictOK'
  BY <1>1, <1>3, <1>5 DEF Alone, VerdictOK
<1>11. CountOK'
  BY <1>1, <1>3, <1>4, <1>6, <1>7 DEF Alone, CountOK
<1>12. EventsOK'
  BY <1>1, <1>3 DEF Alone, EventsOK
<1> QED
  BY <1>8, <1>9, <1>10, <1>11, <1>12 DEF Alone

\* ... and has returned.
LEMMA ReturnUpdateAlone ==
  ASSUME TypeIInv, Alone, ReturnUpdate("main")
  PROVE  Alone'
<1>1. /\ At("main", "update") /\ busy["main"] /\ call["main"].pc = "idle"
      /\ busy' = [busy EXCEPT !["main"] = FALSE]
      /\ IF own.ret = Err THEN Fail("main") ELSE Done("main") /\ UNCHANGED failed
      /\ recorded' = IF Arg("main") = "SOT" THEN cr.exists ELSE recorded
      /\ eot' = IF Arg("main") = "EOT" THEN own.ret ELSE eot
      /\ UNCHANGED <<cr, call, verdict, phase, oldResult, lenient, chaos, eventsDetails, published>>
  BY DEF ReturnUpdate, Succeed, detailVars, resultVars, own
<1>2. /\ HeadRank = (IF Arg("main") = "EOT" THEN 9 ELSE 2) /\ Arg("main") \in {"SOT", "EOT"}
      /\ MainScript # <<>> /\ Planned(Head(MainScript), lenient, failed)
      /\ Arg("main") = Head(MainScript).arg /\ Head(MainScript).op = "update"
  BY <1>1, MainHead DEF Rank, Planned
<1>3. own.pc = "idle" /\ own' = own /\ ~busy["main"]'
  BY <1>1, TypesOf DEF own, OwnTypes, Thread
<1>4. Goes \/ Leaves \/ Breaks
  BY <1>1, <1>2, DoneGoes, FailGoes
<1>5. Asleep'
  BY <1>1, Sleeps
<1>6. CASE Arg("main") = "SOT"
  <2>1. HeadRank = 2 /\ eot' = eot /\ recorded' = cr.exists
    BY <1>1, <1>2, <1>6
  <2>2. Steps
    BY <1>1, <1>3, <1>4, <2>1 DEF Steps
  <2>3. CallPlace' /\ CopyOK' /\ VerdictOK' /\ CountOK'
    BY <1>1, <2>1, <2>2, StepsCall, StepsVerdict, StepsCount
  <2>4. EventsOK'
    BY <1>1, <1>4, <2>1, StepsEvents, SameEvents
  <2> QED
    BY <1>5, <2>3, <2>4 DEF Alone
<1>7. CASE Arg("main") = "EOT"
  <2>1. HeadRank = 9 /\ eot' = own.ret /\ recorded' = recorded
    BY <1>1, <1>2, <1>7
  <2>2. Left(9) /\ \A r \in 1 .. 10 : Left(r) => 9 <= r
    BY <2>1, Place
  <2>3. ~Left(2) /\ ~Left(5) /\ ~Left(6) /\ ~Left(8)
    BY <2>2
  <2>4. Goes \/ Leaves
    BY <1>4, <2>1 DEF Breaks
  <2>5. /\ ~Left(2)' /\ ~Left(5)' /\ ~Left(6)' /\ ~Left(8)' /\ ~Left(9)' /\ failed' = failed
    <3>1. failed \in BOOLEAN /\ failed' \in BOOLEAN
      <4>1. Goes => failed' \in BOOLEAN
        BY TypesOf DEF Goes, OwnTypes
      <4>2. Leaves => failed' = FALSE
        BY <1>1, TypesOf DEF Leaves, Fail, Done, OwnTypes
      <4> QED
        BY <2>4, <4>1, <4>2, TypesOf DEF OwnTypes
    <3> QED
      BY <2>1, <2>3, <2>4, <3>1 DEF Goes, Leaves
  <2>6. CallPlace' /\ CopyOK'
    BY <1>3 DEF CallPlace, CopyOK, Calling
  <2>7. VerdictOK'
    BY <1>1, <2>3, <2>5 DEF Alone, VerdictOK
  <2>8. (Uncounted' <=> Uncounted) /\ (Closed' <=> Closed)
    BY <1>1, SameCount
  <2>9. ~failed' /\ ~lenient' /\ Left(10)' => eot' = Nil
    <3> SUFFICES ASSUME ~failed, ~lenient, Left(10)' PROVE own.ret = Nil
      BY <1>1, <2>1, <2>5
    <3>1. CASE own.ret = Err
      <4>1. Head(MainScript).onError = "return"
        BY <1>2, <1>7 DEF Planned
      <4>2. MainScript' = <<>>
        BY <1>1, <3>1, <4>1, TypesOf DEF Fail, OnError, MainScript, OwnTypes, Thread
      <4>3. ~Left(10)'
        BY <4>2 DEF Left, Has
      <4> QED
        BY <4>3
    <3>2. own.ret \in {Nil, Err}
      BY TypesOf, ErrorsAlike DEF R!TypeOK, R!Calls, own, Thread, Errors
    <3> QED
      BY <3>1, <3>2
  <2>10. CountOK'
    BY <1>1, <1>3, <2>1, <2>5, <2>8, <2>9 DEF Alone, CountOK
  <2>11. EventsOK'
    BY <1>1, <2>2, SameEvents DEF Alone, EventsOK
  <2> QED
    BY <1>5, <2>6, <2>7, <2>10, <2>11 DEF Alone
<1> QED
  BY <1>2, <1>6, <1>7

----------------------------------------------------------------------------
(* ChaosResult, as main calls it *)

\* What the caller's place says.
LEMMA CallFacts ==
  ASSUME TypeIInv, Alone, own.pc # "idle"
  PROVE  /\ own \in R!Calls /\ busy["main"] /\ Left(9) /\ eot = "none"
         /\ Final => /\ HeadRank = 9 /\ ~Left(2) /\ ~Left(6) /\ ~Left(8)
                     /\ verdict \in {"Pass", "Fail"} /\ (failed => verdict = "Fail")
         /\ ~Final => /\ HeadRank = 2 /\ Left(2) /\ ~failed /\ ~recorded
                      /\ verdict = "Awaited" /\ phase = "Running" /\ Uncounted
         /\ own.pc # "update" => Uncounted
         /\ ~(Told("Pass") /\ ~lenient) /\ ~(Told("Fail") /\ ~lenient)
<1>1. own \in R!Calls
  BY TypesOf DEF R!TypeOK, own, Thread
<1>2. busy["main"] /\ HeadRank = (IF Final THEN 9 ELSE 2)
  BY DEF Alone, CallPlace, Calling
<1>3. /\ HeadRank > 0 => Left(HeadRank)
      /\ \A r \in 1 .. 10 : Left(r) /\ HeadRank > 0 => HeadRank <= r
      /\ HeadRank \in 1 .. 7 => ~failed /\ Left(9)
  BY Place
<1>4. CASE Final
  <2>1. HeadRank = 9 /\ Left(9) /\ ~Left(2) /\ ~Left(6) /\ ~Left(8)
    BY <1>2, <1>3, <1>4
  <2>2. verdict \in {"Pass", "Fail"} /\ (failed => verdict = "Fail")
    BY <2>1 DEF Alone, VerdictOK
  <2>3. own.pc # "update" => Uncounted
    BY <2>1 DEF Alone, CountOK
  <2>4. ~(Told("Pass") /\ ~lenient) /\ ~(Told("Fail") /\ ~lenient)
    BY <2>1 DEF Alone, EventsOK
  <2> QED
    BY <1>1, <1>2, <1>4, <2>1, <2>2, <2>3, <2>4 DEF Alone, CountOK
<1>5. CASE ~Final
  <2>1. HeadRank = 2 /\ Left(9) /\ Left(2) /\ ~failed
    BY <1>2, <1>3, <1>5
  <2>2. ~(Told("Pass") /\ ~lenient) /\ ~(Told("Fail") /\ ~lenient)
    BY <2>1 DEF Alone, EventsOK
  <2> QED
    BY <1>1, <1>2, <1>5, <2>1, <2>2 DEF Alone, CountOK, VerdictOK
<1> QED
  BY <1>4, <1>5

\* A step of ChaosResult leaves the process as it is.
LEMMA CallFrame ==
  ASSUME UNCHANGED experimentVars
  PROVE  /\ UNCHANGED <<oldResult, lenient, todo, busy, chaos, recorded, eot, failed>>
         /\ HeadRank' = HeadRank /\ (\A r : Left(r)' <=> Left(r)) /\ (\A r : Told(r)' <=> Told(r))
  BY DEF experimentVars, HeadRank, Left, MainScript, Told, Event

\* The call goes on or returns, and neither the result nor the verdict has changed.
LEMMA CallGoesOn ==
  ASSUME TypeIInv, Alone, own.pc # "idle", UNCHANGED experimentVars, UNCHANGED <<cr, verdict>>,
         NEW c, call' = [call EXCEPT !["main"] = c],
         c.pc \notin {"idle", "update"} => own.pc # "update",
         c.pc # "idle" => c.state = own.state,
         c.pc = "idle" /\ c.ret = Nil => ~recorded,
         phase' # phase => Final, CopyOK'
  PROVE  Alone'
<1>1. /\ own' = c /\ call'["abort"] = call["abort"]
  BY TypesOf DEF R!TypeOK, own, Thread
<1>2. /\ UNCHANGED <<oldResult, lenient, todo, busy, chaos, recorded, eot, failed>>
      /\ HeadRank' = HeadRank /\ (\A r : Left(r)' <=> Left(r)) /\ (\A r : Told(r)' <=> Told(r))
  BY CallFrame
<1>3. (Uncounted' <=> Uncounted) /\ (Closed' <=> Closed)
  BY <1>2, SameCount
<1>4. Asleep'
  BY <1>1, <1>2 DEF Alone, Asleep
<1>5. CallPlace'
  BY <1>1, <1>2 DEF Alone, CallPlace, Calling, Final
<1>6. VerdictOK'
  BY <1>2, CallFacts DEF Alone, VerdictOK
<1>7. CountOK'
  BY <1>1, <1>2, <1>3, CallFacts DEF Alone, CountOK
<1>8. EventsOK'
  BY <1>2 DEF Alone, EventsOK
<1> QED
  BY <1>4, <1>5, <1>6, <1>7, <1>8 DEF Alone

\* The call returns an error.
LEMMA CallReturns ==
  ASSUME TypeIInv, Alone, own.pc # "idle", UNCHANGED experimentVars, UNCHANGED <<cr, verdict, phase>>,
         NEW e, R!Return("main", e), e = Nil => ~recorded
  PROVE  Alone'
<1>1. call' = [call EXCEPT !["main"] = R!IdleCall(e)]
  BY DEF R!Return
<1>2. own' = R!IdleCall(e) /\ R!IdleCall(e).pc = "idle" /\ R!IdleCall(e).ret = e
  BY <1>1, TypesOf DEF R!TypeOK, own, Thread, R!IdleCall
<1>3. CopyOK'
  BY <1>2 DEF CopyOK
<1> QED
  BY <1>1, <1>2, <1>3, CallGoesOn

LEMMA GetAlone ==
  ASSUME TypeIInv, Alone, R!GetResult("main"), UNCHANGED experimentVars
  PROVE  Alone'
<1>1. own.pc = "get" /\ UNCHANGED <<cr, verdict, phase>>
  BY DEF R!GetResult, own, R!detailVars
<1>2. CASE R!Return("main", R!Err)
  BY <1>1, <1>2, CallReturns DEF R!Err, Nil
<1>3. CASE call' = [call EXCEPT !["main"].pc = "labels", !["main"].res = cr]
  <2> DEFINE c == [own EXCEPT !.pc = "labels", !.res = cr]
  <2>1. call' = [call EXCEPT !["main"] = c]
    BY <1>3, TypesOf DEF R!TypeOK, own, Thread
  <2>2. c.pc = "labels" /\ c.state = own.state /\ c.res = cr /\ own' = c
    BY <1>1, <2>1, CallFacts, TypesOf DEF R!TypeOK, R!Calls, own, Thread
  <2> HIDE DEF c
  <2>3. CopyOK'
    BY <1>1, <2>2 DEF CopyOK
  <2> QED
    BY <1>1, <2>1, <2>2, <2>3, CallGoesOn
<1> QED
  BY <1>2, <1>3 DEF R!GetResult

LEMMA LabelsAlone ==
  ASSUME TypeIInv, Alone, R!FetchLabels("main"), UNCHANGED experimentVars
  PROVE  Alone'
<1>1. own.pc = "labels" /\ UNCHANGED <<cr, verdict>> /\ own.res = cr
  BY DEF R!FetchLabels, own, Alone, CopyOK
<1>2. CASE R!Return("main", R!Err) /\ UNCHANGED phase
  BY <1>1, <1>2, CallReturns DEF R!Err, Nil
<1>3. CASE /\ R!Step("main", IF call["main"].res.exists THEN "status" ELSE "create")
           /\ phase' = IF call["main"].res.exists /\ call["main"].state = "EOT"
                       THEN "Completed" ELSE phase
  <2> DEFINE c == [own EXCEPT !.pc = IF cr.exists THEN "status" ELSE "create"]
  <2>1. call' = [call EXCEPT !["main"] = c]
    BY <1>1, <1>3, TypesOf DEF R!TypeOK, own, Thread, R!Step
  <2>2. /\ c.pc = (IF cr.exists THEN "status" ELSE "create")
        /\ c.state = own.state /\ c.res = cr /\ own' = c
    BY <1>1, <2>1, CallFacts, TypesOf DEF R!TypeOK, R!Calls, own, Thread
  <2>3. phase' = IF cr.exists /\ Final THEN "Completed" ELSE phase
    BY <1>1, <1>3 DEF own, Final
  <2> HIDE DEF c
  <2>4. CopyOK'
    BY <1>1, <2>2, <2>3 DEF CopyOK, Final
  <2> QED
    BY <1>1, <2>1, <2>2, <2>3, <2>4, CallGoesOn
<1> QED
  BY <1>2, <1>3 DEF R!FetchLabels

LEMMA StatusAlone ==
  ASSUME TypeIInv, Alone, R!GetChaosStatus("main"), UNCHANGED experimentVars
  PROVE  Alone'
<1>1. own.pc = "status" /\ UNCHANGED <<cr, verdict, phase>>
  BY DEF R!GetChaosStatus, own, R!detailVars
<1>2. CASE R!Return("main", R!Err)
  BY <1>1, <1>2, CallReturns DEF R!Err, Nil
<1>3. CASE R!Step("main", "fill")
  <2> DEFINE c == [own EXCEPT !.pc = "fill"]
  <2>1. call' = [call EXCEPT !["main"] = c]
    BY <1>3, TypesOf DEF R!TypeOK, own, Thread, R!Step
  <2>2. c.pc = "fill" /\ c.state = own.state /\ c.res = own.res /\ own' = c
    BY <1>1, <2>1, CallFacts, TypesOf DEF R!TypeOK, R!Calls, own, Thread
  <2> HIDE DEF c
  <2>3. CopyOK'
    BY <1>1, <2>2 DEF CopyOK, Alone, Final
  <2> QED
    BY <1>1, <2>1, <2>2, <2>3, CallGoesOn
<1> QED
  BY <1>2, <1>3 DEF R!GetChaosStatus

LEMMA FillAlone ==
  ASSUME TypeIInv, Alone, R!FillResult("main"), UNCHANGED experimentVars
  PROVE  Alone'
<1>1. own.pc = "fill" /\ UNCHANGED <<cr, verdict, phase>> /\ own.res = cr /\ own \in R!Calls
  BY CallFacts DEF R!FillResult, own, R!detailVars, Alone, CopyOK
<1> DEFINE c == [own EXCEPT !.pc = "score", !.res = R!Filled(own.res), !.allPassed = R!GetProbeStatus]
<1>2. call' = [call EXCEPT !["main"] = c]
  BY TypesOf DEF R!FillResult, R!TypeOK, own, Thread
<1>3. c.pc = "score" /\ c.state = own.state /\ c.res = R!Filled(cr) /\ own' = c
  BY <1>1, <1>2, TypesOf DEF R!TypeOK, R!Calls, own, Thread
<1> HIDE DEF c
<1>4. /\ c.res.exists = cr.exists /\ c.res.rv = cr.rv /\ c.res.runs = cr.runs
      /\ c.res.verdict = verdict /\ c.res.phase = phase
  <2>1. cr \in R!Results
    BY TypesOf DEF R!TypeOK
  <2>2. /\ R!Filled(cr).exists = cr.exists /\ R!Filled(cr).rv = cr.rv
        /\ R!Filled(cr).runs = cr.runs
        /\ R!Filled(cr).verdict = verdict /\ R!Filled(cr).phase = phase
    BY <2>1 DEF R!Results, R!Filled
  <2> QED
    BY <1>3, <2>2
<1>5. CopyOK'
  BY <1>1, <1>3, <1>4 DEF CopyOK, Alone, Final
<1> QED
  BY <1>1, <1>2, <1>3, <1>5, CallGoesOn

LEMMA CreateAlone ==
  ASSUME TypeIInv, Alone, R!CreateResult("main"), UNCHANGED experimentVars
  PROVE  Alone'
<1>1. own.pc = "create" /\ UNCHANGED <<verdict, phase>> /\ ~cr.exists
  BY DEF R!CreateResult, own, R!detailVars, Alone, CopyOK
<1>2. ~recorded /\ Uncounted /\ cr.runs = R!NoResult.runs
  BY <1>1, CallFacts DEF Alone, CountOK
<1>3. CASE R!Return("main", R!Nil) /\ UNCHANGED cr
  BY <1>1, <1>2, <1>3, CallReturns
<1>4. CASE /\ cr' = [R!NoResult EXCEPT !.exists = TRUE, !.rv = cr.rv + 1,
                                       !.phase = phase, !.verdict = verdict]
           /\ R!Return("main", R!Nil)
  <2>1. cr'.runs = cr.runs /\ cr'.exists
    BY <1>2, <1>4 DEF R!NoResult
  <2>2. own'.pc = "idle" /\ call'["abort"] = call["abort"]
    BY <1>4, TypesOf DEF R!TypeOK, own, Thread, R!Return, R!IdleCall
  <2>3. /\ UNCHANGED <<oldResult, lenient, todo, busy, chaos, recorded, eot, failed>>
        /\ HeadRank' = HeadRank /\ (\A r : Left(r)' <=> Left(r)) /\ (\A r : Told(r)' <=> Told(r))
    BY CallFrame
  <2>4. Uncounted'
    BY <1>2, <2>1, <2>3 DEF Uncounted
  <2>5. Asleep'
    BY <2>2, <2>3 DEF Alone, Asleep
  <2>6. CallPlace' /\ CopyOK'
    BY <2>2, <2>3 DEF Alone, CallPlace, CopyOK, Calling
  <2>7. VerdictOK'
    BY <1>1, <2>3 DEF Alone, VerdictOK
  <2>8. CountOK'
    BY <1>1, <1>2, <2>1, <2>3, <2>4 DEF Alone, CountOK
  <2>9. EventsOK'
    BY <1>1, <2>3 DEF Alone, EventsOK
  <2> QED
    BY <2>5, <2>6, <2>7, <2>8, <2>9 DEF Alone
<1> QED
  BY <1>1, <1>3, <1>4 DEF R!CreateResult

\* The run is scored, and counted in the copy.
LEMMA ScoreAlone ==
  ASSUME TypeIInv, Alone, R!ScoreResult("main"), UNCHANGED experimentVars
  PROVE  Alone'
<1>1. /\ own.pc = "score" /\ UNCHANGED <<cr, phase, passedProbeCount, probes>> /\ own \in R!Calls
      /\ own.res \in R!Results
  BY CallFacts DEF R!ScoreResult, own, R!Calls
<1>2. /\ own.res.exists /\ cr.exists /\ (Final => phase = "Completed")
      /\ own.res.rv = cr.rv /\ own.res.runs = cr.runs
      /\ own.res.verdict = verdict /\ own.res.phase = phase
  BY <1>1 DEF Alone, CopyOK
<1>3. /\ UNCHANGED <<oldResult, lenient, todo, busy, chaos, recorded, eot, failed>>
      /\ HeadRank' = HeadRank /\ (\A r : Left(r)' <=> Left(r)) /\ (\A r : Told(r)' <=> Told(r))
  BY CallFrame
<1>4. Uncounted /\ Left(9) /\ busy["main"] /\ eot = "none"
  BY <1>1, CallFacts
<1>5. CASE ~Final
  <2>1. phase # "Completed"
    BY <1>1, <1>5, CallFacts
  <2> DEFINE c == [own EXCEPT !.pc = "update", !.res.score = R!AwaitedScore]
  <2>2. call' = [call EXCEPT !["main"] = c] /\ verdict' = verdict
    BY <2>1, TypesOf DEF R!ScoreResult, R!TypeOK, own, Thread
  <2>3. /\ c.pc = "update" /\ c.state = own.state /\ c.res.runs = own.res.runs
        /\ c.res.exists = own.res.exists /\ own' = c
    BY <1>1, <2>2, TypesOf DEF R!TypeOK, R!Calls, R!Results, own, Thread
  <2> HIDE DEF c
  <2>4. CopyOK'
    BY <1>1, <1>2, <1>3, <1>4, <1>5, <2>3 DEF CopyOK, Final, Uncounted
  <2> QED
    BY <1>1, <2>2, <2>3, <2>4, CallGoesOn
<1>6. CASE Final
  <2>1. phase = "Completed" /\ HeadRank = 9 /\ ~Left(2) /\ ~Left(6) /\ ~Left(8)
        /\ verdict \in {"Pass", "Fail"} /\ (failed => verdict = "Fail")
    BY <1>1, <1>2, <1>6, CallFacts
  <2> DEFINE v == R!Judged(own)
  <2> DEFINE c == [own EXCEPT !.pc = "update", !.res = R!Scored(own)]
  <2>2. call' = [call EXCEPT !["main"] = c] /\ verdict' = v
    BY <2>1, TypesOf DEF R!ScoreResult, R!TypeOK, own, Thread
  <2>3. c.pc = "update" /\ c.state = own.state /\ c.res = R!Scored(own) /\ own' = c
        /\ call'["abort"] = call["abort"]
    BY <1>1, <2>2, TypesOf DEF R!TypeOK, R!Calls, own, Thread
  <2>4. v \in {"Pass", "Fail"} /\ (v = "Pass" => verdict = "Pass") /\ (verdict = "Fail" => v = "Fail")
    BY <2>1 DEF R!Judged
  <2>5. R!ProbeScore \in Nat
    <3>1. Len(probes) \in Nat /\ passedProbeCount \in Nat
      BY TypesOf, ProbeListsAssumption DEF DetailsTypeOK
    <3> QED
      BY <3>1 DEF R!ProbeScore
  <2>6. R!Judged(own) = v
    OBVIOUS
  <2> HIDE DEF c, v
  <2>7. /\ R!Scored(own).exists = own.res.exists /\ R!Scored(own).rv = own.res.rv
        /\ R!Scored(own).phase = own.res.phase
        /\ R!Scored(own).score # R!AwaitedScore
    BY <1>1, <2>4, <2>5, <2>6 DEF R!Scored, R!Results, R!AwaitedScore
  <2>8. R!Scored(own).verdict = v
    BY <1>1, <1>2, <2>6 DEF R!Scored, R!Results, R!Judged
  <2>9. R!Scored(own).runs = [oldResult.runs EXCEPT ![v] = @ + 1]
    <3>1. R!Scored(own).runs = [o \in R!Outcome |-> IF o = v THEN cr.runs[o] + 1 ELSE cr.runs[o]]
      BY <1>1, <1>2, <2>6 DEF R!Scored, R!Results
    <3>2. cr.runs \in [R!Outcome -> Nat] /\ cr.runs = oldResult.runs
      BY <1>4, TypesOf DEF R!TypeOK, R!Results, Uncounted
    <3> QED
      BY <3>1, <3>2
  <2>10. Uncounted' /\ Closes(own.res)'
    <3>1. own'.res = R!Scored(own)
      BY <2>3
    <3> QED
      BY <1>1, <1>2, <1>3, <1>4, <2>1, <2>2, <2>4, <2>7, <2>8, <2>9, <3>1
         DEF Uncounted, Closes, R!AwaitedScore
  <2>11. CopyOK'
    BY <1>1, <1>2, <1>6, <2>1, <2>3, <2>7, <2>10 DEF CopyOK, Final
  <2>12. Asleep' /\ CallPlace'
    BY <1>3, <1>4, <1>6, <2>1, <2>3 DEF Alone, Asleep, CallPlace, Calling, Final
  <2>13. VerdictOK'
    BY <1>1, <1>3, <1>4, <2>1, <2>2, <2>4 DEF Alone, VerdictOK
  <2>14. CountOK'
    BY <1>1, <1>3, <1>4, <2>1, <2>3, <2>10 DEF Alone, CountOK, Nil
  <2>15. EventsOK'
    BY <1>3, <1>4 DEF Alone, EventsOK
  <2> QED
    BY <2>11, <2>12, <2>13, <2>14, <2>15 DEF Alone
<1> QED
  BY <1>5, <1>6

\* The result is written, and the answer may be lost.
LEMMA UpdateAlone ==
  ASSUME TypeIInv, Alone, R!UpdateResult("main"), UNCHANGED experimentVars
  PROVE  Alone'
<1>1. own.pc = "update" /\ UNCHANGED <<verdict, phase>> /\ own \in R!Calls /\ own.res \in R!Results
  BY CallFacts DEF R!UpdateResult, own, R!detailVars, R!Calls
<1>2. own.res.exists /\ cr.exists /\ (Final => phase = "Completed")
  BY <1>1 DEF Alone, CopyOK
<1>3. CASE R!Return("main", R!Err) /\ UNCHANGED cr
  BY <1>1, <1>3, CallReturns DEF R!Err, Nil
<1>4. CASE /\ cr.rv = own.res.rv /\ cr' = [own.res EXCEPT !.rv = cr.rv + 1]
           /\ R!Return("main", R!Nil) \/ UNCHANGED call
  <2>1. /\ UNCHANGED <<oldResult, lenient, todo, busy, chaos, recorded, eot, failed>>
        /\ HeadRank' = HeadRank /\ (\A r : Left(r)' <=> Left(r)) /\ (\A r : Told(r)' <=> Told(r))
    BY CallFrame
  <2>2. /\ busy["main"] /\ Left(9) /\ eot = "none"
        /\ Final => HeadRank = 9 /\ ~Left(2) /\ ~Left(6) /\ ~Left(8)
        /\ ~Final => HeadRank = 2 /\ Left(2) /\ ~failed /\ ~recorded
    BY <1>1, CallFacts
  <2>3. /\ cr'.exists /\ cr'.rv # own.res.rv /\ cr'.phase = own.res.phase
        /\ cr'.verdict = own.res.verdict /\ cr'.score = own.res.score /\ cr'.runs = own.res.runs
    <3>1. cr.rv \in Nat
      BY TypesOf DEF R!TypeOK, R!Results
    <3> QED
      BY <1>1, <1>2, <1>4, <3>1 DEF R!Results
  <2>4. Final => Closed'
    <3>1. Final => Closes(own.res)
      BY <1>1, <1>4 DEF Alone, CopyOK
    <3> QED
      BY <1>1, <2>1, <2>3, <3>1 DEF Closes, Closed
  <2>5. ~Final => Uncounted' /\ own.res.runs = oldResult.runs
    BY <1>1, <2>1, <2>3 DEF Alone, CopyOK, Uncounted
  <2>6. /\ call'["abort"] = call["abort"]
        /\ own' = own \/ own'.pc = "idle"
    BY <1>4, TypesOf DEF R!TypeOK, own, Thread, R!Return, R!IdleCall
  <2>7. Asleep' /\ CallPlace'
    BY <2>1, <2>6 DEF Alone, Asleep, CallPlace, Calling, Final
  <2>8. CopyOK'
    BY <1>1, <1>2, <2>1, <2>3, <2>4, <2>5, <2>6 DEF CopyOK, Final
  <2>9. VerdictOK'
    BY <1>1, <2>1 DEF Alone, VerdictOK
  <2>10. CountOK'
    BY <1>1, <2>1, <2>2, <2>3, <2>4, <2>5, <2>6 DEF Alone, CountOK, Nil
  <2>11. EventsOK'
    BY <1>1, <2>1 DEF Alone, EventsOK
  <2> QED
    BY <2>7, <2>8, <2>9, <2>10, <2>11 DEF Alone
<1> QED
  BY <1>1, <1>3, <1>4 DEF R!UpdateResult, own

\* Main never gets to see that the result exists already: nobody else creates it.
LEMMA ResultAlone ==
  ASSUME TypeIInv, Alone, ExecuteChaosResult("main")
  PROVE  Alone'
<1>1. R!ChaosResultStep("main") /\ UNCHANGED experimentVars
  BY DEF ExecuteChaosResult
<1>2. ~R!RegetResult("main")
  BY DEF Alone, CopyOK, R!RegetResult, own
<1> QED
  BY <1>1, <1>2, GetAlone, LabelsAlone, CreateAlone, StatusAlone, FillAlone, ScoreAlone,
     UpdateAlone DEF R!ChaosResultStep, R!PatchChaosResult

----------------------------------------------------------------------------
(* Probes and chaos *)

\* Main stays at its place; the chaos may begin.
LEMMA StaysAlone ==
  ASSUME TypeIInv, Alone,
         UNCHANGED <<cr, call, verdict, phase, oldResult, lenient, todo, eventsDetails, published,
                     recorded, eot, failed>>,
         busy' = busy \/ (busy' = [busy EXCEPT !["main"] = TRUE] /\ HeadRank \in {4, 5, 7}),
         chaos' = chaos \/ (chaos = "none" /\ HeadRank = 5)
  PROVE  Alone'
<1>1. /\ HeadRank' = HeadRank /\ (\A r : Left(r)' <=> Left(r)) /\ (\A r : Told(r)' <=> Told(r))
      /\ own' = own
  BY DEF HeadRank, Left, MainScript, Told, Event, own
<1>2. (Uncounted' <=> Uncounted) /\ (Closed' <=> Closed) /\ (\A r : Closes(r)' <=> Closes(r))
  BY SameCount
<1>3. /\ HeadRank > 0 => Left(HeadRank)
      /\ HeadRank \in 1 .. 7 => ~failed /\ Left(9)
  BY Place
<1>4. busy["main"]' <=> (busy["main"] \/ (busy' # busy /\ HeadRank \in {4, 5, 7}))
  BY TypesOf DEF OwnTypes, Thread
<1>5. Asleep'
  BY DEF Alone, Asleep
<1>6. CallPlace'
  BY <1>1, <1>4 DEF Alone, CallPlace, Calling, Final
<1>7. CopyOK'
  BY <1>1, <1>2 DEF Alone, CopyOK, Final
<1>8. chaos = "none" /\ HeadRank = 5 => verdict # "Pass" /\ Left(5)
  BY <1>3 DEF Alone, VerdictOK
<1>9. VerdictOK'
  BY <1>1, <1>4, <1>8 DEF Alone, VerdictOK
<1>10. CountOK'
  BY <1>1, <1>2, <1>4 DEF Alone, CountOK
<1>11. EventsOK'
  BY <1>1 DEF Alone, EventsOK
<1> QED
  BY <1>5, <1>6, <1>7, <1>9, <1>10, <1>11 DEF Alone

LEMMA CallProbesAlone ==
  ASSUME TypeIInv, Alone, CallProbes
  PROVE  Alone'
<1>1. At("main", "probes") /\ ~busy["main"]
  BY DEF CallProbes
<1>2. HeadRank \in {4, 7} /\ MainScript # <<>>
  BY <1>1, MainHead DEF Rank, Planned
<1>3. CASE CallRunProbes(Arg("main")) /\ UNCHANGED chaos
  BY <1>2, <1>3, StaysAlone DEF CallRunProbes, P!RunProbes, P!detailVars, resultVars
<1>4. CASE /\ Done("main")
           /\ UNCHANGED <<detailVars, probeVars, resultVars, engineProbes, oldResult, lenient, busy,
                          process, watcher, signal, chaos, eventsDetails, published, recorded,
                          eot, failed>>
  <2>1. /\ Asleep' /\ CallPlace' /\ CopyOK' /\ VerdictOK' /\ CountOK'
        /\ Goes \/ Leaves \/ Breaks
    BY <1>1, <1>2, <1>4, QuietStep DEF detailVars, resultVars
  <2>2. EventsOK'
    BY <1>2, <1>4, <2>1, StepsEvents, SameEvents DEF detailVars
  <2> QED
    BY <2>1, <2>2 DEF Alone
<1> QED
  BY <1>3, <1>4 DEF CallProbes

LEMMA ReturnProbesAlone ==
  ASSUME TypeIInv, Alone, ReturnProbes
  PROVE  Alone'
<1>1. /\ At("main", "probes") /\ busy' = [busy EXCEPT !["main"] = FALSE]
      /\ (Done("main") /\ UNCHANGED failed) \/ Fail("main")
      /\ UNCHANGED <<cr, call, verdict, phase, oldResult, lenient, chaos, eventsDetails, published,
                     recorded, eot>>
  BY DEF ReturnProbes, Succeed, detailVars, resultVars
<1>2. HeadRank \in {4, 7} /\ MainScript # <<>>
  BY <1>1, MainHead DEF Rank, Planned
<1>3. ~busy["main"]'
  BY <1>1, TypesOf DEF OwnTypes, Thread
<1>4. /\ Asleep' /\ CallPlace' /\ CopyOK' /\ VerdictOK' /\ CountOK'
      /\ Goes \/ Leaves \/ Breaks
  BY <1>1, <1>2, <1>3, QuietStep
<1>5. EventsOK'
  BY <1>1, <1>2, <1>4, StepsEvents, SameEvents
<1> QED
  BY <1>4, <1>5 DEF Alone

LEMMA InjectAlone ==
  ASSUME TypeIInv, Alone, InjectChaos
  PROVE  Alone'
<1>1. At("main", "chaos") /\ chaos = "none"
  BY DEF InjectChaos
<1>2. HeadRank = 5
  BY <1>1, MainHead DEF Rank
<1> QED
  BY <1>1, <1>2, StaysAlone DEF InjectChaos, CallRunProbes, P!RunProbes, P!detailVars, detailVars,
     resultVars

LEMMA EndChaosAlone ==
  ASSUME TypeIInv, Alone, EndChaos
  PROVE  Alone'
<1>1. /\ At("main", "chaos") /\ busy' = [busy EXCEPT !["main"] = FALSE]
      /\ UNCHANGED <<cr, call, verdict, phase, oldResult, lenient, eventsDetails, published,
                     recorded, eot>>
      /\ \/ Done("main") /\ UNCHANGED failed /\ chaos' = "injected"
         \/ Fail("main") /\ chaos' = chaos
  BY DEF EndChaos, Succeed, detailVars, resultVars
<1>2. HeadRank = 5 /\ MainScript # <<>> /\ Head(MainScript).onError = "record"
  BY <1>1, MainHead DEF Rank, Planned
<1>3. ~busy["main"]' /\ own.pc = "idle"
  BY <1>1, <1>2, TypesOf DEF OwnTypes, Thread, Alone, CallPlace, Calling
<1>4. Goes \/ Leaves \/ Breaks
  BY <1>1, <1>2, DoneGoes, FailGoes
<1>5. ~failed' => chaos' = "injected"
  BY <1>1, <1>2 DEF Fail, MainScript
<1>6. Steps
  BY <1>1, <1>2, <1>3, <1>4, <1>5 DEF Steps
<1>7. Asleep'
  BY <1>1, Sleeps
<1>8. CallPlace' /\ CopyOK' /\ VerdictOK' /\ CountOK'
  BY <1>1, <1>6, StepsCall, StepsVerdict, StepsCount
<1>9. EventsOK'
  BY <1>1, <1>2, <1>4, StepsEvents, SameEvents
<1> QED
  BY <1>7, <1>8, <1>9 DEF Alone

LEMMA ProbesAlone ==
  ASSUME TypeIInv, Alone, ExecuteProbes \/ \E i \in DOMAIN probes : PollProbe(i)
  PROVE  Alone'
<1>1. UNCHANGED <<resultVars, experimentVars>>
  BY DEF ExecuteProbes, PollProbe
<1>2. UNCHANGED <<verdict, phase>>
  <2>1. CASE ExecuteProbes
    BY <2>1, TypesOf, ExecuteTyped DEF ExecuteProbes
  <2>2. CASE \E i \in DOMAIN probes : PollProbe(i)
    <3>1. PICK i \in DOMAIN probes : PollProbe(i)
      BY <2>2
    <3> QED
      BY <3>1, TypesOf, PollerTyped DEF PollProbe
  <2> QED
    BY <2>1, <2>2
<1> QED
  BY <1>1, <1>2, StaysAlone DEF resultVars, experimentVars

----------------------------------------------------------------------------
(* The process *)

\* The process ends, and nothing else happens; or nothing happens at all.
LEMMA EndAlone ==
  ASSUME TypeIInv, Alone,
         UNCHANGED <<detailVars, probeVars, resultVars, engineProbes, oldResult, lenient, todo, busy,
                     watcher, signal, chaos, eventsDetails, published, recorded, eot, failed>>
  PROVE  Alone'
  BY StaysAlone DEF detailVars, resultVars

LEMMA SignalNotAlone ==
  ASSUME TypeIInv, Signal
  PROVE  ~Unsignalled'
<1>1. signal' = chaos /\ chaos \in ChaosStates
  BY TypesOf DEF Signal, OwnTypes
<1> QED
  BY <1>1 DEF Unsignalled, ChaosStates

\* The watcher sleeps until there is a signal, and main has no exit in its script.
LEMMA AbortSleeps ==
  ASSUME Alone
  PROVE  ~ThreadStep("abort")
<1>1. todo["abort"] = <<>> /\ call["abort"].pc = "idle"
  BY DEF Alone, Asleep
<1>2. \A op : ~At("abort", op)
  BY <1>1 DEF At
<1>3. ~ExecuteChaosResult("abort")
  BY <1>1 DEF ExecuteChaosResult, R!ChaosResultStep, R!PatchChaosResult, R!GetResult, R!FetchLabels,
     R!CreateResult, R!RegetResult, R!GetChaosStatus, R!FillResult, R!ScoreResult, R!UpdateResult
<1> QED
  BY <1>2, <1>3 DEF ThreadStep, DoInitProbes, CallUpdate, ReturnUpdate, DoSetEvent, GenerateEvents,
     LaunchWatcher, StatusCheck, PassVerdict, CompleteResult, Exit

LEMMA MainAlone ==
  ASSUME TypeIInv, Alone, ThreadStep("main")
  PROVE  Alone'
<1>1. ~Exit("main")
  <2> SUFFICES ASSUME At("main", "exit") PROVE FALSE
    BY DEF Exit
  <2> QED
    BY MainHead DEF Planned
<1> QED
  BY <1>1, InitProbesAlone, CallUpdateAlone, ReturnUpdateAlone, SetEventAlone, GenerateAlone,
     WatchOrCheckAlone, PassAlone, CompleteAlone, ResultAlone DEF ThreadStep

\* A script at its start has what main's place takes for granted.
LEMMA AloneAtStart ==
  ASSUME Init, TypeIInv
  PROVE  Alone
<1>1. PICK c \in Cases : /\ lenient = (c.script = AzureInstanceStop)
                         /\ todo = [t \in Thread |-> IF t = "main" THEN c.script ELSE <<>>]
  BY DEF Init
<1>2. /\ MainScript = c.script /\ todo["abort"] = <<>>
      /\ call["abort"].pc = "idle" /\ own.pc = "idle" /\ ~busy["main"]
  BY <1>1 DEF Init, MainScript, Thread, own, R!IdleCall
<1>3. \A r \in {5, 6, 9} : c.script # <<>> => Left(r)
  <2>1. c.script \in Main
    BY CasesAssumption
  <2>2. CASE c.script = AzureInstanceStop
    BY <1>2, <2>2, AzureScript DEF Scripted, Left
  <2>3. CASE c.script # AzureInstanceStop
    BY <1>2, <2>1, <2>3, ScriptsOfMain DEF Scripted, Left
  <2> QED
    BY <2>2, <2>3
<1>4. c.script = <<>> => \A r : ~Left(r)
  BY <1>2 DEF Left, Has
<1>5. /\ cr = oldResult /\ verdict = "Awaited" /\ phase = "Running" /\ chaos = "none"
      /\ eventsDetails = [kind |-> "ChaosResult", reason |-> "none"] /\ published = {}
      /\ ~recorded /\ eot = "none" /\ ~failed
  BY DEF Init
<1>6. ~cr.exists => cr.runs = R!NoResult.runs
  BY <1>5, OldResultsAssumption DEF Init
<1>7. Asleep /\ CallPlace /\ CopyOK
  BY <1>2 DEF Asleep, CallPlace, CopyOK, Calling
<1>8. VerdictOK
  BY <1>3, <1>4, <1>5 DEF VerdictOK
<1>9. CountOK
  BY <1>2, <1>3, <1>4, <1>5, <1>6 DEF CountOK, Uncounted, Nil
<1>10. EventsOK
  BY <1>5 DEF EventsOK, Told, Event
<1> QED
  BY <1>7, <1>8, <1>9, <1>10 DEF Alone

LEMMA NextAlone ==
  ASSUME TypeIInv, AloneOK, [Next]_vars
  PROVE  AloneOK'
<1> SUFFICES ASSUME Unsignalled' PROVE Alone'
  BY DEF AloneOK
<1>1. CASE Signal
  BY <1>1, SignalNotAlone
<1>2. CASE ~Signal
  <2>1. signal' = signal
    BY <1>2 DEF Next, MainStep, ThreadStep, DoInitProbes, CallUpdate, ReturnUpdate, DoSetEvent,
       GenerateEvents, LaunchWatcher, StatusCheck, PassVerdict, CompleteResult, Exit,
       ExecuteChaosResult, CallProbes, CallRunProbes, ReturnProbes, InjectChaos, EndChaos,
       ExecuteProbes, PollProbe, MainReturns, ChaosLibExits, End, vars, experimentVars
  <2>2. Unsignalled /\ Alone
    BY <2>1 DEF Unsignalled, AloneOK
  <2>3. CASE ThreadStep("main")
    BY <2>2, <2>3, MainAlone
  <2>4. CASE CallProbes \/ ReturnProbes \/ InjectChaos \/ EndChaos
    BY <2>2, <2>4, CallProbesAlone, ReturnProbesAlone, InjectAlone, EndChaosAlone
  <2>5. CASE ExecuteProbes \/ \E i \in DOMAIN probes : PollProbe(i)
    BY <2>2, <2>5, ProbesAlone
  <2>6. CASE MainReturns \/ ChaosLibExits
    BY <2>2, <2>6, EndAlone DEF MainReturns, ChaosLibExits, End
  <2>7. CASE ThreadStep("abort")
    BY <2>2, <2>7, AbortSleeps
  <2>8. CASE UNCHANGED vars
    BY <2>2, <2>8, EndAlone DEF vars, experimentVars
  <2> QED
    BY <1>2, <2>3, <2>4, <2>5, <2>6, <2>7, <2>8 DEF Next, MainStep
<1> QED
  BY <1>1, <1>2

----------------------------------------------------------------------------
(* What the probes have come to, as long as err is not raced on *)

\* The phases in which main judges a probe, and the key that it reports under.
Judges(ph, mode) ==
  \/ ph = "PreChaos" /\ mode \in {"SOT", "Edge"}
  \/ ph = "PostChaos" /\ mode \in {"EOT", "Edge", "Continuous", "OnChaos"}
Key(ph, mode) == IF mode \in P!ForegroundModes THEN ph ELSE mode

\* Probe i has got its verdict of this phase, if it gets one.
Settled(ph, i) ==
  Judges(ph, probes[i].mode) =>
    /\ probeDetails[i].phase # "N/A"
    /\ probeDetails[i].status[Key(ph, probes[i].mode)] # "Awaited"
AllSettled(ph) == \A i \in DOMAIN probes : Settled(ph, i)

InForeground(i) == probes[i].mode \in P!ForegroundModes

\* RunProbes: main has settled the probes that it has behind it in this loop, and the one it
\* is at unless it carries an error along; goroutines run for background probes alone.
LoopOK ==
  /\ run.pc = "fetch" => run.idx = 1
  /\ run.pc \in {"createPod", "checkPod", "podChecked"} /\ ~InForeground(run.idx)
       => run.phase # "PostChaos"
  /\ run.strict /\ run.pc # "idle" =>
       \A i \in DOMAIN probes : i < run.idx => Settled(run.phase, i)
  /\ run.pc \in {"keep", "kept", "deletePod"} => Settled(run.phase, run.idx)
  /\ run.pc = "assign" => Settled(run.phase, run.idx) \/ run.local = P!Err
  /\ run.pc = "decide" => Settled(run.phase, run.idx) \/ wrote[P!Main] = P!Err
  /\ \A i \in DOMAIN probes : poller[i] # "none" => ~InForeground(i)

\* RunProbes is called at its place in the script.
PhaseRank(ph) ==
  CASE ph = "PreChaos" -> 4 [] ph = "DuringChaos" -> 5 [] ph = "PostChaos" -> 7 [] OTHER -> 0
Probing == busy["main"] /\ HeadRank \in {4, 5, 7}
PhaseOK ==
  /\ run.pc # "idle" => Probing
  /\ Probing => PhaseRank(run.phase) = HeadRank
  /\ Probing /\ run.pc = "idle" /\ run.ret = Nil => AllSettled(run.phase)

\* The phases that are behind main.
StatusOK ==
  \A i \in DOMAIN probes, k \in StatusKeys :
    probeDetails[i].status[k] = "Awaited" => k \in StatusKeysOf(probes[i].mode)
BehindOK ==
  /\ StatusOK
  /\ ~lenient /\ ~failed /\ Left(9) /\ ~Left(1) => probes = engineProbes
  /\ ~failed /\ Left(9) /\ ~Left(4) => AllSettled("PreChaos")
  /\ ~failed /\ Left(9) /\ ~Left(7) => AllSettled("PostChaos")

\* What the last ChaosResult makes of them.
NoneAwaited == \A i \in DOMAIN probes, k \in StatusKeys : probeDetails[i].status[k] # "Awaited"
NoneFailed == \A i \in DOMAIN probes : InForeground(i) => probeDetails[i].phase # "Failed"
AllPassed == \A i \in DOMAIN probes : InForeground(i) => probeDetails[i].phase = "Passed"
PassOK == verdict = "Pass" /\ ~lenient => probes = engineProbes /\ AllPassed
FinalOK ==
  /\ own.pc = "score" /\ own.allPassed => NoneFailed
  /\ Final /\ own.pc = "update" =>
       PassOK /\ NoneAwaited
  /\ Closed => PassOK /\ \A i \in DOMAIN probes, k \in StatusKeys : crProbes[i][k] # "Awaited"

Earned == LoopOK /\ PhaseOK /\ BehindOK /\ FinalOK
EarnedOK == Undisturbed => Earned

----------------------------------------------------------------------------
(* What a step may do to the verdicts of the probes *)

\* The probes stay, a probe keeps its verdict, and no status becomes awaited.
Advances ==
  /\ probes' = probes
  /\ \A i \in DOMAIN probes :
       /\ probeDetails[i].phase # "N/A" => probeDetails'[i].phase # "N/A"
       /\ \A k \in StatusKeys :
            probeDetails'[i].status[k] = "Awaited" => probeDetails[i].status[k] = "Awaited"

LEMMA JudgedKey ==
  ASSUME NEW ph, NEW mode, Judges(ph, mode)
  PROVE  Key(ph, mode) \in StatusKeys
  BY DEF Judges, Key, StatusKeys, P!ForegroundModes

LEMMA SettledKept ==
  ASSUME Advances, NEW ph, NEW i \in DOMAIN probes, Settled(ph, i)
  PROVE  Settled(ph, i)'
<1>1. probes' = probes
  BY DEF Advances
<1>2. SUFFICES ASSUME Judges(ph, probes[i].mode)
               PROVE  /\ probeDetails'[i].phase # "N/A"
                      /\ probeDetails'[i].status[Key(ph, probes[i].mode)] # "Awaited"
  BY <1>1 DEF Settled, Judges, Key
<1>3. Key(ph, probes[i].mode) \in StatusKeys
  BY <1>2, JudgedKey
<1> QED
  BY <1>2, <1>3 DEF Settled, Advances

LEMMA AllSettledKept ==
  ASSUME Advances, NEW ph, AllSettled(ph)
  PROVE  AllSettled(ph)'
<1>1. probes' = probes
  BY DEF Advances
<1>2. \A i \in DOMAIN probes : Settled(ph, i)'
  BY SettledKept DEF AllSettled
<1> QED
  BY <1>1, <1>2 DEF AllSettled

LEMMA BehindKept ==
  ASSUME Advances, BehindOK, UNCHANGED <<lenient, engineProbes, todo, failed>>
  PROVE  BehindOK'
<1>1. probes' = probes /\ \A r : Left(r)' <=> Left(r)
  BY DEF Advances, Left, MainScript
<1>2. StatusOK'
  BY DEF Advances, BehindOK, StatusOK
<1>3. (AllSettled("PreChaos") => AllSettled("PreChaos")')
      /\ (AllSettled("PostChaos") => AllSettled("PostChaos")')
  BY AllSettledKept
<1> QED
  BY <1>1, <1>2, <1>3 DEF BehindOK

LEMMA PhaseKept ==
  ASSUME Advances, PhaseOK, UNCHANGED <<run, busy, todo>>
  PROVE  PhaseOK'
<1>1. HeadRank' = HeadRank /\ (Probing' <=> Probing)
  BY DEF Probing, HeadRank, MainScript
<1>2. \A ph : AllSettled(ph) => AllSettled(ph)'
  BY AllSettledKept
<1> QED
  BY <1>1, <1>2 DEF PhaseOK, PhaseRank

LEMMA LoopKept ==
  ASSUME TypeIInv, Advances, LoopOK, run' = run, wrote'[P!Main] = wrote[P!Main],
         \A i \in DOMAIN probes : poller'[i] # "none" => poller[i] # "none"
  PROVE  LoopOK'
<1>1. probes' = probes /\ \A i : InForeground(i)' <=> InForeground(i)
  BY DEF Advances, InForeground
<1>2. \A ph, i : i \in DOMAIN probes /\ Settled(ph, i) => Settled(ph, i)'
  BY SettledKept
<1>3. run.pc \in {"keep", "kept", "deletePod", "assign", "decide"} => run.idx \in DOMAIN probes
  BY TypesOf DEF RunOK
<1> QED
  BY <1>1, <1>2, <1>3 DEF LoopOK

\* markedVerdictInEnd settles its probe, and no other.
LEMMA MarkSettles ==
  ASSUME P!TypeOK, NEW i \in DOMAIN probes, NEW e \in P!Errors, NEW ph,
         P!MarkedVerdictInEnd(i, e, ph), probes' = probes
  PROVE  /\ Advances /\ Settled(ph, i)'
         /\ \A j \in DOMAIN probes : j # i => probeDetails'[j] = probeDetails[j]
<1> DEFINE v == IF e = P!Nil THEN "Passed" ELSE "Failed"
           key == Key(ph, probes[i].mode)
           d == probeDetails[i]
           new == [d EXCEPT !.phase = v, !.status[key] = v]
<1>1. probeDetails' = [probeDetails EXCEPT ![i].phase = v, ![i].status[key] = v]
  BY Zenon DEF P!MarkedVerdictInEnd, P!SetProbeVerdict, Key
<1>2. d \in P!ProbeDetails /\ probeDetails \in [DOMAIN probes -> P!ProbeDetails]
  BY DEF P!TypeOK, P!DetailsTypeOK
<1>3. probeDetails' = [probeDetails EXCEPT ![i] = new]
  BY <1>1, <1>2 DEF P!ProbeDetails
<1>4. v \in {"Passed", "Failed"} /\ d.status \in [StatusKeys -> P!Statuses]
  BY <1>2 DEF P!ProbeDetails, StatusKeys, P!StatusKeys
<1>5. new.phase = v /\ new.status = [d.status EXCEPT ![key] = v]
  BY <1>2 DEF P!ProbeDetails
<1>6. key \in StatusKeys => new.status[key] = v
  BY <1>4, <1>5
<1>7. \A k \in StatusKeys : new.status[k] = "Awaited" => d.status[k] = "Awaited"
  BY <1>4, <1>5
<1>8. probeDetails'[i] = new /\ \A j \in DOMAIN probes : j # i => probeDetails'[j] = probeDetails[j]
  BY <1>2, <1>3
<1> HIDE DEF v, new
<1>9. Advances
  BY <1>4, <1>5, <1>7, <1>8 DEF Advances
<1>10. Settled(ph, i)'
  <2> SUFFICES ASSUME Judges(ph, probes[i].mode)
               PROVE  new.phase # "N/A" /\ new.status[key] # "Awaited"
    BY <1>8 DEF Settled, Judges, Key
  <2>1. key \in StatusKeys
    BY JudgedKey
  <2> QED
    BY <1>4, <1>5, <1>6, <2>1
<1> QED
  BY <1>8, <1>9, <1>10

\* RunProbes has made a step in phase ph, at probe n.
LoopStep(ph) ==
  /\ LoopOK' /\ Advances /\ run'.phase = ph
  /\ run'.pc = "idle" /\ run'.ret = P!Nil => AllSettled(ph)'

LEMMA StaysAdvanced ==
  ASSUME UNCHANGED <<probes, probeDetails>>
  PROVE  Advances
  BY DEF Advances

\* Main moves on within the loop.
LEMMA MovesOn ==
  ASSUME TypeIInv, LoopOK, Advances, NEW ph, NEW n, run.phase = ph, run.idx = n,
         run' \in Runs(Len(probes)), run'.phase = ph, run'.pc \notin {"idle", "fetch"},
         run'.strict => run'.idx = 1 \/ (run.strict /\ run.pc # "idle"),
         run'.idx \in {1, n} \/ (run'.idx = n + 1 /\ (run'.strict => Settled(ph, n)')),
         run'.pc \in {"createPod", "checkPod", "podChecked"} =>
             run'.idx = n /\ (InForeground(n) \/ ph # "PostChaos"),
         run'.pc \in {"keep", "kept", "deletePod", "assign", "decide"} => run'.idx = n,
         run'.pc \in {"keep", "kept", "deletePod"} => Settled(ph, n)',
         run'.pc = "assign" => Settled(ph, n)' \/ run'.local = P!Err,
         run'.pc = "decide" => Settled(ph, n)' \/ wrote'[P!Main] = P!Err,
         \A i \in DOMAIN probes : poller'[i] # "none" => poller[i] # "none" \/ ~InForeground(i)
  PROVE  LoopStep(ph)
<1>1. probes' = probes /\ \A i : InForeground(i)' <=> InForeground(i)
  BY DEF Advances, InForeground
<1>2. \A i \in DOMAIN probes : Settled(ph, i) => Settled(ph, i)'
  BY SettledKept
<1>3. /\ Len(probes) \in Nat /\ DOMAIN probes = 1 .. Len(probes)
      /\ run'.idx \in 1 .. Len(probes) + 1 /\ n \in 1 .. Len(probes) + 1
  BY TypesOf, ProbesTyped DEF P!TypeOK, Runs
<1>4. run'.strict => \A i \in DOMAIN probes : i < run'.idx => Settled(ph, i)'
  <2> SUFFICES ASSUME run'.strict, NEW i \in DOMAIN probes, i < run'.idx
               PROVE  Settled(ph, i)'
    OBVIOUS
  <2>1. run'.idx # 1 /\ run.strict /\ run.pc # "idle"
    BY <1>3
  <2>2. CASE i < n
    BY <1>2, <2>1, <2>2 DEF LoopOK
  <2>3. CASE ~(i < n)
    <3>1. i = n /\ Settled(ph, n)'
      BY <1>3, <2>1, <2>3
    <3> QED
      BY <3>1
  <2> QED
    BY <2>2, <2>3
<1>5. \A i \in DOMAIN probes : poller'[i] # "none" => ~InForeground(i)
  BY DEF LoopOK
<1>6. LoopOK'
  BY <1>1, <1>4, <1>5 DEF LoopOK
<1> QED
  BY <1>6 DEF LoopStep

\* Main goes elsewhere at its probe.
Elsewhere(pc) ==
  /\ run'.pc = pc /\ run'.idx = run.idx /\ run'.phase = run.phase /\ run'.strict = run.strict
  /\ run' \in Runs(Len(probes))

LEMMA GotoElsewhere ==
  ASSUME TypeIInv, NEW pc \in P!RunPCs,
         NEW e \in P!Errors, NEW then \in {"assign", "deletePod"},
         \/ P!Goto(pc) \/ run' = [run EXCEPT !.pc = pc, !.local = e]
         \/ run' = [run EXCEPT !.local = e, !.pc = pc]
         \/ run' = [run EXCEPT !.local = e, !.then = then, !.pc = pc]
  PROVE  Elsewhere(pc)
<1>1. run \in Runs(Len(probes))
  BY TypesOf DEF P!TypeOK, Runs
<1> QED
  BY <1>1 DEF Elsewhere, P!Goto, Runs

\* The handlers of a probe.
LEMMA EvaluateLoop ==
  ASSUME TypeIInv, LoopOK, NEW ph, NEW n \in DOMAIN probes, run.phase = ph, run.idx = n,
         run.pc = "next", NEW modes, P!Evaluate(modes), modes \subseteq P!ForegroundModes
  PROVE  LoopStep(ph)
<1>1. UNCHANGED <<probes, probeDetails, poller>> /\ P!cur = probes[n] /\ InForeground(n)
  BY DEF P!Evaluate, P!detailVars, P!cur, InForeground
<1>2. P!Goto("createPod") \/ P!Goto("trigger")
  BY DEF P!Evaluate
<1>3. Elsewhere("createPod") \/ Elsewhere("trigger")
  BY <1>2, GotoElsewhere DEF P!RunPCs, P!Errors
<1>4. Advances
  BY <1>1, StaysAdvanced
<1> QED
  BY <1>1, <1>3, <1>4, MovesOn DEF Elsewhere

LEMMA LaunchLoop ==
  ASSUME TypeIInv, LoopOK, NEW ph, NEW n \in DOMAIN probes, run.phase = ph, run.idx = n,
         run.pc = "next", NEW modes, P!Launch(modes),
         modes \subseteq P!BackgroundModes, ph # "PostChaos"
  PROVE  LoopStep(ph)
<1>1. UNCHANGED <<probes, probeDetails>> /\ P!cur = probes[n] /\ probes[n].mode \in P!BackgroundModes
  BY DEF P!Launch, P!detailVars, P!cur
<1>2. ~InForeground(n)
  BY <1>1 DEF InForeground, P!ForegroundModes, P!BackgroundModes
<1>3. Settled(ph, n)'
  BY <1>1 DEF Settled, Judges, P!BackgroundModes
<1>4. Advances
  BY <1>1, StaysAdvanced
<1>5. CASE P!Goto("createPod") /\ UNCHANGED poller
  <2>1. Elsewhere("createPod")
    BY <1>5, GotoElsewhere DEF P!RunPCs, P!Errors
  <2> QED
    BY <1>4, <1>5, <2>1, MovesOn DEF Elsewhere
<1>6. CASE P!Goto("assign") /\ poller' = [poller EXCEPT ![run.idx] = "trigger"]
  <2>1. Elsewhere("assign")
    BY <1>6, GotoElsewhere DEF P!RunPCs, P!Errors
  <2>2. \A i \in DOMAIN probes : poller'[i] # "none" => poller[i] # "none" \/ ~InForeground(i)
    BY <1>2, <1>6, TypesOf DEF P!TypeOK
  <2> QED
    BY <1>3, <1>4, <2>1, <2>2, MovesOn DEF Elsewhere
<1> QED
  BY <1>5, <1>6 DEF P!Launch

LEMMA CheckLoop ==
  ASSUME TypeIInv, LoopOK, NEW ph, NEW n \in DOMAIN probes, run.phase = ph, run.idx = n,
         run.pc = "next", NEW modes, P!CheckRecorded(modes)
  PROVE  LoopStep(ph)
<1>1. UNCHANGED <<probes, probeDetails, poller>>
  BY DEF P!CheckRecorded, P!detailVars
<1>2. Elsewhere("mark")
  BY GotoElsewhere DEF P!RunPCs, P!Errors, P!CheckRecorded
<1>3. Advances
  BY <1>1, StaysAdvanced
<1> QED
  BY <1>1, <1>2, <1>3, MovesOn DEF Elsewhere

LEMMA NothingLoop ==
  ASSUME TypeIInv, LoopOK, NEW ph, NEW n \in DOMAIN probes, run.phase = ph, run.idx = n,
         run.pc = "next", NEW modes, P!NothingToDo(modes),
         \A mode : Judges(ph, mode) => mode \in modes
  PROVE  LoopStep(ph)
<1>1. UNCHANGED <<probes, probeDetails, poller>> /\ P!cur = probes[n] /\ probes[n].mode \notin modes
  BY DEF P!NothingToDo, P!detailVars, P!cur
<1>2. Elsewhere("assign")
  BY GotoElsewhere DEF P!RunPCs, P!Errors, P!NothingToDo
<1>3. Settled(ph, n)'
  BY <1>1 DEF Settled, Judges
<1>4. Advances
  BY <1>1, StaysAdvanced
<1> QED
  BY <1>1, <1>2, <1>3, <1>4, MovesOn DEF Elsewhere

LEMMA HandlersLoop ==
  ASSUME TypeIInv, LoopOK, NEW ph, NEW n, run.phase = ph, run.idx = n,
         \/ P!PreChaosCmdProbe \/ P!PreChaosHTTPProbe \/ P!PreChaosK8sProbe \/ P!PreChaosPromProbe
         \/ P!PostChaosCmdProbe \/ P!PostChaosHTTPProbe \/ P!PostChaosK8sProbe \/ P!PostChaosPromProbe
         \/ P!OnChaosCmdProbe \/ P!OnChaosHTTPProbe \/ P!OnChaosK8sProbe \/ P!OnChaosPromProbe
  PROVE  LoopStep(ph)
<1>1. /\ n \in DOMAIN probes /\ run.pc = "next"
      /\ \/ ph = "PreChaos" /\ P!PreChaosHandler
         \/ ph = "PostChaos" /\ P!PostChaosHandler
         \/ ph = "DuringChaos" /\ P!OnChaosHandler
  BY DEF P!PreChaosCmdProbe, P!PreChaosHTTPProbe, P!PreChaosK8sProbe, P!PreChaosPromProbe,
         P!PostChaosCmdProbe, P!PostChaosHTTPProbe, P!PostChaosK8sProbe, P!PostChaosPromProbe,
         P!OnChaosCmdProbe, P!OnChaosHTTPProbe, P!OnChaosK8sProbe, P!OnChaosPromProbe, P!Executing
<1>2. CASE ph = "PreChaos" /\ P!PreChaosHandler
  <2>1. {"SOT", "Edge"} \subseteq P!ForegroundModes /\ {"Continuous"} \subseteq P!BackgroundModes
        /\ \A mode : Judges(ph, mode) => mode \in {"SOT", "Edge", "Continuous"}
    BY <1>2 DEF P!ForegroundModes, P!BackgroundModes, Judges
  <2> QED
    BY <1>1, <1>2, <2>1, EvaluateLoop, LaunchLoop, NothingLoop DEF P!PreChaosHandler
<1>3. CASE ph = "PostChaos" /\ P!PostChaosHandler
  <2>1. {"EOT", "Edge"} \subseteq P!ForegroundModes
        /\ \A mode : Judges(ph, mode) => mode \in {"EOT", "Edge", "Continuous", "OnChaos"}
    BY <1>3 DEF P!ForegroundModes, Judges
  <2> QED
    BY <1>1, <1>3, <2>1, EvaluateLoop, CheckLoop, NothingLoop DEF P!PostChaosHandler
<1>4. CASE ph = "DuringChaos" /\ P!OnChaosHandler
  <2>1. {"OnChaos"} \subseteq P!BackgroundModes /\ \A mode : Judges(ph, mode) => mode \in {"OnChaos"}
    BY <1>4 DEF P!BackgroundModes, Judges
  <2> QED
    BY <1>1, <1>4, <2>1, LaunchLoop, NothingLoop DEF P!OnChaosHandler
<1> QED
  BY <1>1, <1>2, <1>3, <1>4

\* The verdict of a probe is kept on the way to the next one.
LEMMA KeepLoop ==
  ASSUME TypeIInv, LoopOK, NEW ph, NEW n \in DOMAIN probes, run.phase = ph, run.idx = n,
         run.pc # "idle", Advances, Settled(ph, n)', poller' = poller,
         NEW e \in P!Errors, NEW then \in {"assign", "deletePod"}, P!Keep(e, then)
  PROVE  LoopStep(ph)
<1> DEFINE pc == IF ~P!ReturnsOwnErr THEN "keep" ELSE IF e = P!Nil THEN then ELSE "assign"
<1>1. pc \in {"keep", "assign", "deletePod"} /\ pc \in P!RunPCs
  BY DEF P!RunPCs
<1>2. run' = [run EXCEPT !.local = e, !.then = then, !.pc = pc]
  BY DEF P!Keep
<1> HIDE DEF pc
<1>3. Elsewhere(pc)
  BY <1>1, <1>2, GotoElsewhere
<1> QED
  BY <1>1, <1>3, MovesOn DEF Elsewhere

\* RunProbes returns.
LEMMA ReturnLoop ==
  ASSUME LoopOK, NEW ph, run.phase = ph, UNCHANGED <<probes, probeDetails, poller>>,
         NEW e, P!Return(e), e = P!Nil => AllSettled(ph)
  PROVE  LoopStep(ph)
<1>1. /\ run'.pc = "idle" /\ run'.phase = ph /\ run'.ret = e
  BY DEF P!Return, P!Idle
<1>2. \A i : InForeground(i)' <=> InForeground(i)
  BY DEF InForeground
<1>3. LoopOK'
  BY <1>1, <1>2 DEF LoopOK
<1>4. AllSettled(ph)' <=> AllSettled(ph)
  BY DEF AllSettled, Settled, Judges, Key
<1> QED
  BY <1>1, <1>3, <1>4, StaysAdvanced DEF LoopStep

LEMMA ExecuteLoop ==
  ASSUME TypeIInv, LoopOK, P!Execute, ~raced', NEW ph, NEW n, run.phase = ph, run.idx = n
  PROVE  LoopStep(ph)
<1>0. /\ {"next", "decide", "checkPod", "assign", "podChecked", "trigger", "compare", "mark",
          "kept", "keep", "deletePod"} \subseteq P!RunPCs
      /\ P!Nil \in P!Errors /\ P!Err \in P!Errors /\ P!Nil # P!Err /\ P!Main \in {P!Main}
      /\ run \in Runs(Len(probes)) /\ run' \in Runs(Len(probes))
      /\ run.then \in {"assign", "deletePod"} /\ run.local \in P!Errors /\ err \in P!Errors
      /\ wrote \in [{P!Main} \union DOMAIN probes -> P!Errors]
      /\ Len(probes) \in Nat /\ DOMAIN probes = 1 .. Len(probes) /\ n \in 1 .. Len(probes) + 1
      /\ run.pc \notin {"idle", "fetch", "next"} => n \in DOMAIN probes
  <2>1. P!TypeOK /\ RunOK /\ P!TypeOK' /\ probes' = probes
    BY TypesOf, ExecuteTyped
  <2> QED
    BY <2>1, ProbesTyped DEF P!RunPCs, P!Errors, P!Nil, P!Err, P!TypeOK, Runs, RunOK
<1>1. CASE P!GetProbesFromEngine
  <2>1. run.pc = "fetch" /\ UNCHANGED <<probes, probeDetails, poller>> /\ n = 1
    BY <1>1 DEF P!GetProbesFromEngine, P!detailVars, LoopOK
  <2>2. CASE run' = [run EXCEPT !.pc = "next", !.strict = (run.phase # "PostChaos")]
    <3>1. run'.pc = "next" /\ run'.idx = 1 /\ run'.phase = ph
      BY <1>0, <2>1, <2>2 DEF Runs
    <3> QED
      BY <1>0, <2>1, <3>1, MovesOn, StaysAdvanced
  <2>3. CASE P!Return(P!Err)
    BY <1>0, <2>1, <2>3, ReturnLoop
  <2> QED
    BY <1>1, <2>2, <2>3 DEF P!GetProbesFromEngine
<1>2. CASE P!SkipForeground
  <2>1. ~run.strict /\ UNCHANGED <<probes, probeDetails, poller>> /\ run' = [run EXCEPT !.idx = n + 1]
        /\ run.pc = "next"
    BY <1>2 DEF P!SkipForeground, P!detailVars
  <2>2. run'.pc = "next" /\ run'.idx = n + 1 /\ run'.phase = ph /\ ~run'.strict
    BY <1>0, <2>1 DEF Runs
  <2> QED
    BY <1>0, <2>1, <2>2, MovesOn, StaysAdvanced
<1>3. CASE P!EndOfLoop
  <2>1. run.pc = "next" /\ n \notin DOMAIN probes /\ UNCHANGED <<probes, probeDetails, poller>>
    BY <1>3 DEF P!EndOfLoop, P!detailVars
  <2>2. run.strict => AllSettled(ph)
    <3> SUFFICES ASSUME run.strict, NEW i \in DOMAIN probes PROVE Settled(ph, i)
      BY DEF AllSettled
    <3>1. i < n
      BY <1>0, <2>1
    <3> QED
      BY <2>1, <3>1 DEF LoopOK
  <2>3. CASE run.strict
    <3>1. P!Return(P!Nil)
      BY <1>3, <2>3 DEF P!EndOfLoop
    <3> QED
      BY <2>1, <2>2, <2>3, <3>1, ReturnLoop
  <2>4. CASE ~run.strict /\ run.failed
    <3>1. P!Return(P!Err)
      BY <1>3, <2>4 DEF P!EndOfLoop
    <3> QED
      BY <1>0, <2>1, <3>1, ReturnLoop
  <2>5. CASE ~run.strict /\ ~run.failed
    <3>1. run' = [run EXCEPT !.strict = TRUE, !.idx = 1]
      BY <1>3, <2>5 DEF P!EndOfLoop
    <3>2. run'.pc = "next" /\ run'.idx = 1 /\ run'.phase = ph
      BY <1>0, <2>1, <3>1 DEF Runs
    <3> QED
      BY <1>0, <2>1, <3>2, MovesOn, StaysAdvanced
  <2> QED
    BY <2>3, <2>4, <2>5
<1>4. CASE P!Assign
  <2>1. /\ run.pc = "assign" /\ P!Store(P!Main, run.local) /\ P!Goto("decide")
        /\ UNCHANGED <<probes, probeDetails, poller>>
    BY <1>4 DEF P!Assign, P!detailVars
  <2>2. Elsewhere("decide")
    BY <1>0, <2>1, GotoElsewhere
  <2>3. wrote'[P!Main] = run.local
    BY <1>0, <2>1 DEF P!Store
  <2>4. Advances
    BY <2>1, StaysAdvanced
  <2>5. Settled(ph, n)' \/ wrote'[P!Main] = P!Err
    BY <1>0, <2>1, <2>3, <2>4, SettledKept DEF LoopOK
  <2> QED
    BY <1>0, <2>1, <2>2, <2>4, <2>5, MovesOn DEF Elsewhere
<1>5. CASE P!Decide
  <2>1. /\ run.pc = "decide" /\ raced' = (raced \/ err # wrote[P!Main])
        /\ UNCHANGED <<probes, probeDetails, poller>>
    BY <1>5 DEF P!Decide, P!detailVars, P!Load
  <2>2. Advances
    BY <2>1, StaysAdvanced
  <2>3. err = wrote[P!Main]
    BY <2>1
  <2>4. CASE err # P!Nil /\ run.strict
    <3>1. P!Return(P!Err)
      BY <1>5, <2>4 DEF P!Decide
    <3> QED
      BY <1>0, <2>1, <3>1, ReturnLoop
  <2>5. CASE ~(err # P!Nil /\ run.strict)
    <3>1. run' = [run EXCEPT !.pc = "next", !.idx = run.idx + 1, !.local = P!Nil,
                             !.then = "assign", !.failed = run.failed \/ err # P!Nil]
      BY <1>5, <2>5 DEF P!Decide
    <3>2. run'.pc = "next" /\ run'.idx = n + 1 /\ run'.phase = ph /\ run'.strict = run.strict
      BY <1>0, <3>1 DEF Runs
    <3>3. run.strict => Settled(ph, n)'
      BY <1>0, <2>1, <2>2, <2>3, <2>5, SettledKept DEF LoopOK
    <3> QED
      BY <1>0, <2>1, <2>2, <3>2, <3>3, MovesOn
  <2> QED
    BY <2>4, <2>5
<1>6. CASE P!CreateProbePod
  <2>1. run.pc = "createPod" /\ UNCHANGED <<probes, probeDetails, poller>> /\ Advances
    BY <1>6, StaysAdvanced DEF P!CreateProbePod, P!detailVars
  <2>2. InForeground(n) \/ ph # "PostChaos"
    BY <2>1 DEF LoopOK
  <2>3. CASE P!Goto("checkPod")
    <3>1. Elsewhere("checkPod")
      BY <1>0, <2>3, GotoElsewhere
    <3> QED
      BY <1>0, <2>1, <2>2, <3>1, MovesOn DEF Elsewhere
  <2>4. CASE run' = [run EXCEPT !.pc = "assign", !.local = P!Err]
    <3>1. Elsewhere("assign")
      BY <1>0, <2>4, GotoElsewhere
    <3>2. run'.local = P!Err
      BY <1>0, <2>4 DEF Runs
    <3> QED
      BY <1>0, <2>1, <3>1, <3>2, MovesOn DEF Elsewhere
  <2> QED
    BY <1>6, <2>3, <2>4 DEF P!CreateProbePod
<1>7. CASE P!CheckProbePod
  <2>1. run.pc = "checkPod" /\ UNCHANGED <<probes, probeDetails, poller>> /\ Advances
    BY <1>7, StaysAdvanced DEF P!CheckProbePod, P!detailVars
  <2>2. InForeground(n) \/ ph # "PostChaos"
    BY <2>1 DEF LoopOK
  <2>3. Elsewhere("podChecked")
    BY <1>0, <1>7, GotoElsewhere DEF P!CheckProbePod
  <2> QED
    BY <1>0, <2>1, <2>2, <2>3, MovesOn DEF Elsewhere
<1>8. CASE P!ProbePodChecked
  <2>1. run.pc = "podChecked" /\ UNCHANGED <<probes, probeDetails>> /\ Advances
    BY <1>8, StaysAdvanced DEF P!ProbePodChecked, P!detailVars
  <2>2. InForeground(n) \/ ph # "PostChaos"
    BY <2>1 DEF LoopOK
  <2>3. CASE err # P!Nil
    <3>1. run' = [run EXCEPT !.pc = "assign", !.local = P!Err] /\ poller' = poller
      BY <1>8, <2>3 DEF P!ProbePodChecked
    <3>2. Elsewhere("assign")
      BY <1>0, <3>1, GotoElsewhere
    <3>3. run'.local = P!Err
      BY <1>0, <3>1 DEF Runs
    <3> QED
      BY <1>0, <2>1, <3>1, <3>2, <3>3, MovesOn DEF Elsewhere
  <2>4. CASE err = P!Nil /\ probes[n].mode \in P!BackgroundModes
    <3>1. poller' = [poller EXCEPT ![n] = "trigger"] /\ P!Goto("assign")
      BY <1>8, <2>4 DEF P!ProbePodChecked, P!cur
    <3>2. Elsewhere("assign")
      BY <1>0, <3>1, GotoElsewhere
    <3>3. ~InForeground(n)
      BY <2>4 DEF InForeground, P!ForegroundModes, P!BackgroundModes
    <3>4. Settled(ph, n)'
      BY <2>1, <2>2, <2>4, <3>3 DEF Settled, Judges, P!BackgroundModes
    <3>5. \A i \in DOMAIN probes : poller'[i] # "none" => poller[i] # "none" \/ ~InForeground(i)
      BY <3>1, <3>3, TypesOf DEF P!TypeOK
    <3> QED
      BY <1>0, <2>1, <3>2, <3>4, <3>5, MovesOn DEF Elsewhere
  <2>5. CASE err = P!Nil /\ probes[n].mode \notin P!BackgroundModes
    <3>1. poller' = poller /\ P!Goto("trigger")
      BY <1>8, <2>5 DEF P!ProbePodChecked, P!cur
    <3>2. Elsewhere("trigger")
      BY <1>0, <3>1, GotoElsewhere
    <3> QED
      BY <1>0, <2>1, <3>1, <3>2, MovesOn DEF Elsewhere
  <2> QED
    BY <2>3, <2>4, <2>5
<1>9. CASE P!Trigger
  <2>1. run.pc = "trigger" /\ UNCHANGED <<probes, probeDetails, poller>> /\ Advances
    BY <1>9, StaysAdvanced DEF P!Trigger, P!detailVars
  <2>2. Elsewhere("compare")
    BY <1>0, <1>9, GotoElsewhere DEF P!Trigger
  <2> QED
    BY <1>0, <2>1, <2>2, MovesOn DEF Elsewhere
<1>10. CASE P!ValidateResult
  <2>1. run.pc = "compare" /\ UNCHANGED <<probes, probeDetails, poller>> /\ Advances
    BY <1>10, StaysAdvanced DEF P!ValidateResult, P!detailVars
  <2>2. PICK e \in P!Errors : run' = [run EXCEPT !.pc = "mark", !.local = e] \/ P!Goto("mark")
    BY <1>10, Zenon DEF P!ValidateResult
  <2>3. Elsewhere("mark")
    BY <1>0, <2>2, GotoElsewhere
  <2> QED
    BY <1>0, <2>1, <2>3, MovesOn DEF Elsewhere
<1>11. CASE P!MarkVerdict
  <2> DEFINE e == IF P!OwnErr THEN run.local ELSE err
  <2> DEFINE then == IF P!cur.source THEN "deletePod" ELSE "assign"
  <2>1. run.pc = "mark" /\ n \in DOMAIN probes /\ e \in P!Errors /\ then \in {"assign", "deletePod"}
    BY <1>0, <1>11 DEF P!MarkVerdict
  <2>2. /\ P!MarkedVerdictInEnd(n, e, ph) /\ P!Keep(P!MarkedVerdictError(n, e), then)
        /\ UNCHANGED <<probes, poller>>
    BY <1>11, Zenon DEF P!MarkVerdict
  <2> HIDE DEF e, then
  <2>3. P!MarkedVerdictError(n, e) \in P!Errors
    BY <2>1, <1>0 DEF P!MarkedVerdictError
  <2>4. Advances /\ Settled(ph, n)'
    BY <2>1, <2>2, MarkSettles, TypesOf
  <2> QED
    BY <2>1, <2>2, <2>3, <2>4, KeepLoop
<1>12. CASE P!StoreReturned
  <2>1. run.pc = "keep" /\ UNCHANGED <<probes, probeDetails, poller>> /\ Advances
    BY <1>12, StaysAdvanced DEF P!StoreReturned, P!detailVars
  <2>2. Elsewhere("kept")
    BY <1>0, <1>12, GotoElsewhere DEF P!StoreReturned
  <2>3. Settled(ph, n)'
    BY <1>0, <2>1, SettledKept DEF LoopOK
  <2> QED
    BY <1>0, <2>1, <2>2, <2>3, MovesOn DEF Elsewhere
<1>13. CASE P!LoadReturned
  <2>1. run.pc = "kept" /\ UNCHANGED <<probes, probeDetails, poller>> /\ Advances
    BY <1>13, StaysAdvanced DEF P!LoadReturned, P!detailVars
  <2> DEFINE pc == IF err = P!Nil THEN run.then ELSE "assign"
  <2>2. pc \in {"assign", "deletePod"} /\ pc \in P!RunPCs
    BY <1>0
  <2>3. run' = [run EXCEPT !.local = err, !.pc = pc]
    BY <1>13 DEF P!LoadReturned
  <2> HIDE DEF pc
  <2>4. Elsewhere(pc)
    BY <1>0, <2>2, <2>3, GotoElsewhere
  <2>5. Settled(ph, n)'
    BY <1>0, <2>1, SettledKept DEF LoopOK
  <2> QED
    BY <1>0, <2>1, <2>2, <2>4, <2>5, MovesOn DEF Elsewhere
<1>14. CASE P!DeleteProbePod
  <2>1. run.pc = "deletePod" /\ UNCHANGED <<probes, probeDetails, poller>> /\ Advances
    BY <1>14, StaysAdvanced DEF P!DeleteProbePod, P!detailVars
  <2>2. P!Keep(P!Nil, "assign") \/ P!Keep(P!Err, "assign")
    BY <1>14 DEF P!DeleteProbePod
  <2>3. Settled(ph, n)'
    BY <1>0, <2>1, SettledKept DEF LoopOK
  <2> QED
    BY <1>0, <2>1, <2>2, <2>3, KeepLoop
<1> QED
  BY <1>1, <1>2, <1>3, <1>4, <1>5, <1>6, <1>7, <1>8, <1>9, <1>10, <1>11, <1>12, <1>13, <1>14,
     HandlersLoop DEF P!Execute, P!CreateHelperPod

\* A polling goroutine changes no more than the verdict of its own probe.
LEMMA PollerSettles ==
  ASSUME TypeIInv, LoopOK, NEW i \in DOMAIN probes, P!Poller(i)
  PROVE  /\ Advances /\ LoopOK'
         /\ \A j \in DOMAIN probes : InForeground(j) => probeDetails'[j].phase = probeDetails[j].phase
<1>1. \/ P!PollTrigger(i) \/ P!PollCompare(i) \/ P!PollCheck(i) \/ P!PollRecord(i) \/ P!TimeIsUp(i)
      \/ P!StopCheckRecorded(i) \/ P!StopMarkVerdict(i) \/ P!StopPatchEngine(i)
  BY Zenon DEF P!Poller, P!Poll, P!StopChaosEngine,
         P!TriggerInlineContinuousCmdProbe, P!TriggerSourceContinuousCmdProbe,
         P!TriggerContinuousHTTPProbe, P!TriggerContinuousK8sProbe, P!TriggerContinuousPromProbe,
         P!TriggerInlineOnChaosCmdProbe, P!TriggerSourceOnChaosCmdProbe,
         P!TriggerOnChaosHTTPProbe, P!TriggerOnChaosK8sProbe, P!TriggerOnChaosPromProbe
<1>2. /\ P!TypeOK /\ probes' = probes /\ run' = run
      /\ i # P!Main /\ P!Main \in {P!Main} /\ err \in P!Errors
  <2>1. P!TypeOK /\ RunOK
    BY TypesOf
  <2>2. UNCHANGED <<probes, run>> /\ i > 0
    BY <2>1, PollerTyped, ProbesTyped
  <2> QED
    BY <2>1, <2>2 DEF P!Main, P!TypeOK
<1>3. poller[i] # "none" /\ \E s : P!MoveTo(i, s)
  BY <1>1 DEF P!PollTrigger, P!PollCompare, P!PollCheck, P!PollRecord, P!TimeIsUp,
     P!StopCheckRecorded, P!StopMarkVerdict, P!StopPatchEngine
<1>4. \A j \in DOMAIN probes : poller'[j] # "none" => poller[j] # "none"
  BY <1>2, <1>3 DEF P!MoveTo, P!TypeOK
<1>5. ~InForeground(i)
  BY <1>3 DEF LoopOK
<1>6. wrote'[P!Main] = wrote[P!Main]
  BY <1>1, <1>2 DEF P!PollTrigger, P!PollCompare, P!PollCheck, P!PollRecord, P!TimeIsUp,
     P!StopCheckRecorded, P!StopMarkVerdict, P!StopPatchEngine, P!ParseCommand, P!Store, P!TypeOK
<1>7. /\ Advances
      /\ \A j \in DOMAIN probes : j # i => probeDetails'[j].phase = probeDetails[j].phase
  <2>1. CASE P!StopMarkVerdict(i)
    <3>1. P!MarkedVerdictInEnd(i, err, "PostChaos")
      BY <2>1 DEF P!StopMarkVerdict
    <3> QED
      BY <1>2, <3>1, MarkSettles
  <2>2. CASE P!PollRecord(i)
    <3>1. probeDetails' = [probeDetails EXCEPT ![i].failedWithError = err]
      BY <2>2 DEF P!PollRecord
    <3>2. \A j \in DOMAIN probes : /\ probeDetails'[j].phase = probeDetails[j].phase
                                   /\ probeDetails'[j].status = probeDetails[j].status
      BY <1>2, <3>1 DEF P!TypeOK, P!DetailsTypeOK, P!ProbeDetails
    <3> QED
      BY <1>2, <3>2 DEF Advances
  <2>3. CASE ~P!StopMarkVerdict(i) /\ ~P!PollRecord(i)
    <3>1. UNCHANGED <<probes, probeDetails>>
      BY <1>1, <2>3 DEF P!PollTrigger, P!PollCompare, P!PollCheck, P!TimeIsUp, P!StopCheckRecorded,
         P!StopPatchEngine, P!detailVars
    <3> QED
      BY <3>1, StaysAdvanced
  <2> QED
    BY <2>1, <2>2, <2>3
<1>8. LoopOK'
  BY <1>2, <1>4, <1>6, <1>7, LoopKept
<1> QED
  BY <1>5, <1>7, <1>8

----------------------------------------------------------------------------
(* What a pass is made of *)

\* What nobody but ChaosResult and its caller touches.
LEMMA FinalKept ==
  ASSUME FinalOK, UNCHANGED <<cr, verdict, oldResult, crProbes, call, lenient, engineProbes>>, Advances,
         \A j \in DOMAIN probes : InForeground(j) => probeDetails'[j].phase = probeDetails[j].phase
  PROVE  FinalOK'
<1>1. /\ probes' = probes /\ own' = own /\ (Final' <=> Final)
      /\ \A i : InForeground(i)' <=> InForeground(i)
  BY DEF Advances, own, Final, InForeground
<1>2. Closed' <=> Closed
  BY SameCount
<1>3. NoneFailed => NoneFailed'
  BY <1>1 DEF NoneFailed
<1>4. PassOK => PassOK'
  BY <1>1 DEF PassOK, AllPassed
<1>5. NoneAwaited => NoneAwaited'
  BY <1>1 DEF NoneAwaited, Advances
<1> QED
  BY <1>1, <1>2, <1>3, <1>4, <1>5 DEF FinalOK

\* ChaosResult has other things to do.
LEMMA FinalSame ==
  ASSUME FinalOK, own' = own \/ own'.pc \notin {"score", "update"},
         UNCHANGED <<cr, verdict, oldResult, crProbes, lenient, engineProbes, probes, probeDetails>>
  PROVE  FinalOK'
<1>1. /\ Closed' <=> Closed
      /\ PassOK' <=> PassOK
      /\ NoneFailed' <=> NoneFailed
      /\ NoneAwaited' <=> NoneAwaited
  BY SameCount DEF PassOK, AllPassed, NoneFailed, NoneAwaited, InForeground
<1>2. (\A i \in DOMAIN probes, k \in StatusKeys : crProbes[i][k] # "Awaited")'
        <=> \A i \in DOMAIN probes, k \in StatusKeys : crProbes[i][k] # "Awaited"
  OBVIOUS
<1> QED
  BY <1>1, <1>2 DEF FinalOK, Final

\* Before the run is counted, a step that leaves the call aside.
LEMMA FinalLater ==
  ASSUME own'.pc \notin {"score", "update"}, ~Closed'
  PROVE  FinalOK'
  BY DEF FinalOK

LEMMA ExclusiveAlso == TypeIInv => ~(Uncounted /\ Closed)
  BY Exclusive

LEMMA ExclusiveAfter == (TypeIInv => ~(Uncounted /\ Closed))'
  BY ExclusiveAlso, PTL

\* Main's place in the script, and what is not the case there.
LEMMA NotYetClosed ==
  ASSUME TypeIInv, Alone, HeadRank \in 1 .. 7
  PROVE  /\ ~failed /\ Left(9) /\ Uncounted /\ ~Closed
         /\ HeadRank # 2 => own.pc = "idle"
<1>1. ~failed /\ Left(9)
  BY Place
<1>2. Uncounted
  BY <1>1 DEF Alone, CountOK
<1> QED
  BY <1>1, <1>2, Exclusive DEF Alone, CallPlace, Calling

\* A step of RunProbes.
LEMMA ProbesRunning == P!Execute => run.pc # "idle"
  BY DEF P!Execute, P!GetProbesFromEngine, P!SkipForeground, P!EndOfLoop, P!Assign, P!Decide,
     P!PreChaosCmdProbe, P!PreChaosHTTPProbe, P!PreChaosK8sProbe, P!PreChaosPromProbe,
     P!PostChaosCmdProbe, P!PostChaosHTTPProbe, P!PostChaosK8sProbe, P!PostChaosPromProbe,
     P!OnChaosCmdProbe, P!OnChaosHTTPProbe, P!OnChaosK8sProbe, P!OnChaosPromProbe, P!Executing,
     P!CreateHelperPod, P!CreateProbePod, P!CheckProbePod, P!ProbePodChecked, P!Trigger,
     P!ValidateResult, P!MarkVerdict, P!StoreReturned, P!LoadReturned, P!DeleteProbePod

LEMMA ExecuteEarned ==
  ASSUME TypeIInv, Alone, Earned, ExecuteProbes, ~raced'
  PROVE  Earned'
<1>1. P!Execute /\ UNCHANGED <<resultVars, experimentVars>>
  BY DEF ExecuteProbes
<1>2. UNCHANGED <<probes, verdict>>
  BY <1>1, TypesOf, ExecuteTyped
<1>3. PICK ph, n : run.phase = ph /\ run.idx = n
  OBVIOUS
<1>4. LoopStep(ph)
  BY <1>1, <1>3, ExecuteLoop DEF Earned
<1>5. Probing /\ HeadRank' = HeadRank /\ Probing'
  BY <1>1, ProbesRunning DEF Earned, PhaseOK, Probing, HeadRank, MainScript, experimentVars
<1>6. PhaseOK'
  <2>1. PhaseRank(ph) = HeadRank /\ run'.phase = ph
    BY <1>3, <1>4, <1>5 DEF Earned, PhaseOK, LoopStep
  <2>2. run'.pc = "idle" /\ run'.ret = Nil => AllSettled(ph)'
    BY <1>4, ErrorsAlike DEF LoopStep
  <2>3. PhaseRank(run.phase)' = HeadRank'
    BY <1>5, <2>1 DEF PhaseRank
  <2>4. run'.pc = "idle" /\ run'.ret = Nil => AllSettled(run.phase)'
    BY <2>1, <2>2
  <2> QED
    BY <1>5, <2>3, <2>4 DEF PhaseOK, Nil
<1>7. BehindOK'
  BY <1>1, <1>4, BehindKept DEF LoopStep, Earned, experimentVars
<1>8. FinalOK'
  <2>1. HeadRank \in {4, 5, 7}
    BY <1>5 DEF Probing
  <2>2. ~Closed /\ own.pc = "idle"
    BY <2>1, NotYetClosed
  <2>3. ~Closed' /\ own' = own
    BY <1>1, <1>2, <2>2, SameCount DEF resultVars, experimentVars, own
  <2> QED
    BY <2>2, <2>3, FinalLater
<1> QED
  BY <1>4, <1>6, <1>7, <1>8 DEF Earned, LoopStep

\* A step of a polling goroutine.
LEMMA PollEarned ==
  ASSUME TypeIInv, Alone, Earned, NEW i \in DOMAIN probes, PollProbe(i)
  PROVE  Earned'
<1>1. P!Poller(i) /\ UNCHANGED <<resultVars, experimentVars>>
  BY DEF PollProbe
<1>2. UNCHANGED <<probes, verdict, run>>
  BY <1>1, TypesOf, PollerTyped
<1>3. /\ Advances /\ LoopOK'
      /\ \A j \in DOMAIN probes : InForeground(j) => probeDetails'[j].phase = probeDetails[j].phase
  BY <1>1, PollerSettles DEF Earned
<1>4. PhaseOK' /\ BehindOK'
  BY <1>1, <1>2, <1>3, PhaseKept, BehindKept DEF Earned, experimentVars
<1>5. FinalOK'
  BY <1>1, <1>2, <1>3, FinalKept DEF Earned, experimentVars, resultVars
<1> QED
  BY <1>3, <1>4, <1>5 DEF Earned

----------------------------------------------------------------------------
(* Main's script *)

\* An operation is over, and no probe has been judged.
LEMMA StepsBehind ==
  ASSUME TypeIInv, BehindOK, Goes \/ Leaves \/ Breaks,
         UNCHANGED <<probes, probeDetails, engineProbes, lenient>>,
         HeadRank = 1 /\ ~lenient => Leaves,
         HeadRank = 4 /\ ~failed' => AllSettled("PreChaos"),
         HeadRank = 7 /\ ~failed' => AllSettled("PostChaos")
  PROVE  BehindOK'
<1>1. StatusOK'
  BY DEF BehindOK, StatusOK
<1>2. (AllSettled("PreChaos")' <=> AllSettled("PreChaos"))
      /\ (AllSettled("PostChaos")' <=> AllSettled("PostChaos"))
  BY DEF AllSettled, Settled, Judges, Key
<1>3. CASE Goes
  <2>1. /\ failed' = failed /\ (Left(9)' => Left(9))
        /\ (Left(1)' <=> Left(1) /\ HeadRank # 1)
        /\ (Left(4)' <=> Left(4) /\ HeadRank # 4) /\ (Left(7)' <=> Left(7) /\ HeadRank # 7)
    BY <1>3 DEF Goes
  <2>2. ~lenient' /\ ~failed' /\ Left(9)' /\ ~Left(1)' => probes' = engineProbes'
    <3>1. HeadRank = 1 /\ ~lenient => ~Left(9)'
      BY DEF Leaves
    <3> QED
      BY <2>1, <3>1 DEF BehindOK
  <2>3. ~failed' /\ Left(9)' /\ ~Left(4)' => AllSettled("PreChaos")
    BY <2>1 DEF BehindOK
  <2>4. ~failed' /\ Left(9)' /\ ~Left(7)' => AllSettled("PostChaos")
    BY <2>1 DEF BehindOK
  <2> QED
    BY <1>1, <1>2, <2>2, <2>3, <2>4 DEF BehindOK
<1>4. CASE Leaves
  BY <1>1, <1>4 DEF Leaves, BehindOK
<1>5. CASE Breaks
  BY <1>1, <1>5 DEF Breaks, BehindOK
<1> QED
  BY <1>3, <1>4, <1>5

LEMMA StepsEarned ==
  ASSUME TypeIInv, Alone, Earned, MainScript # <<>>,
         (Done("main") /\ UNCHANGED failed) \/ Fail("main"),
         UNCHANGED <<probes, probeDetails, engineProbes, lenient, run, poller, wrote, oldResult,
                     cr, crProbes, call>>,
         run.pc = "idle", own.pc = "idle", ~busy["main"]',
         HeadRank = 1 /\ ~lenient => Leaves,
         HeadRank = 4 /\ ~failed' => AllSettled("PreChaos"),
         HeadRank = 7 /\ ~failed' => AllSettled("PostChaos"),
         verdict' = verdict \/ ~Closed'
  PROVE  Earned'
<1>1. Goes \/ Leaves \/ Breaks
  BY DoneGoes, FailGoes
<1>2. BehindOK'
  BY <1>1, StepsBehind DEF Earned
<1>3. LoopOK'
  BY StaysAdvanced, LoopKept DEF Earned
<1>4. PhaseOK'
  BY DEF PhaseOK, Probing
<1>5. FinalOK'
  <2>1. own' = own
    BY DEF own
  <2>2. CASE verdict' = verdict
    BY <2>1, <2>2, FinalSame DEF Earned
  <2>3. CASE ~Closed'
    BY <2>1, <2>3, FinalLater
  <2> QED
    BY <2>2, <2>3
<1> QED
  BY <1>2, <1>3, <1>4, <1>5 DEF Earned

\* RunProbes is called, or there is nothing to call it for; the script stays where it is.
LEMMA StaysEarned ==
  ASSUME TypeIInv, Earned, run' = run, poller' = poller, wrote' = wrote, Advances,
         UNCHANGED <<lenient, engineProbes, todo, failed, busy>>, FinalOK'
  PROVE  Earned'
  BY LoopKept, PhaseKept, BehindKept DEF Earned

LEMMA CallRunEarned ==
  ASSUME TypeIInv, Alone, Earned, NEW ph, CallRunProbes(ph), HeadRank \in {4, 5, 7},
         PhaseRank(ph) = HeadRank
  PROVE  Earned'
<1>1. /\ run' = [P!Idle(ph, P!Nil) EXCEPT !.pc = "fetch"] /\ busy' = [busy EXCEPT !["main"] = TRUE]
      /\ UNCHANGED <<probes, probeDetails, verdict, poller, wrote, cr, crProbes, call, engineProbes,
                     oldResult, lenient, todo, failed>>
  BY DEF CallRunProbes, P!RunProbes, P!detailVars, resultVars
<1>2. Advances
  BY <1>1, StaysAdvanced
<1>3. run'.pc = "fetch" /\ run'.idx = 1 /\ run'.phase = ph
  BY <1>1 DEF P!Idle
<1>4. busy["main"]' /\ HeadRank' = HeadRank
  BY <1>1, TypesOf DEF OwnTypes, Thread, HeadRank, MainScript
<1>5. LoopOK'
  <2>1. \A i \in DOMAIN probes : i < 1 => FALSE
    BY TypesOf, ProbesTyped
  <2>2. \A i : InForeground(i)' <=> InForeground(i)
    BY <1>1 DEF InForeground
  <2> QED
    BY <1>1, <1>3, <2>1, <2>2 DEF Earned, LoopOK
<1>6. PhaseOK'
  BY <1>3, <1>4 DEF PhaseOK, Probing, PhaseRank
<1>7. BehindOK'
  BY <1>1, <1>2, BehindKept DEF Earned
<1>8. FinalOK'
  <2>1. own' = own
    BY <1>1 DEF own
  <2> QED
    BY <1>1, <2>1, FinalSame DEF Earned
<1> QED
  BY <1>5, <1>6, <1>7, <1>8 DEF Earned

LEMMA CallProbesEarned ==
  ASSUME TypeIInv, Alone, Earned, CallProbes
  PROVE  Earned'
<1>1. At("main", "probes") /\ ~busy["main"]
  BY DEF CallProbes
<1>2. /\ MainScript # <<>> /\ Arg("main") \in {"PreChaos", "PostChaos"}
      /\ HeadRank = (IF Arg("main") = "PreChaos" THEN 4 ELSE 7)
  BY <1>1, MainHead DEF Rank, Planned
<1>3. CASE CallRunProbes(Arg("main"))
  <2>1. HeadRank \in {4, 5, 7} /\ PhaseRank(Arg("main")) = HeadRank
    BY <1>2 DEF PhaseRank
  <2> QED
    BY <1>3, <2>1, CallRunEarned
<1>4. CASE /\ probes = <<>> /\ Done("main")
           /\ UNCHANGED <<detailVars, probeVars, resultVars, engineProbes, oldResult, lenient, busy,
                          process, watcher, signal, chaos, eventsDetails, published, recorded,
                          eot, failed>>
  <2>1. run.pc = "idle"
    BY <1>1 DEF Earned, PhaseOK, Probing
  <2>2. own.pc = "idle"
    BY <1>2, NotYetClosed
  <2>3. AllSettled("PreChaos") /\ AllSettled("PostChaos")
    BY <1>4 DEF AllSettled
  <2> QED
    BY <1>1, <1>2, <1>4, <2>1, <2>2, <2>3, StepsEarned DEF detailVars, probeVars, resultVars
<1> QED
  BY <1>3, <1>4 DEF CallProbes

LEMMA ReturnProbesEarned ==
  ASSUME TypeIInv, Alone, Earned, ReturnProbes
  PROVE  Earned'
<1>1. /\ At("main", "probes") /\ busy["main"] /\ run.pc = "idle"
      /\ busy' = [busy EXCEPT !["main"] = FALSE]
      /\ IF run.ret = Err THEN Fail("main") ELSE Done("main") /\ UNCHANGED failed
      /\ UNCHANGED <<probes, probeDetails, verdict, run, poller, wrote, cr, crProbes, call,
                     engineProbes, oldResult, lenient>>
  BY DEF ReturnProbes, Succeed, detailVars, probeVars, resultVars
<1>2. /\ MainScript # <<>> /\ HeadRank \in {4, 7} /\ Head(MainScript).onError = "event"
  BY <1>1, MainHead DEF Rank, Planned
<1>3. own.pc = "idle" /\ ~busy["main"]'
  BY <1>1, <1>2, NotYetClosed, TypesOf DEF OwnTypes, Thread
<1>4. ~failed' => run.ret = Nil
  <2>1. run.ret = Err => failed'
    BY <1>1, <1>2 DEF Fail, MainScript
  <2>2. run.ret \in {Nil, Err}
    BY TypesOf DEF P!TypeOK, P!Errors, Nil, Err, P!Nil, P!Err
  <2> QED
    BY <2>1, <2>2
<1>5. ~failed' => AllSettled(run.phase) /\ PhaseRank(run.phase) = HeadRank
  BY <1>1, <1>2, <1>4 DEF Earned, PhaseOK, Probing
<1>6. /\ PhaseRank(run.phase) = 4 => run.phase = "PreChaos"
      /\ PhaseRank(run.phase) = 7 => run.phase = "PostChaos"
  BY DEF PhaseRank
<1>7. /\ HeadRank = 4 /\ ~failed' => AllSettled("PreChaos")
      /\ HeadRank = 7 /\ ~failed' => AllSettled("PostChaos")
  BY <1>5, <1>6
<1> QED
  BY <1>1, <1>2, <1>3, <1>7, StepsEarned

LEMMA InjectEarned ==
  ASSUME TypeIInv, Alone, Earned, InjectChaos
  PROVE  Earned'
<1>1. At("main", "chaos")
  BY DEF InjectChaos
<1>2. HeadRank = 5
  BY <1>1, MainHead DEF Rank
<1>3. CASE CallRunProbes("DuringChaos")
  <2>1. PhaseRank("DuringChaos") = HeadRank
    BY <1>2 DEF PhaseRank
  <2> QED
    BY <1>2, <1>3, <2>1, CallRunEarned
<1>4. CASE UNCHANGED <<detailVars, probeVars, resultVars, engineProbes, oldResult, lenient, todo,
                       busy, process, watcher, signal, eventsDetails, published, recorded,
                       eot, failed>>
  <2>1. /\ UNCHANGED <<probes, verdict, probeDetails, run, poller, wrote, cr, crProbes, call>>
        /\ own' = own
    BY <1>4 DEF detailVars, probeVars, resultVars, own
  <2>2. FinalOK'
    BY <1>4, <2>1, FinalSame DEF Earned
  <2> QED
    BY <1>4, <2>1, <2>2, StaysAdvanced, StaysEarned
<1> QED
  BY <1>3, <1>4 DEF InjectChaos

LEMMA EndChaosEarned ==
  ASSUME TypeIInv, Alone, Earned, EndChaos
  PROVE  Earned'
<1>1. /\ At("main", "chaos") /\ run.pc = "idle" /\ busy' = [busy EXCEPT !["main"] = FALSE]
      /\ (Done("main") /\ UNCHANGED failed) \/ Fail("main")
      /\ UNCHANGED <<probes, probeDetails, verdict, run, poller, wrote, cr, crProbes, call,
                     engineProbes, oldResult, lenient>>
  BY DEF EndChaos, Succeed, detailVars, probeVars, resultVars
<1>2. MainScript # <<>> /\ HeadRank = 5
  BY <1>1, MainHead DEF Rank
<1>3. own.pc = "idle" /\ ~busy["main"]'
  BY <1>1, <1>2, NotYetClosed, TypesOf DEF OwnTypes, Thread
<1> QED
  BY <1>1, <1>2, <1>3, StepsEarned

\* The operations that do not concern the probes.
LEMMA QuietEarned ==
  ASSUME TypeIInv, Alone, Earned, MainScript # <<>>, HeadRank \in {0, 3, 6, 8, 10},
         (Done("main") /\ UNCHANGED failed) \/ Fail("main"),
         UNCHANGED <<probes, probeDetails, probeVars, resultVars, engineProbes, oldResult, lenient, busy>>,
         verdict' = verdict \/ ~Closed'
  PROVE  Earned'
<1>1. run.pc = "idle"
  BY DEF Earned, PhaseOK, Probing
<1>2. own.pc = "idle" /\ ~busy["main"]'
  BY DEF Alone, CallPlace, Calling
<1> QED
  BY <1>1, <1>2, StepsEarned DEF probeVars, resultVars

LEMMA ScriptEarned ==
  ASSUME TypeIInv, TypeIInv', Alone, Earned,
         \/ DoSetEvent("main") \/ GenerateEvents("main") \/ LaunchWatcher("main")
         \/ StatusCheck("main") \/ PassVerdict("main") \/ CompleteResult("main")
  PROVE  Earned'
<1>1. /\ \E op : At("main", op)
      /\ (Done("main") /\ UNCHANGED failed) \/ Fail("main")
      /\ UNCHANGED <<probes, probeDetails, probeVars, resultVars, engineProbes, oldResult, lenient, busy>>
  BY DEF DoSetEvent, GenerateEvents, LaunchWatcher, StatusCheck, PassVerdict, CompleteResult,
     Succeed, detailVars
<1>2. MainScript # <<>>
  BY <1>1, MainHead
<1>3. CASE DoSetEvent("main") \/ GenerateEvents("main") \/ LaunchWatcher("main") \/ StatusCheck("main")
  <2>1. HeadRank \in {0, 3, 10}
    <3>1. PICK op \in {"setResultEvent", "setEngineEvent", "generateEvents", "watch", "check"} :
            At("main", op)
      BY <1>3 DEF DoSetEvent, GenerateEvents, LaunchWatcher, StatusCheck
    <3> QED
      BY <3>1, MainHead DEF Rank
  <2>2. verdict' = verdict
    BY <1>3 DEF DoSetEvent, GenerateEvents, LaunchWatcher, StatusCheck, detailVars
  <2> QED
    BY <1>1, <1>2, <2>1, <2>2, QuietEarned
<1>4. CASE PassVerdict("main") \/ CompleteResult("main")
  <2>1. HeadRank \in {6, 8}
    <3>1. At("main", "pass") \/ At("main", "complete")
      BY <1>4 DEF PassVerdict, CompleteResult
    <3> QED
      BY <3>1, MainHead DEF Rank
  <2>2. Uncounted
    <3>1. CASE HeadRank = 6
      BY <3>1, NotYetClosed
    <3>2. CASE HeadRank = 8
      <4>1. failed /\ Left(8)
        BY <3>2, Place
      <4> QED
        BY <4>1 DEF Alone, CountOK
    <3> QED
      BY <2>1, <3>1, <3>2
  <2>3. Uncounted'
    BY <1>1, <2>2 DEF Uncounted, resultVars
  <2>4. ~Closed'
    BY <2>3, ExclusiveAfter
  <2> QED
    BY <1>1, <1>2, <2>1, <2>4, QuietEarned
<1> QED
  BY <1>3, <1>4

\* The probes are taken over from the chaosengine.
LEMMA InitProbesEarned ==
  ASSUME TypeIInv, Alone, Earned, DoInitProbes("main")
  PROVE  Earned'
<1>1. /\ At("main", "initProbes")
      /\ UNCHANGED <<verdict, run, cr, call, engineProbes, oldResult, lenient, busy>>
  BY DEF DoInitProbes
<1>2. /\ HeadRank = 1 /\ MainScript # <<>>
      /\ Head(MainScript).onError = (IF lenient THEN "ignore" ELSE "return")
  BY <1>1, MainHead DEF Rank, Planned
<1>3. /\ ~failed /\ Left(9) /\ Uncounted /\ ~Closed /\ own.pc = "idle" /\ ~busy["main"]
  BY <1>2, NotYetClosed DEF Alone, CallPlace
<1>4. run = P!Idle("none", Nil) /\ Left(4) /\ Left(7)
  <2>1. Left(1)
    BY <1>2, Place
  <2> QED
    BY <1>3, <2>1, TypesOf DEF ScriptsOK, FollowedUp, Left
<1>5. CASE /\ Fail("main")
           /\ UNCHANGED <<probes, probeDetails, poller, probePod, lastEval, wrote, crProbes>>
  <2>1. ~lenient => Leaves
    <3> SUFFICES ASSUME ~lenient PROVE Leaves
      OBVIOUS
    <3>1. Head(MainScript).onError = "return" /\ MainScript' = <<>> /\ failed' = failed
      BY <1>2, <1>5, TypesOf DEF Fail, OnError, MainScript, OwnTypes, Thread
    <3>2. \A r \in 1 .. 10 : ~Left(r)'
      BY <3>1 DEF Left, Has
    <3> QED
      BY <1>3, <3>1, <3>2 DEF Leaves
  <2>2. run.pc = "idle"
    BY <1>4 DEF P!Idle
  <2> QED
    BY <1>1, <1>2, <1>3, <1>5, <2>1, <2>2, StepsEarned
<1>6. CASE /\ probes' = engineProbes
           /\ probeDetails' = InitialProbeDetails(engineProbes)
           /\ poller' = [i \in DOMAIN engineProbes |-> "none"]
           /\ Done("main") /\ UNCHANGED failed
  <2>1. Goes
    BY <1>2, <1>6, DoneGoes
  <2>2. Left(4)' /\ Left(7)' /\ ~busy["main"]' /\ failed' = failed
    BY <1>1, <1>2, <1>3, <1>4, <2>1 DEF Goes
  <2>3. LoopOK'
    <3>1. run'.pc = "idle"
      BY <1>1, <1>4 DEF P!Idle
    <3>2. \A i \in DOMAIN probes' : poller'[i] = "none"
      BY <1>6
    <3> QED
      BY <3>1, <3>2 DEF LoopOK
  <2>4. PhaseOK'
    BY <1>1, <1>4, <2>2 DEF PhaseOK, Probing, P!Idle
  <2>5. BehindOK'
    <3>1. StatusOK'
      BY <1>6 DEF StatusOK, InitialProbeDetails, SetProbeInitialStatus
    <3> QED
      BY <1>1, <1>6, <2>2, <3>1 DEF BehindOK
  <2>6. FinalOK'
    <3>1. own' = own /\ ~Closed'
      BY <1>1, <1>3, SameCount DEF own
    <3> QED
      BY <1>3, <3>1, FinalLater
  <2> QED
    BY <2>3, <2>4, <2>5, <2>6 DEF Earned
<1> QED
  BY <1>5, <1>6 DEF DoInitProbes, Succeed

\* ChaosResult is called and has returned.
LEMMA CallUpdateEarned ==
  ASSUME TypeIInv, Alone, Earned, CallUpdate("main")
  PROVE  Earned'
<1>1. /\ At("main", "update") /\ R!CallChaosResult("main", Arg("main"))
      /\ busy' = [busy EXCEPT !["main"] = TRUE]
      /\ UNCHANGED <<probes, probeDetails, verdict, run, poller, wrote, cr, crProbes, engineProbes,
                     oldResult, lenient, todo, failed>>
  BY DEF CallUpdate, R!CallChaosResult, R!detailVars, probeVars
<1>2. HeadRank \in {2, 9} /\ HeadRank' = HeadRank
  BY <1>1, MainHead DEF Rank, Planned, HeadRank, MainScript
<1>3. own'.pc = "get"
  BY <1>1, TypesOf DEF R!CallChaosResult, R!IdleCall, own, Thread, R!TypeOK
<1>4. LoopOK' /\ BehindOK'
  BY <1>1, StaysAdvanced, LoopKept, BehindKept DEF Earned
<1>5. PhaseOK'
  BY <1>1, <1>2 DEF Earned, PhaseOK, Probing
<1>6. FinalOK'
  BY <1>1, <1>3, FinalSame DEF Earned
<1> QED
  BY <1>4, <1>5, <1>6 DEF Earned

LEMMA ReturnUpdateEarned ==
  ASSUME TypeIInv, Alone, Earned, ReturnUpdate("main")
  PROVE  Earned'
<1>1. /\ At("main", "update") /\ own.pc = "idle" /\ busy' = [busy EXCEPT !["main"] = FALSE]
      /\ (Done("main") /\ UNCHANGED failed) \/ Fail("main")
      /\ UNCHANGED <<probes, probeDetails, verdict, run, poller, wrote, cr, crProbes, call,
                     engineProbes, oldResult, lenient>>
  BY DEF ReturnUpdate, Succeed, detailVars, probeVars, resultVars, own
<1>2. MainScript # <<>> /\ HeadRank \in {2, 9}
  BY <1>1, MainHead DEF Rank, Planned
<1>3. run.pc = "idle" /\ ~busy["main"]'
  BY <1>1, <1>2, TypesOf DEF Earned, PhaseOK, Probing, OwnTypes, Thread
<1> QED
  BY <1>1, <1>2, <1>3, StepsEarned

----------------------------------------------------------------------------
(* ChaosResult, as main calls it, and the probes *)

\* What a verdict of "Pass" says at the score of the last ChaosResult.
LEMMA LastFacts ==
  ASSUME TypeIInv, Alone, Earned, own.pc # "idle", Final, verdict = "Pass"
  PROVE  /\ ~lenient => probes = engineProbes
         /\ NoneAwaited
         /\ \A i \in DOMAIN probes : InForeground(i) => probeDetails[i].phase # "N/A"
<1>1. Left(9) /\ HeadRank = 9 /\ ~failed
  <2>1. failed => verdict = "Fail"
    BY CallFacts
  <2> QED
    BY <2>1, CallFacts
<1>2. ~Left(1) /\ ~Left(4) /\ ~Left(7)
  BY <1>1, Place
<1>3. AllSettled("PreChaos") /\ AllSettled("PostChaos") /\ StatusOK
      /\ (~lenient => probes = engineProbes)
  BY <1>1, <1>2 DEF Earned, BehindOK
<1>4. \A i \in DOMAIN probes : probes[i].mode \in {"SOT", "EOT", "Edge", "Continuous", "OnChaos"}
  BY TypesOf, ProbesTyped DEF P!Modes, P!ForegroundModes, P!BackgroundModes
<1>5. NoneAwaited
  <2> SUFFICES ASSUME NEW i \in DOMAIN probes, NEW k \in StatusKeys,
                      probeDetails[i].status[k] = "Awaited"
               PROVE  FALSE
    BY DEF NoneAwaited
  <2>1. k \in StatusKeysOf(probes[i].mode)
    BY <1>3 DEF StatusOK
  <2>2. Settled("PreChaos", i) /\ Settled("PostChaos", i)
    BY <1>3 DEF AllSettled
  <2> QED
    BY <1>4, <2>1, <2>2 DEF Settled, Judges, Key, StatusKeysOf, P!ForegroundModes
<1>6. ASSUME NEW i \in DOMAIN probes, InForeground(i)
      PROVE  probeDetails[i].phase # "N/A"
  <2>1. Settled("PreChaos", i) /\ Settled("PostChaos", i)
    BY <1>3 DEF AllSettled
  <2> QED
    BY <1>6, <2>1 DEF Settled, Judges, InForeground, P!ForegroundModes
<1> QED
  BY <1>3, <1>5, <1>6

\* A step of the call.
LEMMA CallEarned ==
  ASSUME TypeIInv, Earned, UNCHANGED <<probeVars, experimentVars>>, Advances, FinalOK'
  PROVE  Earned'
  BY StaysEarned DEF probeVars, experimentVars

\* ... that leaves the result alone.
LEMMA CallEarnedAside ==
  ASSUME TypeIInv, Earned, UNCHANGED <<probeVars, experimentVars>>,
         UNCHANGED <<cr, verdict, crProbes, probes, probeDetails>>,
         NEW c, call' = [call EXCEPT !["main"] = c], c = own \/ c.pc \notin {"score", "update"}
  PROVE  Earned'
<1>1. own' = c
  BY TypesOf DEF R!TypeOK, own, Thread
<1>2. FinalOK'
  BY <1>1, FinalSame DEF Earned, experimentVars
<1> QED
  BY <1>2, StaysAdvanced, CallEarned

LEMMA EarlyEarned ==
  ASSUME TypeIInv, Alone, Earned, UNCHANGED <<probeVars, experimentVars>>,
         R!GetResult("main") \/ R!FetchLabels("main") \/ R!GetChaosStatus("main")
  PROVE  Earned'
<1>1. UNCHANGED <<cr, verdict, crProbes, probes, probeDetails>>
  BY DEF R!GetResult, R!FetchLabels, R!GetChaosStatus, R!detailVars
<1>2. own \in R!Calls
  BY TypesOf DEF R!TypeOK, own, Thread
<1>3. PICK pc \in {"labels", "status", "create", "fill"} :
        \/ R!Return("main", R!Err) \/ R!Step("main", pc)
        \/ call' = [call EXCEPT !["main"].pc = pc, !["main"].res = cr]
  BY DEF R!GetResult, R!FetchLabels, R!GetChaosStatus
<1>4. CASE R!Return("main", R!Err)
  <2>1. call' = [call EXCEPT !["main"] = R!IdleCall(R!Err)] /\ R!IdleCall(R!Err).pc = "idle"
    BY <1>4 DEF R!Return, R!IdleCall
  <2> QED
    BY <1>1, <2>1, CallEarnedAside
<1>5. CASE R!Step("main", pc)
  <2>1. call' = [call EXCEPT !["main"] = [own EXCEPT !.pc = pc]] /\ [own EXCEPT !.pc = pc].pc = pc
    BY <1>2, <1>5, TypesOf DEF R!Step, R!TypeOK, R!Calls, own, Thread
  <2> QED
    BY <1>1, <2>1, CallEarnedAside
<1>6. CASE call' = [call EXCEPT !["main"].pc = pc, !["main"].res = cr]
  <2>1. /\ call' = [call EXCEPT !["main"] = [own EXCEPT !.pc = pc, !.res = cr]]
        /\ [own EXCEPT !.pc = pc, !.res = cr].pc = pc
    BY <1>2, <1>6, TypesOf DEF R!TypeOK, R!Calls, own, Thread
  <2> QED
    BY <1>1, <2>1, CallEarnedAside
<1> QED
  BY <1>3, <1>4, <1>5, <1>6

LEMMA CreateEarned ==
  ASSUME TypeIInv, Alone, Earned, UNCHANGED <<probeVars, experimentVars>>, R!CreateResult("main")
  PROVE  Earned'
<1>1. UNCHANGED <<verdict, probes, probeDetails>> /\ own.pc = "create" /\ ~cr.exists
  BY DEF R!CreateResult, R!detailVars, own, Alone, CopyOK
<1>2. R!Return("main", R!Nil)
  BY <1>1 DEF R!CreateResult
<1>3. own' = R!IdleCall(R!Nil) /\ R!IdleCall(R!Nil).pc = "idle"
  BY <1>2, TypesOf DEF R!TypeOK, own, Thread, R!Return, R!IdleCall
<1>4. FinalOK'
  <2>1. CASE UNCHANGED <<cr, crProbes>>
    BY <1>1, <1>3, <2>1, FinalSame DEF Earned, experimentVars
  <2>2. CASE cr' = [R!NoResult EXCEPT !.exists = TRUE, !.rv = cr.rv + 1,
                                      !.phase = phase, !.verdict = verdict]
    <3>1. cr'.score = R!AwaitedScore
      BY <2>2 DEF R!NoResult
    <3>2. ~Closed'
      BY <3>1 DEF Closed, Closes, R!AwaitedScore
    <3> QED
      BY <1>3, <3>2, FinalLater
  <2> QED
    BY <1>1, <2>1, <2>2 DEF R!CreateResult
<1> QED
  BY <1>1, <1>4, StaysAdvanced, CallEarned

LEMMA FillEarned ==
  ASSUME TypeIInv, Alone, Earned, UNCHANGED <<probeVars, experimentVars>>, R!FillResult("main")
  PROVE  Earned'
<1>1. /\ own.pc = "fill" /\ UNCHANGED <<cr, verdict, crProbes, probes, probeDetails>>
      /\ own \in R!Calls
  BY TypesOf DEF R!FillResult, R!detailVars, R!TypeOK, own, Thread
<1> DEFINE c == [own EXCEPT !.pc = "score", !.res = R!Filled(own.res), !.allPassed = R!GetProbeStatus]
<1>2. call' = [call EXCEPT !["main"] = c]
  BY TypesOf DEF R!FillResult, R!TypeOK, own, Thread
<1>3. c.pc = "score" /\ (c.allPassed <=> R!GetProbeStatus) /\ own' = c
  BY <1>1, <1>2, TypesOf DEF R!TypeOK, R!Calls, own, Thread
<1> HIDE DEF c
<1>4. own'.allPassed => NoneFailed'
  BY <1>1, <1>3 DEF R!GetProbeStatus, NoneFailed
<1>5. ~Closed'
  <2>1. ~Closed
    BY <1>1, CallFacts, Exclusive
  <2> QED
    BY <1>1, <2>1, SameCount DEF experimentVars
<1>6. FinalOK'
  BY <1>3, <1>4, <1>5 DEF FinalOK
<1> QED
  BY <1>1, <1>6, StaysAdvanced, CallEarned

\* The score ends the wait for every probe.
LEMMA ScoreEarned ==
  ASSUME TypeIInv, TypeIInv', Alone, Earned, UNCHANGED <<probeVars, experimentVars>>,
         R!ScoreResult("main")
  PROVE  Earned'
<1>1. /\ own.pc = "score" /\ UNCHANGED <<cr, crProbes, probes>> /\ own \in R!Calls
      /\ probeDetails \in [DOMAIN probes -> R!ProbeDetails]
  BY TypesOf DEF R!ScoreResult, R!TypeOK, R!DetailsTypeOK, own, Thread
<1>2. Uncounted /\ Uncounted'
  BY <1>1, CallFacts DEF Uncounted, experimentVars
<1>3. ~Closed'
  BY <1>2, ExclusiveAfter
<1>4. own'.pc = "update" /\ (Final' <=> Final)
  <2>1. PICK res \in {R!Scored(own), [own.res EXCEPT !.score = R!AwaitedScore]} :
          call' = [call EXCEPT !["main"] = [own EXCEPT !.pc = "update", !.res = res]]
    <3>1. CASE phase = "Completed"
      BY <1>1, <3>1, TypesOf DEF R!ScoreResult, R!TypeOK, own, Thread
    <3>2. CASE phase # "Completed"
      <4>1. call' = [call EXCEPT !["main"] = [own EXCEPT !.pc = "update",
                                                         !.res.score = R!AwaitedScore]]
        BY <3>2, TypesOf DEF R!ScoreResult, R!TypeOK, own, Thread
      <4> QED
        BY <1>1, <4>1 DEF R!Calls
    <3> QED
      BY <3>1, <3>2
  <2> DEFINE c == [own EXCEPT !.pc = "update", !.res = res]
  <2>2. c.pc = "update" /\ c.state = own.state /\ own' = c
    BY <1>1, <2>1, TypesOf DEF R!TypeOK, R!Calls, own, Thread
  <2> HIDE DEF c
  <2> QED
    BY <2>2 DEF Final
<1>5. \/ probeDetails' = probeDetails
      \/ phase = "Completed" /\ probeDetails' = R!SetProbeVerdictAfterFailure(probeDetails)
  BY DEF R!ScoreResult
<1>6. ASSUME probeDetails' = R!SetProbeVerdictAfterFailure(probeDetails)
      PROVE  /\ Advances /\ NoneAwaited'
             /\ \A i \in DOMAIN probes : probeDetails'[i].phase = probeDetails[i].phase
  <2>1. \A i \in DOMAIN probes :
          probeDetails'[i] = [probeDetails[i] EXCEPT !.status =
            [k \in R!StatusKeys |-> IF probeDetails[i].status[k] = "Awaited"
                                    THEN "N/A" ELSE probeDetails[i].status[k]]]
    BY <1>1, <1>6 DEF R!SetProbeVerdictAfterFailure
  <2>2. ASSUME NEW i \in DOMAIN probes
        PROVE  /\ probeDetails'[i].phase = probeDetails[i].phase
               /\ \A k \in StatusKeys :
                    /\ probeDetails'[i].status[k] # "Awaited"
                    /\ probeDetails[i].status[k] # "Awaited" =>
                         probeDetails'[i].status[k] = probeDetails[i].status[k]
    <3> DEFINE status == [k \in R!StatusKeys |-> IF probeDetails[i].status[k] = "Awaited"
                                                 THEN "N/A" ELSE probeDetails[i].status[k]]
    <3>1. probeDetails[i] \in R!ProbeDetails
      BY <1>1
    <3>2. probeDetails'[i] = [probeDetails[i] EXCEPT !.status = status]
      BY <2>1
    <3>3. \A k \in StatusKeys :
            /\ status[k] # "Awaited"
            /\ probeDetails[i].status[k] # "Awaited" => status[k] = probeDetails[i].status[k]
      BY DEF StatusKeys, R!StatusKeys
    <3> HIDE DEF status
    <3>4. probeDetails'[i].phase = probeDetails[i].phase /\ probeDetails'[i].status = status
      BY <3>1, <3>2 DEF R!ProbeDetails
    <3> QED
      BY <3>3, <3>4
  <2> QED
    BY <1>1, <2>2 DEF Advances, NoneAwaited
<1>7. Advances
  BY <1>1, <1>5, <1>6, StaysAdvanced
<1>8. CASE ~Final
  <2>1. FinalOK'
    BY <1>3, <1>4, <1>8 DEF FinalOK
  <2> QED
    BY <1>7, <2>1, CallEarned
<1>9. CASE Final
  <2>1. /\ phase = "Completed" /\ verdict \in {"Pass", "Fail"} /\ verdict' = R!Judged(own)
        /\ probeDetails' = IF R!Judged(own) \in {"Fail", "Stopped"}
                           THEN R!SetProbeVerdictAfterFailure(probeDetails) ELSE probeDetails
    BY <1>1, <1>9, CallFacts DEF R!ScoreResult, Alone, CopyOK, own
  <2>2. CASE verdict = "Pass" /\ own.allPassed
    <3>1. verdict' = "Pass" /\ probeDetails' = probeDetails
      BY <2>1, <2>2 DEF R!Judged
    <3>2. /\ ~lenient => probes = engineProbes
          /\ NoneAwaited
          /\ \A i \in DOMAIN probes : InForeground(i) => probeDetails[i].phase # "N/A"
      BY <1>1, <1>9, <2>2, LastFacts
    <3>3. NoneFailed
      BY <1>1, <2>2 DEF Earned, FinalOK
    <3>4. AllPassed
      <4> SUFFICES ASSUME NEW i \in DOMAIN probes, InForeground(i)
                   PROVE  probeDetails[i].phase = "Passed"
        BY DEF AllPassed
      <4>1. probeDetails[i].phase \in {"N/A", "Passed", "Failed"}
        BY <1>1 DEF R!ProbeDetails, R!ProbePhases
      <4> QED
        BY <3>2, <3>3, <4>1 DEF NoneFailed
    <3>5. PassOK' /\ NoneAwaited'
      BY <1>1, <3>1, <3>2, <3>4 DEF PassOK, AllPassed, NoneAwaited, InForeground, experimentVars
    <3>6. FinalOK'
      BY <1>3, <1>4, <3>5 DEF FinalOK
    <3> QED
      BY <1>7, <3>6, CallEarned
  <2>3. CASE ~(verdict = "Pass" /\ own.allPassed)
    <3>1. verdict' = "Fail" /\ probeDetails' = R!SetProbeVerdictAfterFailure(probeDetails)
      BY <2>1, <2>3 DEF R!Judged
    <3>2. PassOK' /\ NoneAwaited'
      BY <1>6, <3>1 DEF PassOK
    <3>3. FinalOK'
      BY <1>3, <1>4, <3>2 DEF FinalOK
    <3> QED
      BY <1>7, <3>3, CallEarned
  <2> QED
    BY <2>2, <2>3
<1> QED
  BY <1>8, <1>9

\* The statuses are sent as they are by then.
LEMMA UpdateEarned ==
  ASSUME TypeIInv, TypeIInv', Alone, Earned, UNCHANGED <<probeVars, experimentVars>>,
         R!UpdateResult("main")
  PROVE  Earned'
<1>1. own.pc = "update" /\ UNCHANGED <<verdict, probes, probeDetails>> /\ Advances
  BY StaysAdvanced DEF R!UpdateResult, R!detailVars, own
<1>2. own' = own \/ own'.pc = "idle"
  BY TypesOf DEF R!UpdateResult, R!TypeOK, own, Thread, R!Return, R!IdleCall
<1>3. CASE UNCHANGED <<cr, crProbes>>
  <2>1. FinalOK'
    BY <1>1, <1>2, <1>3, FinalSame DEF Earned, experimentVars
  <2> QED
    BY <1>1, <2>1, CallEarned
<1>4. CASE cr' = [own.res EXCEPT !.rv = cr.rv + 1] /\ crProbes' = R!ProbeStatusNow
  <2>1. CASE ~Final
    <3>1. own.res.runs = oldResult.runs /\ own.res \in R!Results
      BY <1>1, <2>1, CallFacts DEF Alone, CopyOK, R!Calls
    <3>2. Uncounted'
      BY <1>4, <3>1 DEF Uncounted, R!Results, experimentVars
    <3>3. ~Closed'
      BY <3>2, ExclusiveAfter
    <3>4. Final' /\ own'.pc = "update" => FALSE
      BY <1>2, <2>1 DEF Final
    <3>5. own'.pc # "score"
      BY <1>1, <1>2
    <3>6. FinalOK'
      BY <3>3, <3>4, <3>5 DEF FinalOK
    <3> QED
      BY <1>1, <3>6, CallEarned
  <2>2. CASE Final
    <3>1. PassOK /\ NoneAwaited
      BY <1>1, <2>2 DEF Earned, FinalOK
    <3>2. PassOK' /\ NoneAwaited'
      BY <1>1, <3>1 DEF PassOK, AllPassed, NoneAwaited, InForeground, experimentVars
    <3>3. \A i \in DOMAIN probes', k \in StatusKeys : crProbes'[i][k] # "Awaited"
      BY <1>1, <1>4, <3>1 DEF R!ProbeStatusNow, NoneAwaited
    <3>4. own'.pc # "score"
      BY <1>1, <1>2
    <3>5. FinalOK'
      BY <3>2, <3>3, <3>4 DEF FinalOK
    <3> QED
      BY <1>1, <3>5, CallEarned
  <2> QED
    BY <2>1, <2>2
<1> QED
  BY <1>3, <1>4 DEF R!UpdateResult, own

LEMMA ResultEarned ==
  ASSUME TypeIInv, TypeIInv', Alone, Earned, ExecuteChaosResult("main")
  PROVE  Earned'
<1>1. R!ChaosResultStep("main") /\ UNCHANGED <<probeVars, experimentVars>>
  BY DEF ExecuteChaosResult
<1>2. ~R!RegetResult("main")
  BY DEF Alone, CopyOK, R!RegetResult, own
<1> QED
  BY <1>1, <1>2, EarlyEarned, CreateEarned, FillEarned, ScoreEarned, UpdateEarned
     DEF R!ChaosResultStep, R!PatchChaosResult

----------------------------------------------------------------------------
(* The process, and what a pass is made of *)

\* What was loaded from err is not forgotten.
LEMMA RacedForEver ==
  ASSUME raced, [Next]_vars
  PROVE  raced'
<1>1. CASE ExecuteProbes
  <2>1. P!Execute
    BY <1>1 DEF ExecuteProbes
  <2>2. CASE P!GetProbesFromEngine \/ P!SkipForeground \/ P!EndOfLoop \/ P!Assign \/ P!CreateProbePod
             \/ P!CheckProbePod \/ P!Trigger \/ P!ValidateResult \/ P!StoreReturned \/ P!DeleteProbePod
    <3>1. raced' = raced
      BY <2>2, Zenon DEF P!GetProbesFromEngine, P!SkipForeground, P!EndOfLoop, P!Assign,
         P!CreateProbePod, P!CheckProbePod, P!Trigger, P!ValidateResult, P!StoreReturned,
         P!DeleteProbePod
    <3> QED
      BY <3>1
  <2>3. CASE P!Decide \/ P!ProbePodChecked \/ P!MarkVerdict \/ P!LoadReturned
    <3>1. raced' = raced \/ P!Load(P!Main)
      BY <2>3, Zenon DEF P!Decide, P!ProbePodChecked, P!MarkVerdict, P!LoadReturned
    <3> QED
      BY <3>1 DEF P!Load
  <2>4. CASE P!PreChaosHandler \/ P!PostChaosHandler \/ P!OnChaosHandler
    <3>1. \E modes : P!Evaluate(modes) \/ P!Launch(modes) \/ P!CheckRecorded(modes)
                      \/ P!NothingToDo(modes)
      BY <2>4 DEF P!PreChaosHandler, P!PostChaosHandler, P!OnChaosHandler
    <3>2. raced' = raced
      BY <3>1 DEF P!Evaluate, P!Launch, P!CheckRecorded, P!NothingToDo
    <3> QED
      BY <3>2
  <2>5. \/ P!GetProbesFromEngine \/ P!SkipForeground \/ P!EndOfLoop \/ P!Assign \/ P!CreateProbePod
        \/ P!CheckProbePod \/ P!Trigger \/ P!ValidateResult \/ P!StoreReturned \/ P!DeleteProbePod
        \/ P!Decide \/ P!ProbePodChecked \/ P!MarkVerdict \/ P!LoadReturned
        \/ P!PreChaosHandler \/ P!PostChaosHandler \/ P!OnChaosHandler
    BY <2>1 DEF P!Execute, P!CreateHelperPod,
       P!PreChaosCmdProbe, P!PreChaosHTTPProbe, P!PreChaosK8sProbe, P!PreChaosPromProbe,
       P!PostChaosCmdProbe, P!PostChaosHTTPProbe, P!PostChaosK8sProbe, P!PostChaosPromProbe,
       P!OnChaosCmdProbe, P!OnChaosHTTPProbe, P!OnChaosK8sProbe, P!OnChaosPromProbe
  <2> QED
    BY <2>2, <2>3, <2>4, <2>5
<1>2. CASE \E i \in DOMAIN probes : PollProbe(i)
  <2>1. PICK i \in DOMAIN probes : P!Poller(i)
    BY <1>2 DEF PollProbe
  <2>2. \/ P!PollTrigger(i) \/ P!PollCompare(i) \/ P!PollCheck(i) \/ P!PollRecord(i)
        \/ P!TimeIsUp(i) \/ P!StopCheckRecorded(i) \/ P!StopMarkVerdict(i) \/ P!StopPatchEngine(i)
    BY <2>1, Zenon DEF P!Poller, P!Poll, P!StopChaosEngine,
         P!TriggerInlineContinuousCmdProbe, P!TriggerSourceContinuousCmdProbe,
         P!TriggerContinuousHTTPProbe, P!TriggerContinuousK8sProbe, P!TriggerContinuousPromProbe,
         P!TriggerInlineOnChaosCmdProbe, P!TriggerSourceOnChaosCmdProbe,
         P!TriggerOnChaosHTTPProbe, P!TriggerOnChaosK8sProbe, P!TriggerOnChaosPromProbe
  <2> QED
    BY <2>2 DEF P!PollTrigger, P!PollCompare, P!PollCheck, P!PollRecord, P!TimeIsUp,
       P!StopCheckRecorded, P!StopMarkVerdict, P!StopPatchEngine, P!Load
<1>3. CASE ~ExecuteProbes /\ ~\E i \in DOMAIN probes : PollProbe(i)
  BY <1>3 DEF Next, MainStep, ThreadStep, DoInitProbes, CallUpdate, ReturnUpdate, DoSetEvent,
     GenerateEvents, LaunchWatcher, StatusCheck, PassVerdict, CompleteResult, Exit,
     ExecuteChaosResult, CallProbes, CallRunProbes, P!RunProbes, ReturnProbes, InjectChaos,
     EndChaos, MainReturns, Signal, ChaosLibExits, End, vars, probeVars
<1> QED
  BY <1>1, <1>2, <1>3

LEMMA EndEarned ==
  ASSUME TypeIInv, Earned,
         UNCHANGED <<detailVars, probeVars, resultVars, engineProbes, oldResult, lenient, todo, busy,
                     watcher, signal, chaos, eventsDetails, published, recorded, eot, failed>>
  PROVE  Earned'
<1>1. /\ UNCHANGED <<probes, verdict, probeDetails, run, poller, wrote, cr, crProbes, call>>
      /\ own' = own
  BY DEF detailVars, probeVars, resultVars, own
<1>2. FinalOK'
  BY <1>1, FinalSame DEF Earned
<1> QED
  BY <1>1, <1>2, StaysAdvanced, StaysEarned

LEMMA MainEarned ==
  ASSUME TypeIInv, TypeIInv', Alone, Earned, ThreadStep("main")
  PROVE  Earned'
<1>1. ~Exit("main")
  <2> SUFFICES ASSUME At("main", "exit") PROVE FALSE
    BY DEF Exit
  <2> QED
    BY MainHead DEF Planned
<1> QED
  BY <1>1, InitProbesEarned, CallUpdateEarned, ReturnUpdateEarned, ScriptEarned, ResultEarned
     DEF ThreadStep

LEMMA EarnedAtStart ==
  ASSUME Init, TypeIInv
  PROVE  Earned
<1>1. PICK c \in Cases : /\ engineProbes = c.probes
                         /\ lenient = (c.script = AzureInstanceStop)
                         /\ todo = [t \in Thread |-> IF t = "main" THEN c.script ELSE <<>>]
  BY DEF Init
<1>2. /\ probes = <<>> /\ run.pc = "idle" /\ own.pc = "idle" /\ ~busy["main"]
      /\ MainScript = c.script
  BY <1>1 DEF Init, P!ProbeInit, P!Idle, R!IdleCall, own, Thread, MainScript
<1>3. DOMAIN probes = {}
  BY <1>2
<1>4. LoopOK
  BY <1>2, <1>3 DEF LoopOK
<1>5. PhaseOK
  BY <1>2 DEF PhaseOK, Probing
<1>6. BehindOK
  <2>1. StatusOK /\ AllSettled("PreChaos") /\ AllSettled("PostChaos")
    BY <1>3 DEF StatusOK, AllSettled
  <2>2. ~lenient /\ Left(9) /\ ~Left(1) => probes = engineProbes
    <3> SUFFICES ASSUME ~lenient, Left(9), ~Left(1) PROVE probes = engineProbes
      OBVIOUS
    <3>1. c.script # <<>> /\ c.script # AzureInstanceStop /\ c.script \in Main
      <4>1. c.script # <<>>
        BY <1>2 DEF Left, Has
      <4>2. c.script # AzureInstanceStop
        BY <1>1
      <4> QED
        BY <4>1, <4>2, CasesAssumption
    <3>2. ~HasEngine
      BY <1>2, <3>1, ScriptsOfMain DEF Scripted, Left
    <3> QED
      BY <1>1, <1>2, <3>2, CasesAssumption
  <2> QED
    BY <2>1, <2>2 DEF BehindOK
<1>7. FinalOK
  <2>1. ~Closed
    <3>1. Uncounted
      BY DEF Init, Uncounted
    <3> QED
      BY <3>1, Exclusive
  <2> QED
    BY <1>2, <2>1 DEF FinalOK
<1> QED
  BY <1>4, <1>5, <1>6, <1>7 DEF Earned

LEMMA NextEarned ==
  ASSUME TypeIInv, TypeIInv', AloneOK, EarnedOK, [Next]_vars
  PROVE  EarnedOK'
<1> SUFFICES ASSUME Unsignalled', ~raced' PROVE Earned'
  BY DEF EarnedOK, Undisturbed
<1>1. CASE Signal
  BY <1>1, SignalNotAlone
<1>2. CASE ~Signal
  <2>1. signal' = signal
    BY <1>2 DEF Next, MainStep, ThreadStep, DoInitProbes, CallUpdate, ReturnUpdate, DoSetEvent,
       GenerateEvents, LaunchWatcher, StatusCheck, PassVerdict, CompleteResult, Exit,
       ExecuteChaosResult, CallProbes, CallRunProbes, ReturnProbes, InjectChaos, EndChaos,
       ExecuteProbes, PollProbe, MainReturns, ChaosLibExits, End, vars, experimentVars
  <2>2. Alone /\ Earned
    BY <2>1, RacedForEver DEF Unsignalled, Undisturbed, AloneOK, EarnedOK
  <2>3. CASE ThreadStep("main")
    BY <2>2, <2>3, MainEarned
  <2>4. CASE CallProbes \/ ReturnProbes \/ InjectChaos \/ EndChaos
    BY <2>2, <2>4, CallProbesEarned, ReturnProbesEarned, InjectEarned, EndChaosEarned
  <2>5. CASE ExecuteProbes
    BY <2>2, <2>5, ExecuteEarned
  <2>6. CASE \E i \in DOMAIN probes : PollProbe(i)
    BY <2>2, <2>6, PollEarned
  <2>7. CASE MainReturns \/ ChaosLibExits
    BY <2>2, <2>7, EndEarned DEF MainReturns, ChaosLibExits, End
  <2>8. CASE ThreadStep("abort")
    BY <2>2, <2>8, AbortSleeps
  <2>9. CASE UNCHANGED vars
    BY <2>2, <2>9, EndEarned DEF vars, experimentVars
  <2> QED
    BY <1>2, <2>3, <2>4, <2>5, <2>6, <2>7, <2>8, <2>9 DEF Next, MainStep
<1> QED
  BY <1>1, <1>2

----------------------------------------------------------------------------
(* The theorems *)

\* As long as no signal has come, the result, the verdict, the event details and main's
\* place agree (result.ChaosResult, called by the scripts of experiments/*).
THEOREM AloneInvariance == Spec => []AloneOK
<1>1. Init => AloneOK
  BY InitOK, AloneAtStart DEF AloneOK
<1>2. TypeIInv /\ AloneOK /\ [Next]_vars => AloneOK'
  BY NextAlone
<1> QED
  BY <1>1, <1>2, TypeInvariance, PTL DEF Spec

\* The history that the process found.
LEMMA HistoryTyped == TypeIInv => oldResult.runs \in [R!Outcome -> Nat]
<1> SUFFICES ASSUME TypeIInv PROVE oldResult.runs \in [R!Outcome -> Nat]
  OBVIOUS
<1>1. oldResult \in R!Results
  BY TypesOf, OldResultsAssumption DEF OwnTypes
<1> QED
  BY <1>1 DEF R!Results

\* A summary event of "Pass" is published only of a result that is passed and counted, one
\* of "Fail" only of a run that is not counted as passed.
THEOREM SummaryMatches == Spec => []SummaryMatchesResult
<1>1. TypeIInv /\ AloneOK => SummaryMatchesResult
  <2> SUFFICES ASSUME TypeIInv, AloneOK, Unsignalled, recorded, ~lenient
               PROVE  /\ Event("Pass") \in published =>
                            cr.verdict = "Pass" /\ cr.runs["Pass"] > oldResult.runs["Pass"]
                      /\ Event("Fail") \in published => cr.runs["Pass"] = oldResult.runs["Pass"]
    BY DEF SummaryMatchesResult, Event
  <2>1. EventsOK /\ CountOK
    BY DEF AloneOK, Alone
  <2>2. oldResult.runs \in [R!Outcome -> Nat]
    BY HistoryTyped
  <2>3. "Pass" \in R!Outcome /\ "Fail" \in R!Outcome
    BY DEF R!Outcome
  <2>4. ASSUME Event("Pass") \in published
        PROVE  cr.verdict = "Pass" /\ cr.runs["Pass"] > oldResult.runs["Pass"]
    <3>1. verdict = "Pass" /\ Closed
      BY <2>1, <2>4 DEF EventsOK, CountOK, Told
    <3>2. cr.verdict = "Pass" /\ cr.runs = [oldResult.runs EXCEPT !["Pass"] = @ + 1]
      BY <3>1 DEF Closed, Closes
    <3> QED
      BY <2>2, <2>3, <3>2
  <2>5. ASSUME Event("Fail") \in published
        PROVE  cr.runs["Pass"] = oldResult.runs["Pass"]
    <3>1. verdict # "Pass" /\ (Uncounted \/ Closed)
      BY <2>1, <2>5 DEF EventsOK, CountOK, Told
    <3>2. CASE Uncounted
      BY <3>2 DEF Uncounted
    <3>3. CASE Closed
      <4>1. cr.runs = [oldResult.runs EXCEPT !["Fail"] = @ + 1]
        BY <3>1, <3>3 DEF Closed, Closes
      <4> QED
        BY <2>2, <2>3, <4>1
    <3> QED
      BY <3>1, <3>2, <3>3
  <2> QED
    BY <2>4, <2>5
<1> QED
  BY <1>1, TypeInvariance, AloneInvariance, PTL

\* A pass in the history is that of this run.
LEMMA PassIsClosed ==
  ASSUME TypeIInv, AloneOK, Unsignalled, cr.runs["Pass"] > oldResult.runs["Pass"]
  PROVE  ~Uncounted /\ Closed /\ verdict = "Pass"
<1>1. oldResult.runs \in [R!Outcome -> Nat] /\ R!Outcome = {"Pass", "Fail", "Stopped"}
  BY HistoryTyped DEF R!Outcome
<1>2. ~Uncounted
  BY <1>1 DEF Uncounted
<1>3. Closed
  BY <1>2 DEF AloneOK, Alone, CountOK
<1>4. verdict \in {"Pass", "Fail"} /\ cr.runs = [oldResult.runs EXCEPT ![verdict] = @ + 1]
  BY <1>3 DEF Closed, Closes
<1>5. verdict = "Pass"
  BY <1>1, <1>4
<1> QED
  BY <1>2, <1>3, <1>5

\* What PassIsEarned and RunIsClosed say apart from the statuses of the probes, also of a run
\* whose err was raced on.
Counts ==
  /\ cr.runs["Pass"] > oldResult.runs["Pass"] => chaos = "injected" /\ ~failed
  /\ recorded /\ eot = Nil =>
       /\ cr.phase = "Completed" /\ cr.verdict \in {"Pass", "Fail"}
       /\ cr.score # R!AwaitedScore
       /\ Total(cr) = Total(oldResult) + 1
       /\ cr.runs[cr.verdict] = oldResult.runs[cr.verdict] + 1

LEMMA CountsOnce ==
  ASSUME TypeIInv, AloneOK, Unsignalled
  PROVE  Counts
<1>1. VerdictOK /\ CountOK
  BY DEF AloneOK, Alone
<1>2. oldResult.runs \in [R!Outcome -> Nat]
  BY HistoryTyped
<1>3. R!Outcome = {"Pass", "Fail", "Stopped"}
  BY DEF R!Outcome
<1>4. cr.runs["Pass"] > oldResult.runs["Pass"] => chaos = "injected" /\ ~failed
  BY <1>1, PassIsClosed DEF VerdictOK, CountOK
<1>5. ASSUME recorded, eot = Nil
      PROVE  /\ cr.phase = "Completed" /\ cr.verdict \in {"Pass", "Fail"}
             /\ cr.score # R!AwaitedScore
             /\ Total(cr) = Total(oldResult) + 1
             /\ cr.runs[cr.verdict] = oldResult.runs[cr.verdict] + 1
  <2>1. Closed
    BY <1>1, <1>5 DEF CountOK
  <2>2. /\ cr.phase = "Completed" /\ cr.verdict \in {"Pass", "Fail"}
        /\ cr.score # R!AwaitedScore
        /\ cr.runs = [oldResult.runs EXCEPT ![cr.verdict] = @ + 1]
    BY <2>1 DEF Closed, Closes
  <2>3. Total(cr) = Total(oldResult) + 1
    <3>1. CASE cr.verdict = "Pass"
      BY <1>2, <1>3, <2>2, <3>1 DEF Total
    <3>2. CASE cr.verdict = "Fail"
      BY <1>2, <1>3, <2>2, <3>2 DEF Total
    <3> QED
      BY <2>2, <3>1, <3>2
  <2>4. cr.runs[cr.verdict] = oldResult.runs[cr.verdict] + 1
    BY <1>2, <1>3, <2>2
  <2> QED
    BY <2>2, <2>3, <2>4
<1> QED
  BY <1>4, <1>5 DEF Counts

\* A pass is counted only of a run whose chaos was injected to its end and that no check has
\* failed; and once ChaosResult(EOT) has returned without an error, the result is completed and
\* the run is in the history exactly once (updateHistory, called by result.ChaosResult).
THEOREM CountedOnce == Spec => [](Unsignalled => Counts)
<1>1. TypeIInv /\ AloneOK => (Unsignalled => Counts)
  BY CountsOnce
<1> QED
  BY <1>1, TypeInvariance, AloneInvariance, PTL

\* What PassIsEarned and RunIsClosed say of the probes has an invariant of its own, as long as
\* no goroutine has loaded from err what another had stored: every probe that is behind main
\* has got its verdict, and ChaosResult makes a pass of nothing else (probe.RunProbes,
\* markedVerdictInEnd, result.updateResultAttributes).
THEOREM EarnedInvariance == Spec => []EarnedOK
<1>1. Init /\ TypeIInv => EarnedOK
  BY EarnedAtStart DEF EarnedOK
<1>2. TypeIInv /\ TypeIInv' /\ AloneOK /\ EarnedOK /\ [Next]_vars => EarnedOK'
  BY NextEarned
<1> QED
  BY <1>1, <1>2, TypeInvariance, AloneInvariance, PTL DEF Spec

\* A pass is counted only after the chaos has been injected to its end, with no check failed and
\* with every SOT, Edge and EOT probe of the chaosengine run and passed (updateHistory, called
\* by result.ChaosResult).
THEOREM PassEarned == Spec => []PassIsEarned
<1>1. TypeIInv /\ AloneOK /\ EarnedOK => PassIsEarned
  <2> SUFFICES ASSUME TypeIInv, AloneOK, EarnedOK, Undisturbed, ~lenient,
                      cr.runs["Pass"] > oldResult.runs["Pass"]
               PROVE  /\ chaos = "injected" /\ ~failed
                      /\ \A i \in Foreground : i \in DOMAIN probes /\ probeDetails[i].phase = "Passed"
    BY DEF PassIsEarned
  <2>1. chaos = "injected" /\ ~failed
    BY CountsOnce DEF Counts, Undisturbed
  <2>2. Closed /\ verdict = "Pass"
    BY PassIsClosed DEF Undisturbed
  <2>3. probes = engineProbes /\ AllPassed
    BY <2>2 DEF EarnedOK, Earned, FinalOK, PassOK
  <2>4. ASSUME NEW i \in Foreground
        PROVE  i \in DOMAIN probes /\ probeDetails[i].phase = "Passed"
    <3>1. i \in DOMAIN probes /\ InForeground(i)
      BY <2>3 DEF Foreground, InForeground, ForegroundModes, P!ForegroundModes
    <3> QED
      BY <2>3, <3>1 DEF AllPassed
  <2> QED
    BY <2>1, <2>4
<1> QED
  BY <1>1, TypeInvariance, AloneInvariance, EarnedInvariance, PTL

\* When main has returned and ChaosResult(EOT) gave it no error, the result is completed, the
\* run is in the history exactly once and no status of a probe is left awaited
\* (result.ChaosResult, SetProbeVerdictAfterFailure).
THEOREM RunClosed == Spec => []RunIsClosed
<1>1. TypeIInv /\ AloneOK /\ EarnedOK => RunIsClosed
  <2> SUFFICES ASSUME TypeIInv, AloneOK, EarnedOK, Undisturbed, recorded, eot = Nil
               PROVE  /\ cr.phase = "Completed" /\ cr.verdict \in {"Pass", "Fail"}
                      /\ cr.score # R!AwaitedScore
                      /\ Total(cr) = Total(oldResult) + 1
                      /\ cr.runs[cr.verdict] = oldResult.runs[cr.verdict] + 1
                      /\ \A i \in DOMAIN probes, k \in StatusKeys : crProbes[i][k] # "Awaited"
    BY DEF RunIsClosed
  <2>1. Counts
    BY CountsOnce DEF Undisturbed
  <2>2. Closed
    BY DEF Undisturbed, AloneOK, Alone, CountOK
  <2>3. \A i \in DOMAIN probes, k \in StatusKeys : crProbes[i][k] # "Awaited"
    BY <2>2 DEF EarnedOK, Earned, FinalOK
  <2> QED
    BY <2>1, <2>3 DEF Counts
<1> QED
  BY <1>1, TypeInvariance, AloneInvariance, EarnedInvariance, PTL
=============================================================================
