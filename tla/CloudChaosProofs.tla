-------------------------- MODULE CloudChaosProofs --------------------------
(***************************************************************************)
(* Proofs about CloudChaos, for any number of resources and every library: *)
(* its type invariant, what main guarantees in a run without a signal, and *)
(* what the abort watcher has restored when it exits the process.          *)
(* The inductive invariant says in which states the resource of a target    *)
(* can be when main has come to an operation, and what its record says then; *)
(* that of the abort says the same of the watcher's next operation.        *)
(***************************************************************************)
EXTENDS CloudChaos, TLAPS

----------------------------------------------------------------------------
(* The inductive invariant *)

\* The states of a resource that main finds before op.
Allowed(op) ==
  CASE op \in {"details", "stop", "unmark", "done"} -> {"up"}
    [] op \in {"mark", "initiated", "down"} ->
         {"stopping", "down"} \union (IF Is({"ebs", "ssm"}) THEN {"up"} ELSE {})
    [] op \in {"early", "markDown", "hold", "status", "start"} ->
         {"down"} \union (IF Is({"ebs", "ssm"}) THEN {"up"} ELSE {})
    [] OTHER -> {"starting", "up"} \union (IF Is({"ssm"}) THEN {"down"} ELSE {})

\* Serial: one target at a time is past the first operation.
Alone ==
  Serial => \A x, y \in Target :
    step[x] \notin {FirstOp, "done"} /\ step[y] \notin {FirstOp, "done"} => x = y

\* Parallel: the loop that looks up the details is over when the next one starts.
Orderly ==
  ~Serial => \A x, y \in Target : step[x] = "mark" => step[y] # "details"

\* Operations that a library does not have.
Paths ==
  \A x \in Target :
    /\ Is({"azureVM"}) => step[x] \notin {"mark", "markDown"}
    /\ ~(Is({"ec2Id"}) /\ ~Serial) => step[x] # "early"

StepsOK == Alone /\ Orderly /\ Paths

\* Every resource is in a state that main's next operation allows.
Fits == ~setup.managed => \A x \in Target : resource[x] \in Allowed(step[x])

\* A target is recorded as injected between its stop and the end of its round.
Recorded ==
  ~Is({"ssm"}) => \A x \in Target :
    record[x] = "injected" => step[x] \notin {"details", "stop", "done"} /\ ~Is({"azureVM"})

\* The libraries that LeftDownIsRecorded is about.
Tracked ==
  ~setup.managed /\ ~Is({"azureVM", "azureDisk", "ssm"}) /\ ~(Is({"ec2Id"}) /\ ~Serial)

\* Their targets are recorded when they are down, or just before.
LeftOK ==
  Tracked => \A x \in Target :
    resource[x] # "up" => record[x] = "injected" \/ step[x] = "mark"

\* What holds until an error or a signal.
Course == ~signal /\ lib # "failed" => Fits /\ Recorded /\ LeftOK

\* The ends of the run, and the watcher before a signal.
Edges ==
  /\ lib = "ramp" => chosen = {}
  /\ lib = "ok" => \A x \in Target : step[x] = "done"
  /\ ~signal => watcher # "reverting"

IInv == TypeOK /\ StepsOK /\ Course /\ Edges /\ OneByOne /\ LeftDownIsRecorded

----------------------------------------------------------------------------
(* The order of the operations *)

\* What follows an operation in the nine libraries.
LEMMA FollowTable ==
  /\ Follow("details") = "stop"
  /\ Follow("stop") = IF Is({"azureVM", "azureDisk"}) THEN "down" ELSE "mark"
  /\ Follow("mark") = IF Is({"ebs"}) /\ ~Serial THEN "initiated" ELSE "down"
  /\ Follow("initiated") = "down"
  /\ Follow("down") = IF Is({"azureDisk"}) THEN "markDown"
                      ELSE IF Is({"ec2Id"}) /\ ~Serial THEN "early" ELSE "hold"
  /\ Follow("early") = "hold" /\ Follow("markDown") = "hold"
  /\ Follow("hold") = IF setup.managed THEN "unmark"
                      ELSE IF Is({"ebs", "gcpDisk"}) THEN "status"
                      ELSE IF Is({"ssm"}) THEN "up" ELSE "start"
  /\ Follow("status") = "start" /\ Follow("start") = "up"
  /\ Follow("up") = IF Is({"azureVM", "ssm"}) THEN "done" ELSE "unmark"
  /\ Follow("unmark") = "done" /\ Follow("done") = "done"
<1> USE DEF Follow, Round, EC2TerminateByID, EC2TerminateByTag, VMInstanceStop, VMPoweroff, VMDiskLoss,
            EBSLoss, AzureInstanceStop, AzureDiskLoss, AWSSSMChaos, Is
<1>1. Follow("details") = "stop"
  OBVIOUS
<1>2. Follow("stop") = IF Is({"azureVM", "azureDisk"}) THEN "down" ELSE "mark"
  OBVIOUS
<1>3. Follow("mark") = IF Is({"ebs"}) /\ ~Serial THEN "initiated" ELSE "down"
  OBVIOUS
<1>4. Follow("initiated") = "down"
  OBVIOUS
<1>5. Follow("down") = IF Is({"azureDisk"}) THEN "markDown"
               ELSE IF Is({"ec2Id"}) /\ ~Serial THEN "early" ELSE "hold"
  OBVIOUS
<1>6. Follow("early") = "hold" /\ Follow("markDown") = "hold"
  OBVIOUS
<1>7. Follow("hold") = IF setup.managed THEN "unmark"
               ELSE IF Is({"ebs", "gcpDisk"}) THEN "status"
               ELSE IF Is({"ssm"}) THEN "up" ELSE "start"
  OBVIOUS
<1>8. Follow("status") = "start" /\ Follow("start") = "up"
  OBVIOUS
<1>9. Follow("up") = IF Is({"azureVM", "ssm"}) THEN "done" ELSE "unmark"
  OBVIOUS
<1>10. Follow("unmark") = "done" /\ Follow("done") = "done"
  OBVIOUS
<1> QED
  BY <1>1, <1>2, <1>3, <1>4, <1>5, <1>6, <1>7, <1>8, <1>9, <1>10

\* The operation after one is an operation, and one that the library has.
LEMMA FollowOps ==
  ASSUME NEW op \in Ops
  PROVE  /\ Follow(op) \in Ops
         /\ Follow(op) # "details"
         /\ Follow(op) = "mark" => op = "stop"
         /\ Is({"azureVM"}) /\ op \notin {"mark", "markDown"} => Follow(op) \notin {"mark", "markDown"}
         /\ ~(Is({"ec2Id"}) /\ ~Serial) => Follow(op) # "early"
         /\ Follow(op) = "stop" => op = "details"
         /\ Follow(op) = "done" => op \in {"up", "unmark", "done"}
         /\ Follow(op) = "done" /\ op = "up" => Is({"azureVM", "ssm"})
  BY FollowTable DEF Ops, Is

\* In serial mode the others have not begun or are done.
LEMMA SerialTurn ==
  ASSUME TypeOK, Serial, NEW x \in Target, step[x] # "done", Turn(x), NEW y \in chosen, y # x
  PROVE  step[y] \in {FirstOp, "done"} /\ Batch(x) = {x}
<1>1. Batch(x) = {x}
  BY DEF Batch, Together
<1>2. CASE step[y] # "done"
  BY <1>1, <1>2 DEF Turn, SameLoop, Entry
<1>3. CASE step[y] = "done"
  BY <1>1, <1>3
<1> QED
  BY <1>1, <1>2, <1>3

\* The targets of a batch are at the same operation.
LEMMA BatchSame ==
  ASSUME TypeOK, NEW x \in chosen, NEW y \in Batch(x)
  PROVE  y \in chosen /\ step[y] = step[x]
  BY DEF Batch

\* Main advances from op to next with x, and with the batch of x.
Advance(x, op, next) ==
  /\ At(x, op) /\ op \in Ops \ {"done"} /\ next \in Ops
  /\ next = Follow(op) \/ (op = "status" /\ next = "unmark")
  /\ UNCHANGED <<setup, lib, chosen>>
  /\ step' \in [Target -> Ops]
  /\ \A y \in Target : step'[y] = IF y \in Batch(x) THEN next ELSE step[y]

LEMMA AdvanceSteps ==
  ASSUME TypeOK, StepsOK, NEW x \in Target, NEW op, NEW next, Advance(x, op, next)
  PROVE  StepsOK' /\ \A y \in Target : step'[y] # "done" => y \in chosen'
<1>1. /\ x \in chosen /\ step[x] = op /\ Turn(x) /\ op \in Ops \ {"done"}
      /\ next # "details" /\ (next = "mark" => op = "stop")
      /\ UNCHANGED setup
  BY FollowOps DEF Advance, At
<1>2. \A y \in Target : y \in Batch(x) => y \in chosen /\ step[y] = op
  BY <1>1, BatchSame
<1>3. \A y \in Target : step'[y] # "done" => y \in chosen'
  BY <1>2 DEF Advance, TypeOK
<1>4. Alone'
  <2> SUFFICES ASSUME Serial, NEW y \in Target, NEW z \in Target, y # z,
                      step'[y] \notin {FirstOp, "done"}, step'[z] \notin {FirstOp, "done"}
               PROVE  FALSE
    BY <1>1 DEF Alone, Serial, FirstOp, Is
  <2>1. \A w \in chosen : w # x => step[w] \in {FirstOp, "done"}
    BY <1>1, SerialTurn
  <2>2. Batch(x) = {x}
    BY DEF Batch, Together
  <2>3. \A w \in Target : w # x => step'[w] = step[w]
    BY <2>2 DEF Advance
  <2>4. \A w \in Target : w # x => step'[w] \in {FirstOp, "done"}
    BY <2>1, <2>3 DEF TypeOK
  <2> QED
    BY <2>4
<1>5. Orderly'
  <2> SUFFICES ASSUME ~Serial, NEW y \in Target, NEW z \in Target,
                      step'[y] = "mark", step'[z] = "details"
               PROVE  FALSE
    BY <1>1 DEF Orderly, Serial
  <2>1. z \notin Batch(x) /\ step[z] = "details"
    BY <1>1 DEF Advance
  <2>2. z \in chosen
    BY <2>1 DEF TypeOK
  <2>3. CASE step[y] = "mark"
    BY <2>1, <2>3 DEF StepsOK, Orderly
  <2>4. CASE step[y] # "mark"
    <3>1. op = "stop"
      BY <2>4, <1>1 DEF Advance
    <3>2. ~SameLoop("stop", "details")
      BY DEF SameLoop, Loops
    <3>3. Rank("stop") < Rank("details")
      BY <1>1, <2>1, <2>2, <3>1, <3>2 DEF Turn
    <3> QED
      BY <3>3 DEF Rank
  <2> QED
    BY <2>3, <2>4
<1>6. Paths'
  <2> SUFFICES ASSUME NEW y \in Target
               PROVE  /\ Is({"azureVM"}) => step'[y] \notin {"mark", "markDown"}
                      /\ ~(Is({"ec2Id"}) /\ ~Serial) => step'[y] # "early"
    BY <1>1 DEF Paths, Is, Serial
  <2>1. CASE y \in Batch(x)
    <3>1. step'[y] = next
      BY <2>1 DEF Advance
    <3>2. Is({"azureVM"}) => op \notin {"mark", "markDown"}
      BY <1>1 DEF StepsOK, Paths
    <3> QED
      BY <1>1, <3>1, <3>2, FollowOps DEF Advance
  <2>2. CASE y \notin Batch(x)
    BY <2>2 DEF Advance, StepsOK, Paths
  <2> QED
    BY <2>1, <2>2
<1> QED
  BY <1>3, <1>4, <1>5, <1>6 DEF StepsOK

\* No target waits for its record while main turns to another one.
LEMMA NoneUnmarked ==
  ASSUME TypeOK, StepsOK, NEW x \in Target, NEW op \in Ops \ {"mark", "done"}, At(x, op),
         NEW y \in Target
  PROVE  step[y] # "mark"
<1>1. x \in chosen /\ step[x] = op /\ Turn(x)
  BY DEF At
<1> SUFFICES ASSUME step[y] = "mark" PROVE FALSE
  OBVIOUS
<1>2. y \in chosen /\ y \notin Batch(x)
  BY <1>1, BatchSame DEF TypeOK
<1>3. ~Entry("mark")
  BY DEF Entry, FirstOp
<1>4. ~SameLoop(op, "mark") /\ Rank(op) < Rank("mark")
  BY <1>1, <1>2, <1>3 DEF Turn
<1>5. ~Serial /\ op # "stop"
  <2>1. {"stop", "mark"} \in Loops
    BY DEF Loops
  <2>2. SameLoop("stop", "mark")
    BY <2>1 DEF SameLoop
  <2>3. ~Serial
    BY <1>4 DEF SameLoop
  <2> QED
    BY <1>4, <2>2, <2>3
<1>6. op # "details"
  BY <1>1, <1>5 DEF StepsOK, Orderly
<1> QED
  BY <1>4, <1>5, <1>6 DEF Rank, Ops

----------------------------------------------------------------------------
(* How the operations end *)

otherVars == <<setup, signal, watcher, revert>>

\* One target at a time stays so while main takes none down.
LEMMA OneByOneKept ==
  ASSUME TypeOK, OneByOne, UNCHANGED <<setup, signal>>,
         \A y \in Target : resource[y] = "up" => resource'[y] = "up"
  PROVE  OneByOne'
<1> SUFFICES ASSUME Serial, ~setup.managed, ~signal, NEW y \in Target, NEW z \in Target,
                    resource'[y] # "up", resource'[z] # "up"
             PROVE  y = z
  BY DEF OneByOne, Serial
<1>1. resource[y] # "up" /\ resource[z] # "up"
  OBVIOUS
<1> QED
  BY <1>1 DEF OneByOne

\* An operation fails that has taken nothing down.
LEMMA FailIInv ==
  ASSUME IInv, NEW x \in Target, NEW op \in Ops \ {"mark", "done"}, At(x, op), Fail,
         UNCHANGED <<otherVars, record, unanswered, excused>>, resource' \in [Target -> States],
         \A y \in Target : resource[y] = "up" => resource'[y] = "up"
  PROVE  IInv'
<1>1. lib = "running" /\ lib' = "failed" /\ UNCHANGED <<chosen, step, setup, signal, watcher, revert>>
  BY DEF At, Fail, otherVars
<1>2. TypeOK'
  BY <1>1 DEF IInv, TypeOK, LibStates
<1>3. StepsOK'
  BY <1>1 DEF IInv, StepsOK, Alone, Orderly, Paths, Serial, Is, FirstOp
<1>4. Course' /\ Edges'
  BY <1>1 DEF IInv, Course, Edges
<1>5. OneByOne'
  BY <1>1, OneByOneKept DEF IInv
<1>6. LeftDownIsRecorded'
  <2> SUFFICES ASSUME ~signal, Tracked, NEW y \in Target \ unanswered, resource'[y] # "up"
               PROVE  record[y] = "injected"
    BY <1>1 DEF LeftDownIsRecorded, Tracked, Is, Serial
  <2>1. step[y] # "mark"
    BY NoneUnmarked DEF IInv
  <2>2. LeftOK
    BY <1>1 DEF IInv, Course
  <2> QED
    BY <2>1, <2>2 DEF LeftOK
<1> QED
  BY <1>2, <1>3, <1>4, <1>5, <1>6 DEF IInv

\* An operation succeeds, and main goes on.
LEMMA AdvanceIInv ==
  ASSUME IInv, NEW x \in Target, NEW op, NEW next, Advance(x, op, next), UNCHANGED otherVars,
         resource' \in [Target -> States],
         record' \in [Target -> {"none", "injected", "reverted"}],
         unanswered' \subseteq setup.targets, excused' \subseteq setup.targets,
         OneByOne',
         ~signal => Fits' /\ Recorded' /\ LeftOK'
  PROVE  IInv'
<1>1. lib = "running" /\ UNCHANGED <<lib, chosen, setup, signal, watcher, revert>>
  BY DEF Advance, At, otherVars
<1>2. StepsOK' /\ \A y \in Target : step'[y] # "done" => y \in chosen'
  BY AdvanceSteps DEF IInv
<1>3. TypeOK'
  BY <1>1, <1>2 DEF IInv, TypeOK, Advance
<1>4. Course' /\ Edges' /\ LeftDownIsRecorded'
  BY <1>1 DEF IInv, Course, Edges, LeftDownIsRecorded
<1> QED
  BY <1>2, <1>3, <1>4 DEF IInv

\* The next operation finds the resources of the batch in a state that it allows.
LEMMA FitsKept ==
  ASSUME TypeOK, Fits, NEW x \in Target, NEW op, NEW next, Advance(x, op, next),
         \A y \in Target : IF y \in Batch(x) THEN ~setup.managed => resource'[y] \in Allowed(next)
                           ELSE resource'[y] = resource[y]
  PROVE  Fits'
  BY DEF Fits, Advance, Allowed, Is

\* Go is such an advance.
LEMMA GoAdvances ==
  ASSUME IInv, NEW x \in Target, NEW op \in Ops \ {"done"}, At(x, op), Go(x), UNCHANGED setup
  PROVE  Advance(x, op, Follow(op))
<1>1. x \in chosen /\ step[x] = op
  BY DEF At
<1>2. Follow(op) \in Ops
  BY FollowOps
<1>3. \A y \in Target : step'[y] = IF y \in Batch(x) THEN Follow(op) ELSE step[y]
  BY <1>1, BatchSame DEF Go, IInv
<1>4. step' = [y \in Target |-> IF y \in Batch(x) THEN Follow(op) ELSE step[y]]
  BY <1>1, BatchSame DEF Go, IInv
<1> QED
  BY <1>2, <1>3, <1>4 DEF Advance, Go, IInv, TypeOK

\* The rule for operations that leave the records alone.
LEMMA PlainIInv ==
  ASSUME IInv, NEW x \in Target, NEW op \in Ops \ {"stop", "mark", "unmark", "done"}, NEW next,
         Advance(x, op, next), UNCHANGED <<otherVars, record, unanswered, excused>>,
         resource' \in [Target -> States],
         \A y \in Target :
           /\ resource[y] = "up" => resource'[y] = "up"
           /\ y \notin Batch(x) => resource'[y] = resource[y]
           /\ y \in Batch(x) /\ ~setup.managed /\ resource[y] \in Allowed(op)
              => resource'[y] \in Allowed(next)
  PROVE  IInv'
<1>1. /\ UNCHANGED <<setup, signal, record>> /\ lib = "running"
      /\ x \in chosen /\ step[x] = op
      /\ \A y \in Target : y \in Batch(x) => step[y] = op
  BY BatchSame DEF Advance, At, otherVars, IInv
<1>2. OneByOne'
  BY <1>1, OneByOneKept DEF IInv
<1> SUFFICES ASSUME ~signal PROVE Fits' /\ Recorded' /\ LeftOK'
  BY <1>2, AdvanceIInv DEF IInv, TypeOK
<1>3. Fits /\ Recorded /\ LeftOK
  BY <1>1 DEF IInv, Course
<1>4. Fits'
  BY <1>1, <1>3, FitsKept DEF IInv, Fits
<1>5. Recorded'
  <2> SUFFICES ASSUME ~Is({"ssm"}), NEW y \in Target, record[y] = "injected"
               PROVE  step'[y] \notin {"details", "stop", "done"} /\ ~Is({"azureVM"})
    BY <1>1 DEF Recorded, Is
  <2>1. step[y] \notin {"details", "stop", "done"} /\ ~Is({"azureVM"})
    BY <1>3 DEF Recorded
  <2>2. ~Is({"azureVM", "ssm"})
    BY <2>1 DEF Is
  <2>3. CASE y \in Batch(x)
    BY <1>1, <2>1, <2>2, <2>3, FollowOps DEF Advance
  <2>4. CASE y \notin Batch(x)
    BY <2>1, <2>4 DEF Advance
  <2> QED
    BY <2>3, <2>4
<1>6. LeftOK'
  <2> SUFFICES ASSUME Tracked, NEW y \in Target, resource'[y] # "up"
               PROVE  record[y] = "injected" \/ step'[y] = "mark"
    BY <1>1 DEF LeftOK, Tracked, Is, Serial
  <2>1. record[y] = "injected" \/ step[y] = "mark"
    BY <1>3 DEF LeftOK
  <2> QED
    BY <1>1, <2>1 DEF Advance
<1> QED
  BY <1>4, <1>5, <1>6

\* The rule for operations that only record something of the targets in the batch.
LEMMA MarkIInv ==
  ASSUME IInv, NEW x \in Target, NEW op \in {"mark", "markDown", "early", "unmark"},
         At(x, op), Go(x), UNCHANGED <<otherVars, resource, unanswered, excused>>,
         NEW status \in {"injected", "reverted"}, SetTargets(Batch(x), status),
         status = "injected" <=> op \in {"mark", "markDown"}
  PROVE  IInv'
<1>1. Advance(x, op, Follow(op)) /\ UNCHANGED <<setup, signal>>
  BY GoAdvances DEF otherVars, Ops
<1>2. /\ lib = "running" /\ x \in chosen /\ step[x] = op
      /\ \A y \in Target : y \in Batch(x) => step[y] = op
  BY BatchSame DEF At, IInv
<1>3. /\ record' \in [Target -> {"none", "injected", "reverted"}]
      /\ \A y \in Target : record'[y] = IF y \in Batch(x) THEN status ELSE record[y]
  BY DEF SetTargets, IInv, TypeOK
<1>4. OneByOne'
  BY <1>1, OneByOneKept DEF IInv
<1> SUFFICES ASSUME ~signal PROVE Fits' /\ Recorded' /\ LeftOK'
  BY <1>1, <1>3, <1>4, AdvanceIInv DEF IInv, TypeOK
<1>5. Fits /\ Recorded /\ LeftOK
  BY <1>2 DEF IInv, Course
<1>6. Fits'
  <2>1. Allowed(op) \subseteq Allowed(Follow(op))
    BY FollowTable DEF Allowed, Is
  <2> QED
    BY <1>1, <1>2, <1>5, <2>1, FitsKept DEF IInv, Fits
<1>7. Recorded'
  <2> SUFFICES ASSUME ~Is({"ssm"}), NEW y \in Target, record'[y] = "injected"
               PROVE  step'[y] \notin {"details", "stop", "done"} /\ ~Is({"azureVM"})
    BY <1>1 DEF Recorded, Is
  <2>1. CASE y \in Batch(x)
    <3>1. op \in {"mark", "markDown"}
      BY <1>3, <2>1
    <3>2. step'[y] = Follow(op)
      BY <1>1, <2>1 DEF Advance
    <3>3. Follow(op) \notin {"details", "stop", "done"}
      BY <3>1, FollowOps DEF Ops
    <3>4. ~Is({"azureVM"})
      BY <3>1, <1>2 DEF IInv, StepsOK, Paths
    <3> QED
      BY <3>2, <3>3, <3>4
  <2>2. CASE y \notin Batch(x)
    BY <1>1, <1>3, <1>5, <2>2 DEF Recorded, Advance
  <2> QED
    BY <2>1, <2>2
<1>8. LeftOK'
  <2> SUFFICES ASSUME Tracked, NEW y \in Target, resource[y] # "up"
               PROVE  record'[y] = "injected" \/ step'[y] = "mark"
    BY <1>1 DEF LeftOK, Tracked, Is, Serial
  <2>1. CASE y \in Batch(x)
    <3>1. op # "early"
      BY <1>2 DEF Tracked, IInv, StepsOK, Paths
    <3>2. op # "unmark"
      BY <1>2, <1>5, <2>1 DEF Fits, Tracked, Allowed
    <3> QED
      BY <1>3, <2>1, <3>1, <3>2
  <2>2. CASE y \notin Batch(x)
    BY <1>1, <1>3, <1>5, <2>2 DEF LeftOK, Advance
  <2> QED
    BY <2>1, <2>2
<1> QED
  BY <1>6, <1>7, <1>8

----------------------------------------------------------------------------
(* Main *)

\* What Local says of an operation.
LEMMA LocalFacts ==
  ASSUME IInv, NEW x \in Target, NEW op, Local(x, op)
  PROVE  At(x, op) /\ lib = "running" /\ UNCHANGED <<resource, unanswered, excused>> /\ resource' \in [Target -> States]
  BY DEF history, Local, At, IInv, TypeOK

\* Operations that change neither a resource nor a record.
LEMMA LookIInv ==
  ASSUME IInv, NEW x \in Target, UNCHANGED otherVars,
         Details(x) \/ Initiated(x) \/ WaitDown(x) \/ Hold(x) \/ Status(x) \/ WaitUp(x)
  PROVE  IInv'
<1> DEFINE Reads(op, next) ==
      \A y \in Target : y \in Batch(x) /\ ~setup.managed /\ resource[y] \in Allowed(op)
                        => resource[y] \in Allowed(next)
<1>1. ASSUME NEW op \in Ops \ {"stop", "mark", "unmark", "done"}, Local(x, op), UNCHANGED record,
             GoOrFail(x), Go(x) => Reads(op, Follow(op))
      PROVE  IInv'
  <2>1. At(x, op) /\ UNCHANGED <<resource, unanswered, excused>> /\ resource' \in [Target -> States]
    BY <1>1, LocalFacts
  <2>2. CASE Go(x)
    <3>1. Advance(x, op, Follow(op))
      BY <2>1, <2>2, GoAdvances DEF otherVars
    <3> QED
      BY <1>1, <2>1, <2>2, <3>1, PlainIInv
  <2>3. CASE Fail
    BY <1>1, <2>1, <2>3, FailIInv
  <2> QED
    BY <1>1, <2>2, <2>3 DEF GoOrFail
<1>2. Reads("initiated", Follow("initiated")) /\ Reads("hold", Follow("hold"))
  <2>1. Reads("initiated", Follow("initiated"))
    BY FollowTable DEF Allowed, Is
  <2>2. ~setup.managed => Allowed("hold") \subseteq Allowed(Follow("hold"))
    BY FollowTable DEF Allowed, Is
  <2> QED
    BY <2>1, <2>2
<1>3. CASE Initiated(x)
  BY <1>1, <1>2, <1>3 DEF Initiated, GoOrFail, Ops
<1>4. CASE Hold(x)
  BY <1>1, <1>2, <1>4 DEF Hold, GoOrFail, Ops
<1>5. CASE WaitDown(x)
  <2>1. Batch(x) = {x}
    BY <1>5 DEF history, WaitDown, Local, At, Batch, Together, Is
  <2>2. ReadsDown(x) => Reads("down", Follow("down"))
    BY <2>1, FollowTable DEF ReadsDown, Allowed, Is
  <2> QED
    BY <1>1, <1>5, <2>2, FailIInv, LocalFacts DEF WaitDown, GoOrFail, Ops
<1>6. CASE WaitUp(x)
  <2>1. Batch(x) = {x}
    BY <1>6 DEF history, WaitUp, Local, At, Batch, Together, Is
  <2>2. ReadsUp(x) => Reads("up", Follow("up"))
    BY <2>1, FollowTable DEF ReadsUp, Allowed, Is
  <2> QED
    BY <1>1, <1>6, <2>2, FailIInv, LocalFacts DEF WaitUp, GoOrFail, Ops
<1>7. CASE Status(x)
  <2>1. At(x, "status") /\ UNCHANGED <<resource, unanswered, excused>> /\ resource' \in [Target -> States]
    BY <1>7, LocalFacts DEF Status
  <2>2. Batch(x) = {x}
    BY <2>1 DEF At, Batch, Together, Is
  <2>3. CASE Fail
    BY <1>7, <2>1, <2>3, FailIInv DEF Status, Ops
  <2>4. CASE ~Fail
    <3> DEFINE next == IF ReadsUp(x) THEN "unmark" ELSE "start"
    <3>1. step' = [step EXCEPT ![x] = next] /\ UNCHANGED <<lib, chosen>>
      BY <1>7, <2>4 DEF Status
    <3>2. Advance(x, "status", next)
      BY <2>1, <2>2, <3>1, FollowTable DEF Advance, Ops, IInv, TypeOK, otherVars
    <3>3. Reads("status", next)
      BY <2>2 DEF ReadsUp, Allowed, Is
    <3> QED
      BY <1>7, <2>1, <3>2, <3>3, PlainIInv DEF Status, Ops
  <2> QED
    BY <2>3, <2>4
<1>8. CASE Details(x)
  <2>1. CASE resource[x] # "down"
    <3>1. Reads("details", Follow("details"))
      BY FollowTable DEF Allowed
    <3> QED
      BY <1>1, <1>8, <2>1, <3>1 DEF history, Details, Ops
  <2>2. CASE resource[x] = "down"
    <3>1. /\ lib' = "panic" /\ lib = "running"
          /\ UNCHANGED <<otherVars, resource, record, chosen, step, unanswered, excused>>
      BY <1>8, <2>2 DEF history, Details, Local, At
    <3>2. TypeOK' /\ Edges' /\ LeftDownIsRecorded'
      BY <3>1 DEF IInv, TypeOK, Edges, LeftDownIsRecorded, LibStates, otherVars
    <3>3. StepsOK' /\ OneByOne'
      BY <3>1 DEF IInv, StepsOK, Alone, Orderly, Paths, Serial, Is, FirstOp, otherVars, OneByOne
    <3>4. Course'
      BY <3>1 DEF IInv, Course, Fits, Allowed, Recorded, LeftOK, Tracked, Is, Serial, otherVars
    <3> QED
      BY <3>2, <3>3, <3>4 DEF IInv
  <2> QED
    BY <2>1, <2>2
<1> QED
  BY <1>3, <1>4, <1>5, <1>6, <1>7, <1>8

\* Operations that record something.
LEMMA RecordIInv ==
  ASSUME IInv, NEW x \in Target, UNCHANGED otherVars, Mark(x) \/ MarkEarly(x) \/ Unmark(x)
  PROVE  IInv'
<1>1. CASE Mark(x)
  <2>1. PICK op \in {"mark", "markDown"} : Local(x, op)
    BY <1>1 DEF Mark
  <2> QED
    BY <1>1, <2>1, MarkIInv, LocalFacts DEF Mark
<1>2. CASE MarkEarly(x)
  <2>1. Batch(x) = {x}
    BY <1>2 DEF history, MarkEarly, Local, At, Batch, Together, Is
  <2> QED
    BY <1>2, <2>1, MarkIInv, LocalFacts DEF MarkEarly
<1>3. CASE Unmark(x)
  <2>1. Batch(x) = {x}
    BY <1>3 DEF history, Unmark, Local, At, Batch, Together, Is
  <2> QED
    BY <1>3, <2>1, MarkIInv, LocalFacts DEF Unmark
<1> QED
  BY <1>1, <1>2, <1>3

\* A target is started.
LEMMA StartIInv ==
  ASSUME IInv, NEW x \in Target, UNCHANGED otherVars, Start(x)
  PROVE  IInv'
<1>1. At(x, "start") /\ UNCHANGED <<record, unanswered, excused>>
  BY DEF history, Start
<1>2. Batch(x) = {x}
  BY <1>1 DEF At, Batch, Together, Is
<1>3. CASE UNCHANGED resource /\ Fail
  BY <1>1, <1>3, FailIInv DEF Ops, IInv, TypeOK
<1>4. CASE resource' = Started(x)
  <2>1. /\ resource' \in [Target -> States]
        /\ \A y \in Target : y # x => resource'[y] = resource[y]
        /\ resource'[x] = IF resource[x] = "down" THEN "starting" ELSE resource[x]
    BY <1>4 DEF Started, IInv, TypeOK, States
  <2>2. \A y \in Target : resource[y] = "up" => resource'[y] = "up"
    BY <2>1
  <2>3. CASE Fail
    BY <1>1, <2>1, <2>2, <2>3, FailIInv DEF Ops
  <2>4. CASE Go(x)
    <3>1. Advance(x, "start", Follow("start"))
      BY <1>1, <2>4, GoAdvances DEF Ops, otherVars
    <3>2. resource[x] \in Allowed("start") => resource'[x] \in Allowed(Follow("start"))
      BY <2>1, FollowTable DEF Allowed, Is
    <3> QED
      BY <1>1, <1>2, <2>1, <2>2, <3>1, <3>2, PlainIInv DEF Ops
  <2> QED
    BY <2>3, <2>4 DEF history, Start
<1> QED
  BY <1>3, <1>4 DEF history, Start

\* A target is stopped, or all of a batch.  When the request fails, one whose answer was
\* lost is unanswered; the others were recorded before.
LEMMA StopIInv ==
  ASSUME IInv, NEW x \in Target, UNCHANGED otherVars, Stop(x)
  PROVE  IInv'
<1>1. /\ At(x, "stop") /\ lib = "running" /\ x \in chosen /\ step[x] = "stop" /\ Turn(x)
      /\ UNCHANGED <<setup, signal, watcher, revert>>
      /\ \A y \in Target : y \in Batch(x) => y \in chosen /\ step[y] = "stop"
  BY BatchSame DEF history, Stop, At, otherVars, IInv
<1>2. /\ record' \in [Target -> {"none", "injected", "reverted"}]
      /\ ~Is({"ssm"}) => record' = record
  BY DEF history, Stop, IInv, TypeOK
<1>3. /\ resource' \in [Target -> States]
      /\ \A y \in Target : resource'[y] = resource[y] \/ (y \in Batch(x) /\ resource'[y] = "stopping")
  BY DEF history, Stop, Stopped, IInv, TypeOK, States
<1>4. Batch(x) \cup unanswered' \cup excused' \subseteq setup.targets
  <2>1. Batch(x) \subseteq chosen
    BY <1>1 DEF Batch
  <2> QED
    BY <2>1 DEF history, Stop, Excuse, IInv, TypeOK
<1>5. OneByOne'
  <2> SUFFICES ASSUME Serial, ~setup.managed, ~signal, NEW y \in Target, NEW z \in Target,
                      resource'[y] # "up", resource'[z] # "up"
               PROVE  y = z
    BY <1>1 DEF OneByOne, Serial
  <2>1. Fits
    BY <1>1 DEF IInv, Course
  <2>2. ASSUME NEW w \in Target, w # x PROVE step[w] \in {FirstOp, "done"} /\ w \notin Batch(x)
    BY <1>1, <2>2, SerialTurn DEF IInv, TypeOK
  <2>3. \A w \in Target : w # x => resource[w] = "up"
    BY <2>1, <2>2 DEF Fits, Allowed, FirstOp
  <2> QED
    BY <1>3, <2>2, <2>3
<1>6. CASE Go(x)
  <2>1. Advance(x, "stop", Follow("stop"))
    BY <1>1, <1>6, GoAdvances DEF Ops
  <2> SUFFICES ASSUME ~signal PROVE Fits' /\ Recorded' /\ LeftOK'
    BY <1>2, <1>3, <1>4, <1>5, <2>1, AdvanceIInv
  <2>2. Fits /\ Recorded /\ LeftOK
    BY <1>1 DEF IInv, Course
  <2>3. Fits'
    <3>1. resource' = Stopped(Batch(x))
      BY <1>1, <1>6 DEF history, Stop, Fail, Go
    <3>2. ASSUME ~setup.managed, NEW y \in Target, y \in Batch(x)
          PROVE  resource'[y] \in Allowed(Follow("stop"))
      <4>1. resource[y] = "up"
        BY <1>1, <2>2, <3>2 DEF Fits, Allowed
      <4>2. resource'[y] = "stopping"
        BY <3>1, <3>2, <4>1 DEF Stopped
      <4> QED
        BY <4>2, FollowTable DEF Allowed, Is
    <3> QED
      BY <1>3, <2>1, <2>2, <3>2, FitsKept DEF IInv
  <2>4. Recorded'
    BY <1>1, <1>2, <2>1, <2>2, FollowOps DEF Recorded, Advance, Is
  <2>5. LeftOK'
    <3> SUFFICES ASSUME Tracked, NEW y \in Target, resource'[y] # "up"
                 PROVE  record'[y] = "injected" \/ step'[y] = "mark"
      BY <1>1 DEF LeftOK, Tracked, Is, Serial
    <3>1. CASE y \in Batch(x)
      BY <2>1, <3>1, FollowTable DEF Advance, Tracked, Is
    <3>2. CASE y \notin Batch(x)
      <4>1. record'[y] = record[y]
        BY <1>2 DEF Tracked, Is
      <4> QED
        BY <1>3, <2>1, <2>2, <3>2, <4>1 DEF LeftOK, Advance
    <3> QED
      BY <3>1, <3>2
  <2> QED
    BY <2>3, <2>4, <2>5
<1>7. CASE Fail
  <2>1. lib' = "failed" /\ UNCHANGED <<chosen, step>>
    BY <1>7 DEF Fail
  <2>2. TypeOK' /\ Course' /\ Edges'
    BY <1>1, <1>2, <1>3, <1>4, <2>1 DEF IInv, TypeOK, Course, Edges, LibStates
  <2>3. StepsOK'
    BY <1>1, <2>1 DEF IInv, StepsOK, Alone, Orderly, Paths, Serial, Is, FirstOp
  <2>4. LeftDownIsRecorded'
    <3> SUFFICES ASSUME ~signal, Tracked, NEW y \in Target \ unanswered', resource'[y] # "up"
                 PROVE  record'[y] = "injected"
      BY <1>1 DEF LeftDownIsRecorded, Tracked, Is, Serial
    <3>1. LeftOK /\ record'[y] = record[y]
      BY <1>1, <1>2 DEF IInv, Course, Tracked, Is
    <3>2. step[y] # "mark"
      BY <1>1, NoneUnmarked DEF IInv, Ops
    <3>3. resource'[y] = resource[y]
      BY <1>1, <1>3, <1>7 DEF history, Stop, Excuse, Fail, Go
    <3> QED
      BY <3>1, <3>2, <3>3 DEF LeftOK
  <2> QED
    BY <1>5, <2>2, <2>3, <2>4 DEF IInv
<1> QED
  BY <1>6, <1>7 DEF history, Stop

\* The ramp and what is looked up, and the select.
LEMMA EntryIInv ==
  ASSUME IInv, Ramp \/ Select, UNCHANGED <<setup, signal, revert>>
  PROVE  IInv'
<1>1. UNCHANGED <<resource, record, unanswered, excused>>
  BY DEF history, Ramp, Select
<1>2. OneByOne'
  BY <1>1, OneByOneKept DEF IInv
<1>3. CASE Select
  <2>1. /\ lib = "select" /\ lib' \in {"stopped", "running"}
        /\ watcher' \in {"waiting", watcher}
        /\ UNCHANGED <<chosen, step>>
    BY <1>3 DEF history, Select
  <2>2. TypeOK' /\ Edges' /\ LeftDownIsRecorded'
    BY <1>1, <2>1 DEF IInv, TypeOK, Edges, LeftDownIsRecorded, LibStates
  <2>3. StepsOK'
    BY <2>1 DEF IInv, StepsOK, Alone, Orderly, Paths, Serial, Is, FirstOp
  <2>4. Course'
    BY <1>1, <2>1 DEF IInv, Course, Fits, Allowed, Recorded, LeftOK, Tracked, Is, Serial
  <2> QED
    BY <1>2, <2>2, <2>3, <2>4 DEF IInv
<1>4. CASE Ramp
  <2>1. lib = "ramp" /\ chosen = {}
    BY <1>4 DEF history, Ramp, IInv, Edges
  <2>2. \A y \in Target : step[y] = "done"
    BY <2>1 DEF IInv, TypeOK
  <2>3. CASE Fail /\ UNCHANGED watcher
    <3>1. lib' = "failed" /\ UNCHANGED <<chosen, step, watcher>>
      BY <2>3 DEF Fail
    <3>2. TypeOK' /\ Edges' /\ Course'
      BY <1>1, <3>1 DEF IInv, TypeOK, Edges, Course, LibStates
    <3>3. StepsOK'
      BY <3>1 DEF IInv, StepsOK, Alone, Orderly, Paths, Serial, Is, FirstOp
    <3>4. LeftDownIsRecorded'
      BY <1>1, <2>1, <2>2 DEF LeftDownIsRecorded, IInv, Course, LeftOK, Tracked, Is, Serial
    <3> QED
      BY <1>2, <3>2, <3>3, <3>4 DEF IInv
  <2>4. CASE lib' = "select"
    <3>1. /\ lib' = "select" /\ chosen' \subseteq setup.targets
          /\ step' = [x \in Target |-> IF x \in chosen' THEN FirstOp ELSE "done"]
          /\ watcher' \in {"none", "waiting"}
      BY <1>4, <2>4 DEF history, Ramp, Fail
    <3>2. /\ step' \in [Target -> Ops]
          /\ \A y \in Target : step'[y] \in {FirstOp, "done"} /\ (step'[y] # "done" => y \in chosen')
      BY <3>1 DEF Ops, FirstOp
    <3>3. TypeOK' /\ Edges' /\ LeftDownIsRecorded'
      BY <1>1, <3>1, <3>2 DEF IInv, TypeOK, Edges, LeftDownIsRecorded, LibStates
    <3>4. StepsOK'
      BY <3>2 DEF StepsOK, Alone, Orderly, Paths, Serial, Is, FirstOp
    <3>5. ASSUME ~signal PROVE Fits' /\ Recorded' /\ LeftOK'
      <4>1. Fits /\ Recorded /\ LeftOK
        BY <2>1, <3>5 DEF IInv, Course
      <4>2. \A y \in Target : step'[y] \in {"details", "stop", "done"}
        BY <3>2 DEF FirstOp
      <4>3. Fits'
        BY <1>1, <2>2, <4>1, <4>2 DEF Fits, Allowed
      <4>4. LeftOK'
        BY <1>1, <2>2, <4>1 DEF LeftOK, Tracked, Is, Serial
      <4>5. Recorded'
        BY <1>1, <2>2, <4>1 DEF Recorded, Is
      <4> QED
        BY <4>3, <4>4, <4>5
    <3> QED
      BY <1>1, <1>2, <3>3, <3>4, <3>5 DEF IInv, Course
  <2> QED
    BY <1>4, <2>3, <2>4 DEF history, Ramp
<1> QED
  BY <1>3, <1>4

\* All targets are done: the next round starts, or main returns.
LEMMA RoundIInv ==
  ASSUME IInv, RoundOver, UNCHANGED otherVars
  PROVE  IInv'
<1>1. /\ UNCHANGED <<setup, signal, watcher, revert, resource, record, chosen, unanswered, excused>>
      /\ lib = "running" /\ lib' \in {"running", "ok"}
      /\ lib' = "ok" => step' = step
  BY DEF history, RoundOver, otherVars
<1>2. \A y \in Target : step[y] = "done"
  BY DEF history, RoundOver, IInv, TypeOK
<1>3. /\ step' \in [Target -> Ops]
      /\ \A y \in Target : step'[y] \in {FirstOp, "done"} /\ (step'[y] # "done" => y \in chosen)
  BY DEF history, RoundOver, Ops, FirstOp, IInv, TypeOK
<1>4. TypeOK' /\ Edges' /\ LeftDownIsRecorded'
  BY <1>1, <1>2, <1>3 DEF IInv, TypeOK, Edges, LeftDownIsRecorded, LibStates
<1>5. StepsOK'
  BY <1>1, <1>3 DEF StepsOK, Alone, Orderly, Paths, Serial, Is, FirstOp
<1>6. ASSUME ~signal PROVE Fits' /\ Recorded' /\ LeftOK'
  <2>1. Fits /\ Recorded /\ LeftOK
    BY <1>1, <1>6 DEF IInv, Course
  <2>2. \A y \in Target : step'[y] \in {"details", "stop", "done"}
    BY <1>3 DEF FirstOp
  <2>3. Fits'
    BY <1>1, <1>2, <2>1, <2>2 DEF Fits, Allowed
  <2>4. LeftOK'
    BY <1>1, <1>2, <2>1 DEF LeftOK, Tracked, Is, Serial
  <2>5. Recorded'
    BY <1>1, <1>2, <2>1 DEF Recorded, Is
  <2> QED
    BY <2>3, <2>4, <2>5
<1>7. OneByOne'
  BY <1>1, OneByOneKept DEF IInv
<1> QED
  BY <1>1, <1>4, <1>5, <1>6, <1>7 DEF IInv, Course

\* Main.
LEMMA MainIInv ==
  ASSUME IInv, Main
  PROVE  IInv'
<1>1. UNCHANGED <<setup, signal, revert>>
  BY DEF history, Main
<1>2. CASE Ramp \/ Select
  BY <1>1, <1>2, EntryIInv
<1>3. CASE RoundOver /\ UNCHANGED watcher
  BY <1>1, <1>3, RoundIInv DEF otherVars
<1>4. ASSUME NEW x \in Target, Operation(x), UNCHANGED watcher PROVE IInv'
  <2>1. UNCHANGED otherVars
    BY <1>1, <1>4 DEF otherVars
  <2> QED
    BY <1>4, <2>1, LookIInv, RecordIInv, StartIInv, StopIInv DEF Operation
<1> QED
  BY <1>2, <1>3, <1>4 DEF history, Main

----------------------------------------------------------------------------
(* The abort watcher, the signal and the provider *)

\* What a step of the watcher changes has its type.
LEMMA WatcherTypes ==
  ASSUME TypeOK, Watcher
  PROVE  /\ resource' \in [Target -> States]
         /\ record' \in [Target -> {"none", "injected", "reverted"}]
         /\ lib' \in {lib, "aborted", "panic"}
         /\ watcher' \in {watcher, "reverting"}
         /\ revert' \in [Target -> RevertOps]
         /\ excused' \subseteq setup.targets
<1>1. CASE Receive
  <2>1. revert' \in [Target -> RevertOps]
    BY <1>1 DEF Receive, RevertOps
  <2>2. excused' \subseteq setup.targets
    BY <1>1 DEF Receive, TypeOK
  <2> QED
    BY <1>1, <2>1, <2>2 DEF Receive, TypeOK
<1>2. CASE Exit
  BY <1>2 DEF Exit, TypeOK, watcherVars
<1>3. ASSUME NEW x \in Target, NEW op, Reverts(x, op) PROVE UNCHANGED watcher /\ {x} \subseteq setup.targets
  BY <1>3 DEF Reverts, TypeOK
<1>4. ASSUME NEW x \in Target, CheckInstance(x) \/ CheckAzureDisk(x) \/ CheckGCPDisk(x) \/ CheckEBS(x)
      PROVE  /\ UNCHANGED <<resource, record, watcher>>
             /\ lib' \in {lib, "panic"}
             /\ revert' \in [Target -> RevertOps]
             /\ excused' \subseteq setup.targets
  BY <1>3, <1>4 DEF CheckInstance, CheckAzureDisk, CheckGCPDisk, CheckEBS, Then, Excuse, TypeOK, RevertOps
<1>5. ASSUME NEW x \in Target, RevertWaitDown(x) \/ RevertWaitUp(x) \/ RevertMark(x)
      PROVE  /\ UNCHANGED <<resource, lib, watcher>>
             /\ record' \in [Target -> {"none", "injected", "reverted"}]
             /\ revert' \in [Target -> RevertOps]
             /\ excused' \subseteq setup.targets
  BY <1>3, <1>5 DEF RevertWaitDown, RevertWaitUp, RevertMark, SetTargets, Then, Excuse, TypeOK, RevertOps
<1>6. ASSUME NEW x \in Target, CancelCommand(x) \/ RevertStart(x)
      PROVE  /\ UNCHANGED <<record, lib, watcher>>
             /\ resource' \in [Target -> States]
             /\ revert' \in [Target -> RevertOps]
             /\ excused' \subseteq setup.targets
  BY <1>3, <1>6 DEF CancelCommand, RevertStart, Started, States, Then, Excuse, TypeOK, RevertOps
<1> QED
  BY <1>1, <1>2, <1>4, <1>5, <1>6 DEF Watcher, TypeOK

\* The watcher takes steps after a signal only: the invariant says nothing of the course then.
LEMMA WatcherIInv ==
  ASSUME IInv, Watcher
  PROVE  IInv'
<1>1. UNCHANGED <<setup, chosen, step, signal, unanswered>>
  BY DEF Watcher
<1>2. signal
  <2> SUFFICES ASSUME ~signal PROVE FALSE
    BY DEF IInv, TypeOK
  <2>1. watcher # "reverting"
    BY DEF IInv, Edges
  <2> QED
    BY <2>1 DEF Watcher, Receive, Exit, CheckInstance, CheckAzureDisk, CheckGCPDisk, CheckEBS,
                CancelCommand, RevertWaitDown, RevertStart, RevertWaitUp, RevertMark, Reverts
<1>3. TypeOK' /\ Edges'
  BY <1>1, <1>2, WatcherTypes DEF IInv, TypeOK, Edges, LibStates
<1>4. StepsOK'
  BY <1>1 DEF IInv, StepsOK, Alone, Orderly, Paths, Serial, Is, FirstOp
<1>5. Course' /\ OneByOne' /\ LeftDownIsRecorded'
  BY <1>1, <1>2 DEF Course, OneByOne, LeftDownIsRecorded
<1> QED
  BY <1>3, <1>4, <1>5 DEF IInv

\* The signal.
LEMMA SignalIInv ==
  ASSUME IInv, Signal
  PROVE  IInv'
<1>1. signal' /\ UNCHANGED <<setup, resource, record, mainVars, watcherVars, unanswered, excused>>
  BY DEF history, Signal
<1>2. TypeOK' /\ Edges'
  BY <1>1 DEF history, IInv, TypeOK, Edges, mainVars, watcherVars, Signal
<1>3. StepsOK'
  BY <1>1 DEF IInv, StepsOK, Alone, Orderly, Paths, Serial, Is, FirstOp, mainVars
<1>4. Course' /\ OneByOne' /\ LeftDownIsRecorded'
  BY <1>1 DEF Course, OneByOne, LeftDownIsRecorded
<1> QED
  BY <1>2, <1>3, <1>4 DEF IInv

\* The provider carries requests out.
LEMMA ProviderIInv ==
  ASSUME IInv, Provider
  PROVE  IInv'
<1>1. UNCHANGED <<setup, record, lib, chosen, step, signal, watcher, revert, unanswered, excused>>
  BY DEF history, Provider, mainVars, watcherVars
<1>2. PICK x \in Target :
        \/ resource[x] = "stopping" /\ resource' = [resource EXCEPT ![x] = "down"]
        \/ resource[x] = "starting" /\ resource' = [resource EXCEPT ![x] = "up"]
        \/ Is({"ebs", "ssm"}) /\ resource[x] = "down" /\ resource' = [resource EXCEPT ![x] = "up"]
  BY DEF history, Provider
<1>3. /\ resource' \in [Target -> States]
      /\ \A y \in Target : resource[y] = "up" => resource'[y] = "up"
      /\ \A y \in Target : y # x => resource'[y] = resource[y]
      /\ \/ resource[x] = "stopping" /\ resource'[x] = "down"
         \/ resource[x] = "starting" /\ resource'[x] = "up"
         \/ Is({"ebs", "ssm"}) /\ resource[x] = "down" /\ resource'[x] = "up"
  BY <1>2 DEF IInv, TypeOK, States
<1>4. TypeOK' /\ Edges'
  BY <1>1, <1>3 DEF IInv, TypeOK, Edges
<1>5. StepsOK'
  BY <1>1 DEF IInv, StepsOK, Alone, Orderly, Paths, Serial, Is, FirstOp
<1>6. OneByOne'
  BY <1>1, <1>3, OneByOneKept DEF IInv
<1>7. LeftDownIsRecorded'
  BY <1>1, <1>3 DEF IInv, LeftDownIsRecorded, Is, Serial
<1>8. ASSUME Fits, Recorded, LeftOK PROVE Fits' /\ Recorded' /\ LeftOK'
  <2>1. Fits'
    <3> SUFFICES ASSUME ~setup.managed, NEW y \in Target PROVE resource'[y] \in Allowed(step[y])
      BY <1>1 DEF Fits, Allowed, Is
    <3>1. resource[y] \in Allowed(step[y])
      BY <1>8 DEF Fits
    <3> QED
      BY <1>3, <3>1 DEF Allowed, Is
  <2>2. Recorded'
    BY <1>1, <1>8 DEF Recorded, Is
  <2>3. LeftOK'
    BY <1>1, <1>3, <1>8 DEF LeftOK, Tracked, Is, Serial
  <2> QED
    BY <2>1, <2>2, <2>3
<1> QED
  BY <1>1, <1>4, <1>5, <1>6, <1>7, <1>8 DEF IInv, Course

----------------------------------------------------------------------------
(* Theorems *)

\* At the start every target is up and nothing is recorded.
LEMMA InitIInv == Init => IInv
<1> SUFFICES ASSUME Init PROVE IInv
  OBVIOUS
<1>1. TypeOK /\ Edges
  BY DEF Init, TypeOK, Edges, States, LibStates, Ops, RevertOps
<1>2. StepsOK
  BY DEF Init, StepsOK, Alone, Orderly, Paths
<1>3. Course
  BY DEF Init, Course, Fits, Allowed, Recorded, LeftOK
<1>4. OneByOne /\ LeftDownIsRecorded
  BY DEF Init, OneByOne, LeftDownIsRecorded
<1> QED
  BY <1>1, <1>2, <1>3, <1>4 DEF IInv

\* Steps that change nothing.
LEMMA StutterIInv ==
  ASSUME IInv, UNCHANGED vars
  PROVE  IInv'
<1>1. UNCHANGED <<setup, resource, record, lib, chosen, step, signal, watcher, revert, unanswered, excused>>
  BY DEF history, vars, mainVars, watcherVars
<1>2. TypeOK' /\ Edges'
  BY <1>1 DEF IInv, TypeOK, Edges
<1>3. StepsOK' /\ OneByOne' /\ LeftDownIsRecorded'
  BY <1>1 DEF IInv, StepsOK, Alone, Orderly, Paths, Serial, Is, FirstOp, OneByOne, LeftDownIsRecorded
<1>4. Course'
  BY <1>1 DEF IInv, Course, Fits, Allowed, Recorded, LeftOK, Tracked, Is, Serial
<1> QED
  BY <1>2, <1>3, <1>4 DEF IInv

\* The inductive invariant holds in every run.
THEOREM Invariance == Spec => []IInv
<1>1. Init => IInv
  BY InitIInv
<1>2. IInv /\ [Next]_vars => IInv'
  <2> SUFFICES ASSUME IInv, [Next]_vars PROVE IInv'
    OBVIOUS
  <2> QED
    BY MainIInv, WatcherIInv, SignalIInv, ProviderIInv, StutterIInv DEF Next
<1> QED
  BY <1>1, <1>2, PTL DEF Spec

\* The cloud libraries keep to their types.
THEOREM TypeCorrect == Spec => []TypeOK
<1> QED
  BY Invariance, PTL DEF IInv

\* For any number of resources and every library: success without a signal means that all
\* that was taken down is up again, and recorded so.
THEOREM SuccessComplete == Spec => []SuccessIsComplete
<1>1. IInv => SuccessIsComplete
  <2> SUFFICES ASSUME IInv, lib = "ok", ~signal, NEW x \in Target
               PROVE  /\ resource[x] = "up" \/ setup.managed
                      /\ record[x] = "injected" => setup.kind = "ssm"
    BY DEF SuccessIsComplete
  <2>1. step[x] = "done" /\ Fits /\ Recorded
    BY DEF IInv, Edges, Course
  <2> QED
    BY <2>1 DEF Fits, Recorded, Allowed, Is
<1> QED
  BY <1>1, Invariance, PTL

\* The serial mode takes one target down at a time, whatever fails.
THEOREM OneDownAtATime == Spec => []OneByOne
<1> QED
  BY Invariance, PTL DEF IInv

\* Whatever an error leaves down is in the result.
THEOREM LeftDownRecorded == Spec => []LeftDownIsRecorded
<1> QED
  BY Invariance, PTL DEF IInv

----------------------------------------------------------------------------
(* What the abort watcher has restored *)

\* The libraries that AbortReverts is about.
Restoring == ~setup.managed /\ ~Is({"ebs", "gcpDisk"})

\* A command of ssm has no status, and is cancelled in one step.
Commands ==
  Is({"ssm"}) /\ ~setup.managed =>
    \A x \in Target :
      /\ step[x] \notin {"status", "unmark"} /\ record[x] # "reverted"
      /\ revert[x] \in {"check", "done"}

\* The watcher does not start a target that is stopping, and past its start the target is
\* up or on its way, unless the watcher or main is excused for it.
Restored ==
  watcher = "reverting" /\ Restoring =>
    \A x \in chosen \ excused :
      /\ revert[x] = "start" => resource[x] # "stopping"
      /\ revert[x] \in {"up", "mark", "done"} => resource[x] \in {"up", "starting"}

\* The watcher is launched after the ramp, and exits when it is done with every target.
WatcherEdges ==
  /\ lib = "ramp" => watcher = "none"
  /\ lib = "aborted" => watcher = "reverting" /\ \A x \in chosen : revert[x] = "done"

AbortIInv == IInv /\ Commands /\ Restored /\ WatcherEdges

\* The targets that the library works on are resources.
LEMMA ChosenType ==
  ASSUME TypeOK
  PROVE  chosen \subseteq Target
<1>1. setup \in SetupType
  BY SetupAssumption DEF TypeOK
<1> QED
  BY <1>1 DEF TypeOK, SetupType

\* The abort invariant is about neither the signal nor what main has reached: a step keeps
\* what is restored that stops no target unless main or the watcher is excused for it.
LEMMA RestoredKept ==
  ASSUME Restored, UNCHANGED <<setup, chosen, revert>>,
         watcher' = watcher \/ watcher' # "reverting",
         excused \subseteq excused',
         \A y \in chosen \ excused' :
           watcher = "reverting" =>
             \/ resource'[y] = resource[y]
             \/ resource'[y] \in {"up", "starting"}
             \/ resource[y] = "stopping" /\ resource'[y] = "down"
             \/ revert[y] = "check"
  PROVE  Restored'
<1> SUFFICES ASSUME watcher = "reverting", Restoring, NEW y \in chosen \ excused'
             PROVE  /\ revert[y] = "start" => resource'[y] # "stopping"
                    /\ revert[y] \in {"up", "mark", "done"} => resource'[y] \in {"up", "starting"}
  BY DEF Restored, Restoring, Is
<1>1. /\ revert[y] = "start" => resource[y] # "stopping"
      /\ revert[y] \in {"up", "mark", "done"} => resource[y] \in {"up", "starting"}
  BY DEF Restored
<1> QED
  BY <1>1

\* A step of the watcher on x keeps what is restored of the others.
LEMMA TurnRestored ==
  ASSUME TypeOK, Restored, NEW x \in Target, NEW op \in RevertOps, watcher = "reverting",
         UNCHANGED <<setup, chosen, watcher>>, excused \subseteq excused', Then(x, op),
         \A y \in Target \ {x} : resource'[y] = resource[y],
         Restoring /\ x \notin excused' =>
           /\ op = "start" => resource'[x] # "stopping"
           /\ op \in {"up", "mark", "done"} => resource'[x] \in {"up", "starting"}
  PROVE  Restored'
<1>1. revert'[x] = op /\ \A y \in Target \ {x} : revert'[y] = revert[y]
  BY DEF Then, TypeOK
<1> SUFFICES ASSUME Restoring, NEW y \in chosen \ excused'
             PROVE  /\ revert'[y] = "start" => resource'[y] # "stopping"
                    /\ revert'[y] \in {"up", "mark", "done"} => resource'[y] \in {"up", "starting"}
  BY DEF Restored, Restoring, Is
<1>2. CASE y = x
  BY <1>1, <1>2
<1>3. CASE y # x
  <2>1. y \in Target
    BY ChosenType
  <2>2. /\ revert[y] = "start" => resource[y] # "stopping"
        /\ revert[y] \in {"up", "mark", "done"} => resource[y] \in {"up", "starting"}
    BY DEF Restored
  <2> QED
    BY <1>1, <1>3, <2>1, <2>2
<1> QED
  BY <1>2, <1>3

----------------------------------------------------------------------------
(* Main and the abort invariant *)

\* An operation of main stops no target that the watcher has turned to without an excuse.
LEMMA OperationRestored ==
  ASSUME AbortIInv, NEW x \in Target, Operation(x), UNCHANGED <<setup, signal, revert, watcher>>
  PROVE  Restored'
<1>1. CASE UNCHANGED <<resource, excused, chosen>>
  BY <1>1, RestoredKept DEF AbortIInv
<1>2. CASE Stop(x)
  <2>1. UNCHANGED chosen
    BY <1>2 DEF history, Stop, Go, Fail
  <2>2. CASE /\ resource' = Stopped(Batch(x))
             /\ Excuse({y \in Batch(x) : Passed(y)})
    <3>1. \A y \in chosen \ excused' :
            watcher = "reverting" => resource'[y] = resource[y] \/ revert[y] = "check"
      BY <2>2, ChosenType DEF Stopped, Excuse, Passed, AbortIInv, IInv, TypeOK
    <3> QED
      BY <2>1, <2>2, <3>1, RestoredKept DEF AbortIInv, Excuse
  <2>3. CASE resource' = Stopped(Batch(x)) /\ Excuse(Batch(x))
    <3>1. \A y \in chosen \ excused' : resource'[y] = resource[y]
      BY <2>3, ChosenType DEF Stopped, Excuse, AbortIInv, IInv, TypeOK
    <3> QED
      BY <2>1, <2>3, <3>1, RestoredKept DEF AbortIInv, Excuse
  <2>4. CASE UNCHANGED <<resource, unanswered, excused>>
    BY <2>1, <2>4, <1>1
  <2> QED
    BY <1>2, <2>2, <2>3, <2>4 DEF history, Stop
<1>3. CASE Start(x)
  <2>1. UNCHANGED <<chosen, unanswered, excused>>
    BY <1>3 DEF history, Start, Go, Fail
  <2>2. \A y \in Target : resource'[y] = resource[y] \/ resource'[y] = "starting"
    BY <1>3 DEF history, Start, Started, AbortIInv, IInv, TypeOK
  <2>3. chosen \subseteq Target
    BY ChosenType DEF AbortIInv, IInv
  <2> QED
    BY <2>1, <2>2, <2>3, RestoredKept DEF AbortIInv
<1>4. CASE Details(x) \/ Mark(x) \/ Initiated(x) \/ WaitDown(x) \/ MarkEarly(x)
  BY <1>1, <1>4 DEF history, Details, Mark, Initiated, WaitDown, MarkEarly, Local, GoOrFail, Go, Fail
<1>5. CASE Hold(x) \/ Status(x) \/ WaitUp(x) \/ Unmark(x)
  BY <1>1, <1>5 DEF history, Hold, Status, WaitUp, Unmark, Local, Go, Fail
<1> QED
  BY <1>2, <1>3, <1>4, <1>5 DEF Operation

\* An operation of main on a command of ssm: it has no status, and is never recorded as reverted.
LEMMA OperationCommands ==
  ASSUME AbortIInv, NEW x \in Target, Operation(x), UNCHANGED <<setup, signal, revert, watcher>>
  PROVE  Commands'
<1> SUFFICES ASSUME Is({"ssm"}), ~setup.managed
             PROVE  \A y \in Target :
                      /\ step'[y] \notin {"status", "unmark"} /\ record'[y] # "reverted"
                      /\ revert[y] \in {"check", "done"}
  BY DEF Commands, Is
<1>1. \A y \in Target :
        /\ step[y] \in Ops /\ step[y] \notin {"status", "unmark", "early"}
        /\ record[y] # "reverted" /\ revert[y] \in {"check", "done"}
  BY DEF AbortIInv, Commands, IInv, TypeOK, StepsOK, Paths, Is
<1>2. \A op \in Ops : Follow(op) \notin {"status", "unmark"}
  BY FollowTable DEF Ops, Is
<1>3. ~Status(x) /\ ~Unmark(x) /\ ~MarkEarly(x)
  BY <1>1 DEF history, Status, Unmark, MarkEarly, Local, At
<1>4. Go(x) => \A y \in Target : step'[y] \notin {"status", "unmark"}
  BY <1>1, <1>2 DEF Go
<1>5. Fail => \A y \in Target : step'[y] \notin {"status", "unmark"}
  BY <1>1 DEF Fail
<1>6. CASE Details(x) \/ Initiated(x) \/ WaitDown(x) \/ Hold(x) \/ WaitUp(x) \/ Start(x)
  <2>1. UNCHANGED record /\ (Go(x) \/ Fail \/ UNCHANGED step)
    BY <1>6 DEF history, Details, Initiated, WaitDown, Hold, WaitUp, Start, GoOrFail
  <2> QED
    BY <1>1, <1>4, <1>5, <2>1
<1>7. CASE Stop(x)
  <2>1. Go(x) \/ Fail
    BY <1>7 DEF history, Stop
  <2>2. \A y \in Target : record'[y] # "reverted"
    BY <1>1, <1>7 DEF history, Stop
  <2> QED
    BY <1>1, <1>4, <1>5, <2>1, <2>2
<1>8. CASE Mark(x)
  <2>1. Go(x) /\ \A y \in Target : record'[y] # "reverted"
    BY <1>1, <1>8 DEF Mark, SetTargets
  <2> QED
    BY <1>1, <1>4, <2>1
<1> QED
  BY <1>3, <1>6, <1>7, <1>8 DEF Operation

\* Main keeps the abort invariant.
LEMMA MainAbort ==
  ASSUME AbortIInv, ~Exited, Main
  PROVE  Commands' /\ Restored' /\ WatcherEdges'
<1>1. UNCHANGED <<setup, signal, revert>>
  BY DEF history, Main
<1>2. CASE Ramp
  <2>1. watcher' # "reverting" /\ UNCHANGED record /\ lib' \in {"select", "failed"}
    BY <1>2 DEF history, Ramp, Fail, AbortIInv, WatcherEdges
  <2>2. \A x \in Target : step'[x] \in {"details", "stop", "done", step[x]}
    BY <1>2 DEF history, Ramp, Fail, FirstOp
  <2>3. Commands'
    BY <1>1, <2>1, <2>2 DEF AbortIInv, Commands, Is
  <2> QED
    BY <2>1, <2>3 DEF Restored, WatcherEdges
<1>3. CASE Select
  <2>1. /\ UNCHANGED <<resource, record, chosen, step, unanswered, excused>>
        /\ lib' \in {"stopped", "running"}
        /\ watcher' = watcher \/ watcher' # "reverting"
    BY <1>3 DEF history, Select
  <2>2. Restored'
    BY <1>1, <2>1, RestoredKept DEF AbortIInv
  <2>3. Commands'
    BY <1>1, <2>1 DEF AbortIInv, Commands, Is
  <2> QED
    BY <2>1, <2>2, <2>3 DEF WatcherEdges
<1>4. CASE RoundOver /\ UNCHANGED watcher
  <2>1. UNCHANGED <<resource, record, chosen, unanswered, excused>> /\ lib' \in {"running", "ok"}
    BY <1>4 DEF history, RoundOver
  <2>2. \A x \in Target : step'[x] \in {"details", "stop", "done", step[x]}
    BY <1>4 DEF history, RoundOver, FirstOp
  <2>3. Restored'
    BY <1>1, <1>4, <2>1, RestoredKept DEF AbortIInv
  <2>4. Commands'
    BY <1>1, <2>1, <2>2 DEF AbortIInv, Commands, Is
  <2> QED
    BY <2>1, <2>3, <2>4 DEF WatcherEdges
<1>5. ASSUME NEW x \in Target, Operation(x), UNCHANGED watcher
      PROVE  Commands' /\ Restored' /\ WatcherEdges'
  <2>1. lib' \in {"running", "failed", "panic"}
    BY <1>5 DEF history, Operation, Details, Stop, Mark, Initiated, WaitDown, MarkEarly, Hold, Status, Start,
                WaitUp, Unmark, Local, At, GoOrFail, Go, Fail
  <2> QED
    BY <1>1, <1>5, <2>1, OperationRestored, OperationCommands DEF WatcherEdges
<1> QED
  BY <1>2, <1>3, <1>4, <1>5 DEF history, Main

----------------------------------------------------------------------------
(* The watcher and the abort invariant *)

\* The watcher is told of the signal: of ssm it cancels the commands that it knows.
LEMMA ReceiveRestored ==
  ASSUME AbortIInv, Receive, UNCHANGED <<setup, chosen, step, signal>>
  PROVE  Restored'
<1> SUFFICES ASSUME Restoring, NEW x \in chosen \ excused'
             PROVE  revert'[x] = "check"
  BY DEF Restored, Restoring, Is
<1>1. x \in Target
  BY ChosenType DEF AbortIInv, IInv
<1>2. Is({"ssm"}) => record[x] = "injected"
  <2>1. Is({"ssm"}) => record[x] # "none"
    BY DEF Receive
  <2>2. Is({"ssm"}) => record[x] # "reverted"
    BY <1>1 DEF AbortIInv, Commands, Restoring
  <2> QED
    BY <1>1, <2>1, <2>2 DEF AbortIInv, IInv, TypeOK
<1> QED
  BY <1>1, <1>2 DEF Receive

\* The watcher looks at a target, or cancels its command.
LEMMA CheckRestored ==
  ASSUME AbortIInv, NEW x \in Target, UNCHANGED <<setup, chosen, step, signal>>,
         CheckInstance(x) \/ CheckAzureDisk(x) \/ CheckGCPDisk(x) \/ CheckEBS(x) \/ CancelCommand(x)
  PROVE  Restored'
<1>1. watcher = "reverting" /\ UNCHANGED watcher
  BY DEF CheckInstance, CheckAzureDisk, CheckGCPDisk, CheckEBS, CancelCommand, Reverts
<1>2. TypeOK /\ Restored /\ resource[x] \in States
  BY DEF AbortIInv, IInv, TypeOK
<1>3. CASE CheckInstance(x)
  <2>1. UNCHANGED <<resource, excused>> /\ Is(Instances)
    BY <1>3 DEF CheckInstance
  <2>2. PICK op \in RevertOps :
          /\ Then(x, op)
          /\ ~setup.managed =>
               /\ op # "start"
               /\ op \in {"up", "mark", "done"} => resource[x] \in {"up", "starting"}
    <3>1. CASE setup.managed
      BY <1>3, <3>1 DEF CheckInstance, RevertOps
    <3>2. CASE ~setup.managed /\ Then(x, "down")
      BY <3>2 DEF RevertOps
    <3>3. CASE ~setup.managed /\ Is({"azureVM"})
      BY <1>3, <3>3 DEF CheckInstance, RevertOps
    <3>4. CASE ~setup.managed /\ ~Is({"azureVM"}) 
      BY <1>3, <3>4 DEF CheckInstance, RevertOps
    <3> QED
      BY <3>1, <3>2, <3>3, <3>4
  <2> QED
    BY <1>1, <1>2, <2>1, <2>2, TurnRestored DEF Restoring
<1>4. CASE CheckAzureDisk(x)
  <2>1. /\ UNCHANGED resource /\ excused \subseteq excused'
        /\ resource[x] = "stopping" => x \in excused'
    BY <1>4 DEF CheckAzureDisk, Excuse
  <2>2. CASE Then(x, "start")
    BY <1>1, <1>2, <2>1, <2>2, TurnRestored DEF RevertOps
  <2>3. CASE resource[x] = "up" /\ Then(x, "done")
    BY <1>1, <1>2, <2>1, <2>3, TurnRestored DEF RevertOps
  <2> QED
    BY <1>4, <2>2, <2>3 DEF CheckAzureDisk
<1>5. CASE CheckGCPDisk(x) \/ CheckEBS(x)
  BY <1>5 DEF CheckGCPDisk, CheckEBS, Restored, Restoring, Is
<1>6. CASE CancelCommand(x)
  <2>1. Then(x, "done")
    BY <1>6 DEF CancelCommand
  <2>2. CASE resource' = [resource EXCEPT ![x] = "up"] /\ UNCHANGED excused
    BY <1>1, <1>2, <2>1, <2>2, TurnRestored DEF TypeOK, RevertOps
  <2>3. CASE UNCHANGED resource /\ Excuse({x})
    BY <1>1, <1>2, <2>1, <2>3, TurnRestored DEF Excuse, RevertOps
  <2> QED
    BY <1>6, <2>2, <2>3 DEF CancelCommand
<1> QED
  BY <1>3, <1>4, <1>5, <1>6

\* The watcher waits, starts a target, waits again and records it.
LEMMA RevertRestored ==
  ASSUME AbortIInv, NEW x \in Target, UNCHANGED <<setup, chosen, step, signal>>,
         RevertWaitDown(x) \/ RevertStart(x) \/ RevertWaitUp(x) \/ RevertMark(x)
  PROVE  Restored'
<1>1. watcher = "reverting" /\ UNCHANGED watcher /\ x \in chosen
  BY DEF RevertWaitDown, RevertStart, RevertWaitUp, RevertMark, Reverts
<1>2. TypeOK /\ Restored /\ resource[x] \in States
  BY DEF AbortIInv, IInv, TypeOK
<1>3. Restoring /\ x \notin excused =>
        /\ revert[x] = "start" => resource[x] # "stopping"
        /\ revert[x] \in {"up", "mark", "done"} => resource[x] \in {"up", "starting"}
  BY <1>1, <1>2 DEF Restored
<1>4. CASE RevertWaitDown(x)
  <2>1. /\ UNCHANGED resource /\ excused \subseteq excused' /\ Then(x, "start")
        /\ resource[x] = "stopping" => x \in excused'
    BY <1>4 DEF RevertWaitDown, Excuse
  <2> QED
    BY <1>1, <1>2, <2>1, TurnRestored DEF RevertOps
<1>5. CASE RevertStart(x)
  <2>1. PICK op \in {"up", "mark", "done"} : Then(x, op)
    BY <1>5 DEF RevertStart
  <2>2. revert[x] = "start"
    BY <1>5 DEF RevertStart, Reverts
  <2>3. CASE resource[x] # "stopping" /\ resource' = Started(x) /\ UNCHANGED excused
    <3>1. /\ resource'[x] = (IF resource[x] = "down" THEN "starting" ELSE resource[x])
          /\ \A y \in Target \ {x} : resource'[y] = resource[y]
      BY <1>2, <2>3 DEF Started, TypeOK
    <3>2. resource'[x] \in {"up", "starting"}
      BY <1>2, <2>3, <3>1 DEF States
    <3> QED
      BY <1>1, <1>2, <2>1, <2>3, <3>1, <3>2, TurnRestored DEF RevertOps
  <2>4. CASE UNCHANGED resource /\ (IF resource[x] = "down" THEN Excuse({x}) ELSE UNCHANGED excused)
    <3>1. excused \subseteq excused' /\ (resource[x] = "down" => x \in excused')
      BY <2>4 DEF Excuse
    <3>2. Restoring /\ x \notin excused' => resource[x] \in {"up", "starting"}
      BY <1>2, <1>3, <2>2, <3>1 DEF States
    <3> QED
      BY <1>1, <1>2, <2>1, <2>4, <3>1, <3>2, TurnRestored DEF RevertOps
  <2> QED
    BY <1>5, <2>3, <2>4 DEF RevertStart
<1>6. CASE RevertWaitUp(x) \/ RevertMark(x)
  <2>1. UNCHANGED <<resource, excused>> /\ Then(x, "done") /\ revert[x] \in {"up", "mark"}
    BY <1>6 DEF RevertWaitUp, RevertMark, Reverts
  <2> QED
    BY <1>1, <1>2, <1>3, <2>1, TurnRestored DEF RevertOps
<1> QED
  BY <1>4, <1>5, <1>6

\* The watcher keeps the abort invariant.
LEMMA WatcherAbort ==
  ASSUME AbortIInv, Watcher
  PROVE  Commands' /\ Restored' /\ WatcherEdges'
<1>1. UNCHANGED <<setup, chosen, step, signal>> /\ ~Exited
  BY DEF Watcher
<1>2. lib # "aborted" /\ TypeOK
  BY <1>1 DEF Exited, AbortIInv, IInv
<1>3. CASE Receive
  <2>1. WatcherEdges'
    BY <1>2, <1>3 DEF Receive, WatcherEdges, AbortIInv
  <2>2. Commands'
    BY <1>1, <1>3 DEF Receive, AbortIInv, Commands, Is
  <2> QED
    BY <1>1, <1>3, <2>1, <2>2, ReceiveRestored
<1>4. CASE Exit
  <2>1. UNCHANGED <<resource, record, watcher, revert, excused>> /\ lib' = "aborted"
    BY <1>4 DEF Exit, watcherVars
  <2>2. WatcherEdges'
    BY <1>1, <1>4, <2>1 DEF Exit, WatcherEdges
  <2>3. Commands'
    BY <1>1, <2>1 DEF AbortIInv, Commands, Is
  <2>4. Restored'
    BY <1>1, <2>1, RestoredKept DEF AbortIInv
  <2> QED
    BY <2>2, <2>3, <2>4
<1>5. ASSUME NEW x \in Target,
             \/ CheckInstance(x) \/ CheckAzureDisk(x) \/ CheckGCPDisk(x) \/ CheckEBS(x)
             \/ CancelCommand(x) \/ RevertWaitDown(x) \/ RevertStart(x) \/ RevertWaitUp(x)
             \/ RevertMark(x)
      PROVE  Commands' /\ Restored' /\ WatcherEdges'
  <2>1. watcher = "reverting" /\ UNCHANGED watcher /\ lib' \in {lib, "panic"}
    BY <1>5 DEF CheckInstance, CheckAzureDisk, CheckGCPDisk, CheckEBS, CancelCommand, RevertWaitDown,
                RevertStart, RevertWaitUp, RevertMark, Reverts
  <2>2. WatcherEdges'
    BY <1>2, <2>1 DEF WatcherEdges, AbortIInv
  <2>3. Restored'
    BY <1>1, <1>5, CheckRestored, RevertRestored
  <2>4. Commands'
    <3> SUFFICES ASSUME Is({"ssm"}), ~setup.managed
                 PROVE  UNCHANGED record /\ Then(x, "done")
      BY <1>1, <1>2 DEF AbortIInv, Commands, Is, Then, TypeOK
    <3>1. revert[x] \in {"check", "done"}
      BY DEF AbortIInv, Commands
    <3>2. CancelCommand(x)
      BY <1>5, <3>1 DEF CheckInstance, CheckAzureDisk, CheckGCPDisk, CheckEBS, RevertWaitDown,
                  RevertStart, RevertWaitUp, RevertMark, Reverts, Is, Instances
    <3> QED
      BY <3>2 DEF CancelCommand
  <2> QED
    BY <2>2, <2>3, <2>4
<1> QED
  BY <1>3, <1>4, <1>5 DEF Watcher

----------------------------------------------------------------------------
(* Aborted runs *)

\* The signal and the provider: a resource that is not stopping is not taken down by itself.
LEMMA OutsideAbort ==
  ASSUME AbortIInv, Signal \/ Provider \/ UNCHANGED vars
  PROVE  Commands' /\ Restored' /\ WatcherEdges'
<1>1. UNCHANGED <<setup, record, lib, chosen, step, watcher, revert, unanswered, excused>>
  BY DEF history, Signal, Provider, vars, mainVars, watcherVars
<1>2. \A y \in Target :
        \/ resource'[y] = resource[y]
        \/ resource'[y] = "up"
        \/ resource[y] = "stopping" /\ resource'[y] = "down"
  <2>1. CASE Provider
    BY <2>1 DEF history, Provider, AbortIInv, IInv, TypeOK
  <2>2. CASE UNCHANGED resource
    BY <2>2
  <2> QED
    BY <2>1, <2>2 DEF history, Signal, vars
<1>3. chosen \subseteq Target
  BY ChosenType DEF AbortIInv, IInv
<1>4. Restored'
  BY <1>1, <1>2, <1>3, RestoredKept DEF AbortIInv
<1>5. Commands' /\ WatcherEdges'
  BY <1>1 DEF AbortIInv, Commands, WatcherEdges, Is
<1> QED
  BY <1>4, <1>5

\* The abort invariant holds in every run.
THEOREM AbortInvariance == Spec => []AbortIInv
<1>1. Init => AbortIInv
  BY InitIInv DEF Init, AbortIInv, Commands, Restored, WatcherEdges
<1>2. AbortIInv /\ [Next]_vars => AbortIInv'
  <2> SUFFICES ASSUME AbortIInv, [Next]_vars PROVE AbortIInv'
    OBVIOUS
  <2>1. IInv'
    BY MainIInv, WatcherIInv, SignalIInv, ProviderIInv, StutterIInv DEF Next, AbortIInv
  <2>2. Commands' /\ Restored' /\ WatcherEdges'
    BY MainAbort, WatcherAbort, OutsideAbort DEF Next
  <2> QED
    BY <2>1, <2>2 DEF AbortIInv
<1> QED
  BY <1>1, <1>2, PTL DEF Spec

\* When the abort watcher exits the process, for any number of targets and wherever the
\* signal came, every target that it is not excused for is up or starting; the property leaves out
\* the watchers that do not keep it, those of ebs-loss, gcp-vm-disk-loss and managed groups.
THEOREM AbortReverted == Spec => []AbortReverts
<1>1. AbortIInv => AbortReverts
  <2> SUFFICES ASSUME AbortIInv, lib = "aborted", Restoring, NEW x \in chosen \ excused
               PROVE  resource[x] \in {"up", "starting"}
    BY DEF AbortReverts, Restoring
  <2> QED
    BY DEF AbortIInv, WatcherEdges, Restored
<1> QED
  BY <1>1, AbortInvariance, PTL
=============================================================================
