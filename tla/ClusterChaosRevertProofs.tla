---------------------- MODULE ClusterChaosRevertProofs ----------------------
(***************************************************************************)
(* Proofs that the libraries of ClusterChaos take back their chaos: after a *)
(* success, after an abort, and, where they do not, that the result says so. *)
(*                                                                         *)
(* The invariant relates the chaos in place to where main and the abort     *)
(* watcher are in their programs: main's undo is still to come for what is   *)
(* live, and what the watcher has behind it in its last attempt is not.     *)
(***************************************************************************)
EXTENDS ClusterChaosProofs

----------------------------------------------------------------------------
(* What the library has still to take back *)

\* Main will come to the undo of target i.
Pending(i) ==
  LET p == pc["main"]
  IN IF OneByTarget THEN p.stage = 2 /\ p.at = i /\ p.op <= UndoOp
     ELSE \/ p.stage < UndoStage
          \/ p.stage = UndoStage /\ (p.at < Turn(i) \/ (p.at = Turn(i) /\ p.op <= UndoOp))

\* The chaos on x is in place, or its command is about to start.
Live(x) == object[x].chaos \/ stress[x] = "starting"
\* The targets that the revert answers for.
NotExcused == Targets \ excused

\* Nothing interferes with main: the exec libraries have no abort watcher.
Alone == ~signal \/ Is(Exec)
\* The library has not returned.
Active == lib \in {"running", "aborting"}

\* A copy that has the object's version has its chaos, too.
CopiesSame ==
  \A t \in Thread, x \in Target :
    copy[t][x].version = object[x].version => copy[t][x].chaos = object[x].chaos

\* node-taint looks at its copy only: main's is fresh without a watcher.
CopyFresh ==
  ~signal /\ lib = "running" /\ Is({"taint"}) /\ Op("main") = "undo" =>
    copy["main"][Item("main")].chaos = object[Item("main")].chaos

\* What is live will be undone by main.
ToUndo ==
  Alone /\ Active =>
    \A x \in NotExcused : Live(x) => \E i \in DOMAIN setup.targets : setup.targets[i] = x /\ Pending(i)

\* The chaos on x is in place and its undo has not come.
Stressed(x) ==
  /\ Is(Exec) /\ lib = "running"
  /\ IF Serial THEN pc["main"].stage = 2 /\ pc["main"].op \in 2 .. UndoOp /\ Item("main") = x
     ELSE pc["main"].stage < UndoStage

\* A command that ran out of memory before its undo did so under chaos.
OomOK ==
  \A x \in Targets : Stressed(x) =>
    /\ stress[x] = "running" => object[x].chaos
    /\ stress[x] = "oom" => oomed # {}

\* The record of a live target says so, but for the moment before the record is made.
Marked ==
  Marks /\ ~signal /\ lib \in {"running", "failed"} =>
    \A x \in NotExcused \ (IF lib = "failed" THEN unanswered ELSE {}) :
      Live(x) =>
        \/ record[x] = "injected"
        \/ lib = "running" /\ Op("main") = "mark" /\ Item("main") = x

\* Between its undo and its record, a target is not live.
Undone ==
  Alone /\ Active /\ pc["main"].stage = UndoStage /\ pc["main"].op > UndoOp
  => Item("main") \in excused \/ ~Live(Item("main"))

\* What a successful run leaves.
Completed ==
  lib = "ok" /\ ~signal /\ oomed = {} /\ ~(Is({"fio"}) /\ Serial /\ Len(setup.targets) > 1)
  => \A x \in NotExcused : ~Live(x)

\* The watcher is about to remove the taint from x, as its copy has it.
InHand(x) ==
  Is({"taint"}) /\ Op("watcher") = "undo" /\ tries["watcher"] > 0 /\ x = Item("watcher")
  /\ copy["watcher"][x].chaos

\* What the watcher has passed in its last attempt is not live.
PassedOK == \A x \in NotExcused : Passed(x) => ~object[x].chaos \/ InHand(x)

----------------------------------------------------------------------------
(* What main has still to undo *)

\* Taking the targets in turn reaches each of them.
LEMMA TurnOK ==
  ASSUME setup \in Setups, NEW i \in DOMAIN setup.targets
  PROVE  Turn(i) \in DOMAIN setup.targets /\ Turn(Turn(i)) = i /\ Turn(i) \in 1 .. Len(setup.targets)
  BY SetupOK DEF Turn

\* The operations of main in numbers.
LEMMA MainPlace ==
  TypeIInv =>
    /\ pc["main"].stage \in 1 .. Len(MainProgram) /\ Len(MainProgram) \in Nat
    /\ pc["main"].op \in 1 .. Len(Stage("main").ops) /\ Len(Stage("main").ops) \in Nat
    /\ pc["main"].at \in 1 .. Len(setup.targets) /\ Len(setup.targets) \in Nat \ {0}
    /\ DOMAIN setup.targets = 1 .. Len(setup.targets)
    /\ Stage("main") = MainProgram[pc["main"].stage]
    /\ Op("main") = Stage("main").ops[pc["main"].op]
    /\ Stage("main").each \/ pc["main"].at = 1
    /\ UndoStage \in {2, 3, 4} /\ UndoStage <= Len(MainProgram) /\ UndoOp \in {1, 2, 4}
    /\ pc["main"].stage = UndoStage => Stage("main").each /\ UndoOp <= Len(Stage("main").ops)
    /\ OneByTarget => UndoStage = 2 /\ Len(MainProgram) = 2 /\ \A i : Turn(i) = i
    /\ Placed(pc["main"].stage, pc["main"].op)
    /\ setup \in Setups
    /\ Item("main") = setup.targets[IF pc["main"].stage = UndoStage THEN Turn(pc["main"].at) ELSE pc["main"].at]
<1> SUFFICES ASSUME TypeIInv
             PROVE  MainPlace!2
  OBVIOUS
<1>1. PlaceOK("main") /\ setup \in Setups /\ DOMAIN setup.targets = 1 .. Len(setup.targets)
  BY Place, SetupOK DEF TypeIInv, TypeOK, Thread
<1>2. /\ UndoStage \in {2, 3, 4} /\ UndoOp \in {1, 2, 4}
      /\ UndoStage \in DOMAIN MainProgram /\ MainProgram[UndoStage].each
      /\ UndoOp \in DOMAIN MainProgram[UndoStage].ops
  BY <1>1 DEF PlaceOK, MainShape, UndoStage, UndoOp
<1>3. OneByTarget => UndoStage = 2 /\ Len(MainProgram) = 2 /\ \A i : Turn(i) = i
  BY <1>1 DEF PlaceOK, MainShape, OneByTarget, UndoStage, Turn, Is, Exec, Hog
<1>4. MainProgram \in Seq(StageType) /\ MainProgram[UndoStage] \in StageType
  BY <1>1, <1>2 DEF PlaceOK, MainShape
<1>5. UndoOp \in 1 .. Len(MainProgram[UndoStage].ops) /\ UndoStage \in 1 .. Len(MainProgram)
  BY <1>2, <1>4 DEF StageType
<1>6. Stage("main") = MainProgram[pc["main"].stage] /\ Op("main") = Stage("main").ops[pc["main"].op]
  BY DEF Stage, Op, Program
<1>7. Item("main") = setup.targets[IF pc["main"].stage = UndoStage THEN Turn(pc["main"].at) ELSE pc["main"].at]
  BY <1>1, <1>6 DEF PlaceOK, Placed, Item, Turn
<1> QED
  BY <1>1, <1>2, <1>3, <1>5, <1>6, <1>7, SMTT(30) DEF PlaceOK, TypeIInv, PcOK, Program, Thread

\* What main's operation tells of its place.
LEMMA MainOp ==
  ASSUME TypeIInv
  PROVE  /\ Op("main") = "undo" <=> pc["main"].stage = UndoStage /\ pc["main"].op = UndoOp
         /\ Op("main") = "apply" =>
              /\ Stage("main").each
              /\ IF OneByTarget THEN pc["main"].stage = 2 /\ pc["main"].op = 1 ELSE pc["main"].stage < UndoStage
         /\ Op("main") = "loop" =>
              /\ Is(Exec)
              /\ Serial => pc["main"].stage = 2 /\ pc["main"].op = 3 /\ UndoOp = 4 /\ pc["main"].op < Len(Stage("main").ops)
              /\ ~Serial => /\ pc["main"].stage = 3 /\ UndoStage = 4 /\ ~OneByTarget
                            /\ ~Stage("main").each /\ pc["main"].op = Len(Stage("main").ops)
         /\ Op("main") = "scaled" => Is({"autoscaler"}) /\ pc["main"].stage = 3 /\ UndoStage = 4 /\ ~OneByTarget
<1>1. Placed(pc["main"].stage, pc["main"].op)
  BY MainPlace
<1>2. Stage("main") = MainProgram[pc["main"].stage] /\ Op("main") = Stage("main").ops[pc["main"].op]
  BY MainPlace
<1>3. Op("main") = "undo" <=> pc["main"].stage = UndoStage /\ pc["main"].op = UndoOp
  BY <1>1, <1>2 DEF Placed
<1>4. Op("main") = "apply" =>
        /\ Stage("main").each
        /\ IF OneByTarget THEN pc["main"].stage = 2 /\ pc["main"].op = 1 ELSE pc["main"].stage < UndoStage
  BY <1>1, <1>2 DEF Placed
<1>5. ASSUME Op("main") = "loop"
      PROVE  /\ Is(Exec)
             /\ Serial => pc["main"].stage = 2 /\ pc["main"].op = 3 /\ pc["main"].op < Len(Stage("main").ops)
             /\ ~Serial => /\ pc["main"].stage = 3 /\ ~Stage("main").each
                           /\ pc["main"].op = Len(Stage("main").ops)
  BY <1>1, <1>2, <1>5 DEF Placed
<1>6. Is(Exec) => /\ Serial => UndoOp = 4
                  /\ ~Serial => UndoStage = 4 /\ ~OneByTarget
  BY DEF Is, Exec, Hog, Versioned, UndoOp, UndoStage, OneByTarget
<1>7. Op("main") = "scaled" => Is({"autoscaler"}) /\ pc["main"].stage = 3
  BY <1>1, <1>2 DEF Placed
<1>8. Is({"autoscaler"}) => UndoStage = 4 /\ ~OneByTarget
  BY DEF Is, Exec, Hog, UndoStage, OneByTarget
<1> QED
  BY <1>3, <1>4, <1>5, <1>6, <1>7, <1>8

\* A move of main that goes on leaves no undo out.
LEMMA PendingMoves ==
  ASSUME TypeIInv, MainMoves, setup' = setup, lib' \in {"running", "aborting"},
         NEW i \in DOMAIN setup.targets, Pending(i)
  PROVE  Pending(i)' \/ (Op("main") = "undo" /\ Turn(i) = pc["main"].at)
<1> DEFINE p == pc["main"]  q == pc'["main"]
<1>1. /\ p.stage \in Nat /\ p.op \in Nat /\ p.at \in Nat
      /\ p.op <= Len(Stage("main").ops) /\ Len(Stage("main").ops) \in Nat
      /\ p.at <= Len(setup.targets) /\ Len(setup.targets) \in Nat
      /\ UndoStage \in {2, 3, 4} /\ UndoOp \in {1, 2, 4}
      /\ p.stage = UndoStage => Stage("main").each /\ UndoOp <= Len(Stage("main").ops)
      /\ OneByTarget => UndoStage = 2 /\ \A j : Turn(j) = j
      /\ Op("main") = "undo" <=> p.stage = UndoStage /\ p.op = UndoOp
  BY MainPlace, MainOp
<1>2. Turn(i) \in 1 .. Len(setup.targets)
  BY MainPlace, TurnOK
<1>3. /\ UndoStage' = UndoStage /\ UndoOp' = UndoOp /\ Turn(i)' = Turn(i)
      /\ OneByTarget' = OneByTarget
  BY Fixed
<1>4. /\ OneByTarget => p.stage = 2 /\ p.at = i /\ p.op <= UndoOp
      /\ ~OneByTarget => \/ p.stage < UndoStage
                         \/ p.stage = UndoStage /\ (p.at < Turn(i) \/ (p.at = Turn(i) /\ p.op <= UndoOp))
  BY DEF Pending
<1>5. /\ OneByTarget /\ q.stage = 2 /\ q.at = i /\ q.op <= UndoOp => Pending(i)'
      /\ ~OneByTarget /\ (\/ q.stage < UndoStage
                          \/ q.stage = UndoStage /\ (q.at < Turn(i) \/ (q.at = Turn(i) /\ q.op <= UndoOp)))
           => Pending(i)'
  BY <1>3 DEF Pending
<1>6. CASE q = p
  BY <1>4, <1>5, <1>6
<1>7. CASE Onward("main")
  <2>1. CASE p.op < Len(Stage("main").ops) /\ Comes("main", p.stage, p.op + 1, p.at)
    <3>1. q.stage = p.stage /\ q.op = p.op + 1 /\ q.at = p.at
      BY <2>1 DEF Comes
    <3> QED
      BY <1>1, <1>2, <1>4, <1>5, <3>1
  <2>2. CASE p.op = Len(Stage("main").ops) /\ p.at < Len(setup.targets) /\ Comes("main", p.stage, 1, p.at + 1)
    <3>1. q.stage = p.stage /\ q.op = 1 /\ q.at = p.at + 1
      BY <2>2 DEF Comes
    <3> QED
      BY <1>1, <1>2, <1>4, <1>5, <2>2, <3>1
  <2>3. CASE p.op = Len(Stage("main").ops) /\ LastTarget("main") /\ Comes("main", p.stage + 1, 1, 1)
             /\ p.stage < Len(Program("main"))
    <3>1. q.stage = p.stage + 1 /\ q.op = 1 /\ q.at = 1
      BY <2>3 DEF Comes
    <3>2. ~Stage("main").each \/ p.at = Len(setup.targets)
      BY <2>3 DEF LastTarget
    <3> QED
      BY <1>1, <1>2, <1>4, <1>5, <2>3, <3>1, <3>2, MainPlace, SMTT(30) DEF Program
  <2> QED
    BY <1>7, <2>1, <2>2, <2>3 DEF Onward
<1>8. CASE Is({"autoscaler"}) /\ Comes("main", p.stage, 1, 1)
  <2>1. q.stage = p.stage /\ q.op = 1 /\ q.at = 1 /\ ~OneByTarget
    BY <1>8 DEF Comes, Is, OneByTarget, Exec, Hog
  <2> QED
    BY <1>1, <1>2, <1>4, <1>5, <2>1
<1>9. CASE Op("main") = "scaled" /\ Comes("main", p.stage + 1, 1, 1)
  <2>1. q.stage = p.stage + 1 /\ q.op = 1 /\ q.at = 1
    BY <1>9 DEF Comes
  <2>2. ~OneByTarget /\ p.stage = 3 /\ UndoStage = 4
    BY <1>9, MainOp
  <2> QED
    BY <1>1, <1>2, <1>4, <1>5, <2>1, <2>2
<1>10. CASE /\ Op("main") = "loop"
            /\ Comes("main", IF p.op = Len(Stage("main").ops) THEN p.stage + 1 ELSE p.stage,
                             IF p.op = Len(Stage("main").ops) THEN 1 ELSE p.op + 1, p.at)
  <2>1. CASE p.op = Len(Stage("main").ops)
    <3>1. q.stage = p.stage + 1 /\ q.op = 1 /\ q.at = p.at
      BY <1>10, <2>1 DEF Comes
    <3>2. ~Serial
      BY <1>10, <2>1, MainOp, MainPlace
    <3>3. Stage("main").each \/ p.at = 1
      BY MainPlace
    <3>4. ~OneByTarget /\ p.stage = 3 /\ UndoStage = 4 /\ p.at = 1
      BY <1>10, <3>2, <3>3, MainOp
    <3> QED
      BY <1>1, <1>2, <1>4, <1>5, <3>1, <3>4
  <2>2. CASE p.op # Len(Stage("main").ops)
    <3>1. q.stage = p.stage /\ q.op = p.op + 1 /\ q.at = p.at
      BY <1>10, <2>2 DEF Comes
    <3> QED
      BY <1>1, <1>2, <1>4, <1>5, <3>1
  <2> QED
    BY <2>1, <2>2
<1> QED
  BY <1>6, <1>7, <1>8, <1>9, <1>10 DEF MainMoves, Ends

\* When main is through, there is none left.
LEMMA PendingThrough ==
  ASSUME TypeIInv, Through, NEW i \in DOMAIN setup.targets, Pending(i)
  PROVE  Op("main") = "undo" /\ Turn(i) = pc["main"].at
<1> DEFINE p == pc["main"]
<1>1. /\ p.stage \in Nat /\ p.op \in Nat /\ p.at \in Nat /\ p.stage <= Len(MainProgram)
      /\ p.op <= Len(Stage("main").ops) /\ Len(Stage("main").ops) \in Nat
      /\ p.at <= Len(setup.targets) /\ Len(setup.targets) \in Nat /\ Len(MainProgram) \in Nat
      /\ UndoStage \in {2, 3, 4} /\ UndoOp \in {1, 2, 4} /\ UndoStage <= Len(MainProgram)
      /\ p.stage = UndoStage => Stage("main").each /\ UndoOp <= Len(Stage("main").ops)
      /\ OneByTarget => UndoStage = 2 /\ \A j : Turn(j) = j
      /\ Op("main") = "undo" <=> p.stage = UndoStage /\ p.op = UndoOp
  BY MainPlace, MainOp
<1>2. Turn(i) \in 1 .. Len(setup.targets)
  BY MainPlace, TurnOK
<1>3. /\ OneByTarget => p.stage = 2 /\ p.at = i /\ p.op <= UndoOp
      /\ ~OneByTarget => \/ p.stage < UndoStage
                         \/ p.stage = UndoStage /\ (p.at < Turn(i) \/ (p.at = Turn(i) /\ p.op <= UndoOp))
  BY DEF Pending
<1>4. /\ p.op = Len(Stage("main").ops)
      /\ \/ (~Stage("main").each \/ p.at = Len(setup.targets)) /\ p.stage = Len(MainProgram)
         \/ OneByTarget
  BY DEF Through, LastTarget, OneByTarget, TypeIInv, PartsOK
<1> QED
  BY <1>1, <1>2, <1>3, <1>4

----------------------------------------------------------------------------
(* What a step does to the objects *)

\* An object that changes gets another version.
LEMMA VersionsGrow ==
  ASSUME TypeIInv, Next, NEW y \in Target
  PROVE  object'[y] = object[y] \/ object'[y].version = object[y].version + 1
<1>1. object \in [Target -> Object]
  BY DEF TypeIInv, IInv, ObjectsOK
<1>2. ASSUME NEW x, NEW chaos, object' = Put(x, chaos) PROVE object'[y] = object[y] \/ object'[y].version = object[y].version + 1
  BY <1>1, <1>2 DEF Put, Object
<1>3. ASSUME NEW t \in Thread, NEW x, NEW chaos, object' = Written(t, x, chaos)
      PROVE object'[y] = object[y] \/ object'[y].version = object[y].version + 1
  BY <1>1, <1>3 DEF Written, Object
<1>4. ASSUME NEW t \in Thread, NEW x, NEW chaos, Update(t, x, chaos) \/ Request(t, x, chaos)
      PROVE object'[y] = object[y] \/ object'[y].version = object[y].version + 1
  BY <1>2, <1>3, <1>4 DEF Update, Request
<1>5. ASSUME NEW t \in Thread, Undo(t)
      PROVE object'[y] = object[y] \/ object'[y].version = object[y].version + 1
  BY <1>4, <1>5 DEF Undo
<1>6. CASE Apply
  BY <1>4, <1>6 DEF Apply, Thread
<1>7. CASE \/ Watch \/ Select \/ Call \/ Verify \/ Scaled \/ Listen \/ ReceiveSignal \/ TimeIsUp
           \/ (\E x \in Target : ReceiveResult(x)) \/ Look \/ Exit \/ Signal
  BY <1>7 DEF Watch, Select, Call, Verify, Scaled, Listen, ReceiveSignal, TimeIsUp, ReceiveResult, Look, Exit,
              Signal, Local, objectVars
<1>8. ASSUME NEW t \in Thread, Get(t) \/ Mark(t) \/ Confirm(t) PROVE object'[y] = object[y]
  BY <1>8 DEF Get, Mark, Confirm, Local
<1>9. ASSUME NEW x \in Target, Edit(x) PROVE object'[y] = object[y] \/ object'[y].version = object[y].version + 1
  BY <1>1, <1>9 DEF Edit, Object
<1>10. ASSUME NEW x \in Target, StressStarts(x) \/ StressReturns(x)
       PROVE object'[y] = object[y] \/ object'[y].version = object[y].version + 1
  BY <1>2, <1>10 DEF StressStarts, StressReturns
<1> QED
  BY <1>5, <1>6, <1>7, <1>8, <1>9, <1>10 DEF Next, Main, Watcher, Environment, Operation, Thread

\* Copies keep to their versions.
LEMMA CopiesStep ==
  ASSUME TypeIInv, CopiesSame, Next
  PROVE  CopiesSame'
<1> SUFFICES ASSUME NEW t \in Thread, NEW y \in Target, copy'[t][y].version = object'[y].version
             PROVE  copy'[t][y].chaos = object'[y].chaos
  BY DEF CopiesSame
<1>1. /\ object'[y] = object[y] \/ object'[y].version = object[y].version + 1
      /\ copy'[t][y] = copy[t][y] \/ copy'[t][y] = object[y]
  BY VersionsGrow, OneStep DEF DataKept
<1>2. /\ copy[t][y].version <= object[y].version
      /\ copy[t][y].version \in Nat /\ object[y].version \in Nat
      /\ copy[t][y].version = object[y].version => copy[t][y].chaos = object[y].chaos
  BY DEF TypeIInv, IInv, CopiesOK, ObjectsOK, Object, CopiesSame
<1> QED
  BY <1>1, <1>2

\* What an update or a request leaves: the state asked for, or an error.
LEMMA UpdateChaos ==
  ASSUME TypeIInv, NEW t \in Thread, NEW x \in Target, NEW chaos \in BOOLEAN,
         Update(t, x, chaos) \/ Request(t, x, chaos)
  PROVE  /\ \A y \in Target \ {x} : object'[y] = object[y]
         /\ object'[x].chaos = object[x].chaos \/ object'[x].chaos = chaos
<1>1. object \in [Target -> Object]
  BY DEF TypeIInv, IInv, ObjectsOK
<1>2. object' = object \/ object' = Put(x, chaos) \/ object' = Written(t, x, chaos)
  BY DEF Update, Request
<1>3. CASE object' = Put(x, chaos)
  BY <1>1, <1>3 DEF Put, Object
<1>4. CASE object' = Written(t, x, chaos)
  BY <1>1, <1>4 DEF Written
<1> QED
  BY <1>2, <1>3, <1>4

\* Only main makes a target live, when it applies its chaos.
LEMMA LiveStep ==
  ASSUME TypeIInv, Next, NEW y \in Target, Live(y)'
  PROVE  Live(y) \/ (Apply /\ y = Item("main"))
<1>1. object \in [Target -> Object] /\ stress \in [Target -> StressStates]
  BY DEF TypeIInv, IInv, ObjectsOK, TypeOK, StressStates
<1>2. \A t \in Thread : Item(t) \in Target
  BY Place DEF PlaceOK, TypeIInv
<1>3. ASSUME NEW t \in Thread, Undo(t) PROVE Live(y)
  <2>1. object'[y].chaos = object[y].chaos \/ object'[y].chaos = FALSE
    BY <1>2, <1>3, UpdateChaos DEF Undo
  <2> QED
    BY <1>3, <2>1 DEF Undo, execVars, Live
<1>4. CASE Apply /\ y # Item("main")
  <2>1. stress'[y] = stress[y] /\ object'[y] = object[y]
    <3>1. CASE Is(Exec)
      BY <1>1, <1>2, <1>4, <3>1 DEF Apply
    <3>2. CASE ~Is(Exec)
      BY <1>2, <1>4, <3>2, UpdateChaos DEF Apply, execVars, Thread
    <3> QED
      BY <3>1, <3>2
  <2> QED
    BY <2>1 DEF Live
<1>5. CASE \/ Watch \/ Select \/ Call \/ Verify \/ Scaled \/ Listen \/ ReceiveSignal \/ TimeIsUp
           \/ Look \/ Exit \/ Signal
  BY <1>5 DEF Watch, Select, Call, Verify, Scaled, Listen, ReceiveSignal, TimeIsUp, Look, Exit,
              Signal, Local, objectVars, execVars, Live
<1>6. ASSUME NEW t \in Thread, Get(t) \/ Mark(t) \/ Confirm(t) PROVE Live(y)
  BY <1>6 DEF Get, Mark, Confirm, Local, execVars, Live
<1>7. ASSUME NEW x \in Target, ReceiveResult(x) PROVE Live(y)
  BY <1>1, <1>7 DEF ReceiveResult, Live
<1>8. ASSUME NEW x \in Target, Edit(x) PROVE Live(y)
  BY <1>1, <1>8 DEF Edit, execVars, Live, Object
<1>9. ASSUME NEW x \in Target, StressStarts(x) PROVE Live(y)
  <2>1. CASE x = y
    BY <1>9, <2>1 DEF StressStarts, Live
  <2>2. CASE x # y
    BY <1>1, <1>9, <2>2 DEF StressStarts, Live, Put, Object
  <2> QED
    BY <2>1, <2>2
<1>10. ASSUME NEW x \in Target, StressReturns(x) PROVE Live(y)
  <2>1. stress'[y] = "starting" => stress[y] = "starting"
    BY <1>1, <1>10 DEF StressReturns, Results
  <2>2. object'[y].chaos => object[y].chaos
    <3>1. object' = object \/ object' = Put(x, FALSE)
      BY <1>10 DEF StressReturns
    <3> QED
      BY <1>1, <3>1 DEF Put, Object
  <2> QED
    BY <2>1, <2>2 DEF Live
<1> QED
  BY <1>3, <1>4, <1>5, <1>6, <1>7, <1>8, <1>9, <1>10 DEF Next, Main, Watcher, Environment, Operation, Thread

\* The target in turn is not live after the step.
Cleared == \A x \in Target : x = Item("main") => x \in excused' \/ ~Live(x)'

\* The undo of main, if nothing interferes: the target is not live, or main has not gone on.
LEMMA UndoOutcome ==
  ASSUME TypeIInv, CopiesSame, CopyFresh, Alone, Undo("main")
  PROVE  \/ Go("main") /\ Cleared
         \/ Error("main") /\ (lib = "aborting" => Rest("main") \subseteq excused')
         \/ Retries("main") /\ Retry("main")
<1> DEFINE x == Item("main")
<1>1. x \in Target /\ "main" \in Thread /\ object \in [Target -> Object] /\ copy \in [Thread -> [Target -> Object]]
  BY Place DEF PlaceOK, TypeIInv, IInv, ObjectsOK, Thread
<1>2. UNCHANGED <<copy, stress>> /\ Op("main") = "undo" /\ lib \in {"running", "aborting"}
  BY DEF Undo, Does, At, Running, execVars
<1>3. ErrorExcused("main") => Error("main") /\ (lib = "aborting" => Rest("main") \subseteq excused')
  BY DEF ErrorExcused, Excuse, LastAttempt
<1>4. CASE Is(Versioned) /\ Update("main", x, FALSE)
  <2>1. stress[x] # "starting"
    BY <1>1, <1>4 DEF TypeIInv, PartsOK, Is, Versioned, Exec, Hog
  <2>2. ASSUME Accepts("main", x) \/ (Is({"taint"}) /\ copy["main"][x].chaos = FALSE),
               object' = Written("main", x, FALSE)
        PROVE  ~object'[x].chaos
    <3>1. CASE copy["main"][x].chaos = FALSE
      <4>1. object' = object
        BY <2>2, <3>1 DEF Written
      <4>2. CASE Accepts("main", x)
        BY <1>1, <3>1, <4>1, <4>2 DEF Accepts, CopiesSame
      <4>3. CASE Is({"taint"})
        <5>1. ~signal /\ lib = "running"
          BY <1>2, <4>3 DEF Alone, Is, Exec, Hog, TypeIInv, PartsOK
        <5> QED
          BY <1>2, <3>1, <4>1, <4>3, <5>1 DEF CopyFresh
      <4> QED
        BY <2>2, <4>2, <4>3
    <3>2. CASE copy["main"][x].chaos # FALSE
      BY <1>1, <2>2, <3>2 DEF Written
    <3> QED
      BY <3>1, <3>2
  <2>3. Succeeds("main", x, FALSE) => Go("main") \/ ErrorExcused("main")
    BY DEF Succeeds, GoOrError
  <2> QED
    BY <1>2, <1>3, <1>4, <2>1, <2>2, <2>3 DEF Update, Live, Cleared
<1>5. CASE ~Is(Versioned) /\ stress[x] # "starting" /\ Request("main", x, FALSE)
  <2>1. object' = Put(x, FALSE) => ~object'[x].chaos
    BY <1>1 DEF Put, Object
  <2>2. Succeeds("main", x, FALSE) => Go("main") \/ ErrorExcused("main")
    BY DEF Succeeds, GoOrError
  <2> QED
    BY <1>2, <1>3, <1>5, <2>1, <2>2 DEF Request, Live, Cleared
<1>6. CASE ErrorExcused("main")
  BY <1>3, <1>6
<1>7. CASE Go("main") /\ Excuse({x})
  BY <1>7 DEF Excuse, Cleared
<1>8. CASE Error("main") /\ Excuse(IF LastAttempt("main") THEN Rest("main") ELSE {x})
  BY <1>8 DEF Excuse, LastAttempt
<1> QED
  BY <1>4, <1>5, <1>6, <1>7, <1>8 DEF Undo

\* The outcome of a step of main.
LEMMA MainOutcome ==
  ASSUME TypeIInv, CopiesSame, CopyFresh, Alone, Main
  PROVE  \/ Go("main") /\ (Op("main") = "undo" => Cleared)
         \/ /\ Error("main") /\ (lib = "aborting" => Rest("main") \subseteq excused')
            /\ Op("main") \in {"apply", "mark"} => ~Is(Exec)
         \/ Retries("main") /\ Retry("main")
         \/ lib' = "stopped"
         \/ Op("main") = "scaled" /\ lib' = lib /\ Comes("main", pc["main"].stage + 1, 1, 1)
         \/ ReceiveSignal
         \/ \E x \in Target : ReceiveResult(x)
<1>1. /\ Placed(pc["main"].stage, pc["main"].op) /\ Op("main") = MainProgram[pc["main"].stage].ops[pc["main"].op]
      /\ lib = "aborting" => Is(Exec)
  BY MainPlace DEF TypeIInv, PartsOK
<1>2. ErrorExcused("main") => Error("main") /\ (lib = "aborting" => Rest("main") \subseteq excused')
  BY DEF ErrorExcused, Excuse, LastAttempt
<1>3. CASE Get("main")
  BY <1>2, <1>3 DEF Get, Does, At
<1>4. CASE Undo("main")
  BY <1>4, UndoOutcome DEF Undo, Does, At
<1>5. CASE Mark("main") \/ Watch \/ Listen \/ TimeIsUp
  BY <1>5 DEF Mark, Watch, Listen, TimeIsUp, Local, Does, At
<1>6. CASE Confirm("main") \/ Verify
  <2>1. Go("main") \/ Error("main")
    BY <1>6 DEF Confirm, Verify
  <2>2. Op("main") \in {"confirm", "verify"}
    BY <1>6 DEF Confirm, Verify, Local, Does, At
  <2>3. lib # "aborting"
    BY <1>1, <2>2 DEF Placed
  <2> QED
    BY <2>1, <2>2, <2>3
<1>7. CASE Apply
  <2>1. Op("main") = "apply"
    BY <1>7 DEF Apply, Does, At
  <2>2. CASE Is(Exec)
    BY <1>7, <2>1, <2>2 DEF Apply
  <2>3. CASE ~Is(Exec)
    <3>1. Update("main", Item("main"), TRUE) \/ Request("main", Item("main"), TRUE)
      BY <1>7, <2>3 DEF Apply
    <3>2. Go("main") \/ Error("main") \/ (Retries("main") /\ Retry("main"))
      BY <1>2, <3>1 DEF Update, Request, Succeeds, Injected, Unanswered
    <3> QED
      BY <1>1, <2>1, <2>3, <3>2
  <2> QED
    BY <2>2, <2>3
<1>8. CASE Select
  BY <1>8 DEF Select, Local, Does, At, End
<1>9. CASE Call
  BY <1>2, <1>9 DEF Call, Local, Does, At, GoOrError
<1>10. CASE Scaled
  <2>1. Op("main") = "scaled" /\ Is({"autoscaler"})
    BY <1>10, MainOp DEF Scaled, Does, At
  <2>2. PcOK /\ pc["main"].stage + 1 \in Nat
    BY DEF TypeIInv, PcOK, Thread
  <2>3. CASE Go("main") \/ Error("main")
    BY <1>1, <2>1, <2>3 DEF Is, Exec, Hog
  <2>4. CASE Goto("main", pc["main"].stage + 1, 1, 1) /\ lib' = lib
    BY <2>1, <2>2, <2>4, GotoMoves DEF Thread
  <2> QED
    BY <1>10, <2>3, <2>4 DEF Scaled
<1> QED
  BY <1>3, <1>4, <1>5, <1>6, <1>7, <1>8, <1>9, <1>10 DEF Main, Operation

----------------------------------------------------------------------------
(* Main takes back what it has done *)

\* The histories only grow, and the experiment stays.
LEMMA ExcusedGrow ==
  ASSUME TypeIInv, Next
  PROVE  /\ excused \subseteq excused' /\ unanswered \subseteq unanswered' /\ Targets' = Targets /\ setup' = setup
         /\ (signal => signal') /\ excused' \subseteq Targets /\ (Alone' => Alone)
<1>1. setup' = setup /\ Targets' = Targets /\ \A kinds : Is(kinds)' = Is(kinds)
  BY OneStep, Fixed
<1>2. excused' \subseteq Targets
  BY OneStep, <1>1 DEF DataKept, HistoryType
<1>3. excused \subseteq excused' /\ unanswered \subseteq unanswered'
  <2>1. ASSUME NEW t \in Thread, Operation(t) \/ (t = "main" /\ (Apply \/ Call)) \/ (t = "watcher" /\ Look)
        PROVE  excused \subseteq excused'
    BY <2>1, OperationHistory DEF TypeIInv
  <2>2. CASE Watch \/ Select \/ Verify \/ Scaled \/ Listen \/ ReceiveSignal \/ TimeIsUp \/ Exit \/ Signal
    BY <2>2 DEF Watch, Select, Verify, Scaled, Listen, ReceiveSignal, TimeIsUp, Exit, Signal, history
  <2>3. ASSUME NEW x \in Target, ReceiveResult(x) \/ Edit(x) \/ StressStarts(x) \/ StressReturns(x)
        PROVE UNCHANGED history
    BY <2>3 DEF ReceiveResult, Edit, StressStarts, StressReturns
  <2>4. ASSUME NEW t \in Thread, Get(t) \/ Mark(t) \/ Confirm(t) \/ Call \/ Look PROVE UNCHANGED unanswered
    BY <2>4 DEF Get, Mark, Confirm, Call, Look, Local, history, ErrorExcused, GoOrError, Excuse
  <2>5. ASSUME NEW t \in Thread, NEW x, NEW chaos \in BOOLEAN, Update(t, x, chaos) \/ Request(t, x, chaos)
        PROVE unanswered \subseteq unanswered'
    BY <2>5 DEF Update, Request, Succeeds, Injected, Unanswered, history, ErrorExcused, GoOrError, Excuse
  <2>6. ASSUME NEW t \in Thread, Undo(t) PROVE unanswered \subseteq unanswered'
    BY <2>5, <2>6 DEF Undo, ErrorExcused, Excuse
  <2>7. CASE Apply
    <3>1. excused \subseteq excused'
      BY <2>1, <2>7 DEF Thread
    <3>2. CASE Is(Exec)
      BY <2>7, <3>1, <3>2 DEF Apply, history
    <3>3. CASE ~Is(Exec)
      <4>1. Update("main", Item("main"), TRUE) \/ Request("main", Item("main"), TRUE)
        BY <2>7, <3>3 DEF Apply
      <4> QED
        BY <2>5, <3>1, <4>1 DEF Thread
    <3> QED
      BY <3>2, <3>3
  <2>8. Main => (excused \subseteq excused' /\ unanswered \subseteq unanswered')
    BY <2>1, <2>2, <2>3, <2>4, <2>6, <2>7 DEF Main, Operation, Thread, history
  <2>9. Watcher => (excused \subseteq excused' /\ unanswered \subseteq unanswered')
    BY <2>1, <2>2, <2>4, <2>6 DEF Watcher, Operation, Thread, history
  <2>10. Environment => (excused \subseteq excused' /\ unanswered \subseteq unanswered')
    BY <2>2, <2>3 DEF Environment, history
  <2> QED
    BY <2>8, <2>9, <2>10 DEF Next
<1>4. signal => signal'
  BY OneStep, MainStep, WatcherStep DEF Exit, Environment, Signal, Edit, StressStarts, StressReturns, TypeIInv
<1> QED
  BY <1>1, <1>2, <1>3, <1>4 DEF Alone

\* The applied chaos will be undone.
LEMMA ApplyPending ==
  ASSUME TypeIInv, Apply, MainMoves, setup' = setup, lib' \in {"running", "aborting"}
  PROVE  \E i \in DOMAIN setup.targets : setup.targets[i] = Item("main") /\ Pending(i)'
<1>1. Op("main") = "apply"
  BY DEF Apply, Does, At
<1>2. /\ Stage("main").each /\ (IF OneByTarget THEN pc["main"].stage = 2 /\ pc["main"].op = 1 ELSE pc["main"].stage < UndoStage)
      /\ pc["main"].at \in DOMAIN setup.targets
      /\ Item("main") = setup.targets[IF pc["main"].stage = UndoStage THEN Turn(pc["main"].at) ELSE pc["main"].at]
      /\ OneByTarget => \A i : Turn(i) = i
      /\ pc["main"].stage \in Nat /\ UndoStage \in Nat /\ UndoOp \in {1, 2, 4}
  BY <1>1, MainPlace, MainOp
<1>3. Item("main") = setup.targets[pc["main"].at]
  BY <1>2
<1>4. Pending(pc["main"].at)
  BY <1>2 DEF Pending
<1>5. PICK i \in DOMAIN setup.targets : i = pc["main"].at
  BY <1>2
<1>6. Pending(i)'
  BY <1>1, <1>2, <1>4, <1>5, PendingMoves
<1> QED
  BY <1>3, <1>5, <1>6

\* What is live will be undone.
LEMMA ToUndoMain ==
  ASSUME TypeIInv, CopiesSame, CopyFresh, ToUndo, Main, MainMoves
  PROVE  ToUndo'
<1>0. /\ Next /\ setup' = setup /\ signal' = signal /\ excused \subseteq excused' /\ Targets' = Targets
      /\ lib \in {"running", "aborting"} /\ (Alone' => Alone)
  BY MainStep, ExcusedGrow DEF Next, TypeIInv
<1> SUFFICES ASSUME Alone, lib' \in {"running", "aborting"}, NEW x \in Targets \ excused', Live(x)'
             PROVE  \E i \in DOMAIN setup.targets : setup.targets[i] = x /\ Pending(i)'
  BY <1>0 DEF ToUndo, NotExcused, Active
<1>1. x \in Targets \ excused /\ x \in Target
  BY <1>0, Place DEF TypeIInv, PlaceOK, Thread
<1>2. CASE Apply /\ x = Item("main")
  BY <1>0, <1>2, ApplyPending
<1>3. CASE ~(Apply /\ x = Item("main"))
  <2>1. Live(x)
    BY <1>0, <1>1, <1>3, LiveStep
  <2>2. PICK i \in DOMAIN setup.targets : setup.targets[i] = x /\ Pending(i)
    BY <1>0, <1>1, <2>1 DEF ToUndo, NotExcused, Active
  <2>3. CASE Op("main") = "undo" /\ Turn(i) = pc["main"].at
    <3>1. x = Item("main")
      BY <2>2, <2>3, MainPlace, MainOp, TurnOK
    <3>2. ~Cleared
      BY <1>1, <3>1 DEF Cleared
    <3>3. CASE Retries("main") /\ Retry("main")
      <4>1. Is({"autoscaler"}) /\ Comes("main", pc["main"].stage, 1, 1)
        BY <3>3, GotoMoves, MainPlace DEF Retries, Retry, TypeIInv, PcOK, Thread
      <4>2. pc'["main"].stage = UndoStage /\ pc'["main"].op = 1 /\ pc'["main"].at = 1 /\ ~OneByTarget
        BY <2>3, <4>1, MainOp DEF Comes, Is, OneByTarget, Exec, Hog
      <4>3. Turn(i) \in 1 .. Len(setup.targets) /\ UndoOp \in {1, 2, 4}
        BY TurnOK, MainPlace
      <4>4. /\ UndoStage' = UndoStage /\ UndoOp' = UndoOp /\ Turn(i)' = Turn(i) /\ OneByTarget' = OneByTarget
        BY <1>0, Fixed
      <4>5. Pending(i)'
        BY <4>2, <4>3, <4>4 DEF Pending
      <4> QED
        BY <2>2, <4>5
    <3>4. ~Error("main") /\ lib' # "stopped"
      BY <1>0, EndMoves DEF Error, Ends
    <3>5. ~ReceiveSignal /\ ~\E y \in Target : ReceiveResult(y)
      BY <2>3 DEF ReceiveSignal, ReceiveResult, Does, At
    <3> QED
      BY <2>3, <3>2, <3>3, <3>4, <3>5, MainOutcome
  <2>4. CASE ~(Op("main") = "undo" /\ Turn(i) = pc["main"].at)
    BY <1>0, <2>2, <2>4, PendingMoves
  <2> QED
    BY <2>3, <2>4
<1> QED
  BY <1>2, <1>3

\* The steps of others bring nothing about that main does not come to undo.
LEMMA ToUndoOther ==
  ASSUME TypeIInv, ToUndo, Next, pc'["main"] = pc["main"], lib' \in {"running", "aborting"} => lib' = lib, ~Apply
  PROVE  ToUndo'
<1>0. /\ setup' = setup /\ excused \subseteq excused' /\ Targets' = Targets /\ (Alone' => Alone)
  BY ExcusedGrow
<1>1. \A i : Pending(i) => Pending(i)'
  <2>1. UndoStage' = UndoStage /\ UndoOp' = UndoOp /\ OneByTarget' = OneByTarget /\ \A i : Turn(i)' = Turn(i)
    BY <1>0, Fixed
  <2> QED
    BY <2>1 DEF Pending
<1>2. Targets \subseteq Target
  BY Place DEF TypeIInv, PlaceOK, Thread
<1> SUFFICES ASSUME Alone, lib' \in {"running", "aborting"}, NEW x \in Targets \ excused', Live(x)'
             PROVE  \E i \in DOMAIN setup.targets : setup.targets[i] = x /\ Pending(i)'
  BY <1>0 DEF ToUndo, NotExcused, Active
<1> QED
  BY <1>0, <1>1, <1>2, LiveStep DEF ToUndo, NotExcused, Active

\* Main's place after a move.
LEMMA NextMainPlace == (TypeIInv => MainPlace!2)'
  BY MainPlace, PTL

\* Which action an operation is.
LEMMA OpAction ==
  ASSUME Main
  PROVE  /\ Op("main") = "get" => Get("main")
         /\ Op("main") = "undo" => Undo("main")
         /\ Op("main") \in {"mark", "unmark"} => Mark("main")
         /\ Op("main") = "apply" => Apply
         /\ Apply => Op("main") = "apply"
  BY DEF Main, Operation, Get, Undo, Mark, Confirm, Apply, Watch, Select, Call, Verify, Scaled, Listen,
         ReceiveSignal, TimeIsUp, ReceiveResult, Local, Does, At

\* Main stays where it is in its loop only, or when it begins again.
LEMMA StaysInLoop ==
  ASSUME TypeIInv, MainMoves, lib' \in {"running", "aborting"}, pc' = pc
  PROVE  (Op("main") = "loop" \/ pc["main"].op = 1) /\ lib' = lib
<1>1. pc["main"].op \in Nat /\ pc["main"].stage \in Nat /\ pc["main"].at \in Nat
  BY MainPlace
<1>2. ~Onward("main")
  BY <1>1 DEF Onward, Comes
<1>3. ~Comes("main", pc["main"].stage + 1, 1, 1)
  BY <1>1 DEF Comes
<1>4. Comes("main", pc["main"].stage, 1, 1) => pc["main"].op = 1
  BY DEF Comes
<1>5. ~Comes("main", IF pc["main"].op = Len(Stage("main").ops) THEN pc["main"].stage + 1 ELSE pc["main"].stage,
                     IF pc["main"].op = Len(Stage("main").ops) THEN 1 ELSE pc["main"].op + 1, pc["main"].at)
  BY <1>1 DEF Comes
<1> QED
  BY <1>2, <1>3, <1>4, <1>5 DEF MainMoves, Ends

\* Main inside of a stage comes from the operation before.
LEMMA LaterOp ==
  ASSUME TypeIInv, MainMoves, setup' = setup, lib' \in {"running", "aborting"}, pc'["main"].op # 1, pc' # pc
  PROVE  /\ pc["main"].op < Len(Stage("main").ops)
         /\ pc'["main"].stage = pc["main"].stage /\ pc'["main"].op = pc["main"].op + 1
         /\ pc'["main"].at = pc["main"].at
         /\ lib' = lib \/ Op("main") = "loop"
<1>1. CASE Onward("main")
  BY <1>1 DEF Onward, Comes, MainMoves, Ends
<1>2. CASE /\ Op("main") = "loop"
           /\ Comes("main", IF pc["main"].op = Len(Stage("main").ops) THEN pc["main"].stage + 1 ELSE pc["main"].stage,
                            IF pc["main"].op = Len(Stage("main").ops) THEN 1 ELSE pc["main"].op + 1, pc["main"].at)
  BY <1>2, MainPlace DEF Comes
<1> QED
  BY <1>1, <1>2 DEF MainMoves, Ends, Comes

\* Where the item of main is in the next state.
LEMMA NextItem ==
  ASSUME TypeIInv', setup' = setup
  PROVE  Item("main")' = setup.targets[IF pc'["main"].stage = UndoStage THEN Turn(pc'["main"].at) ELSE pc'["main"].at]
<1>1. UndoStage' = UndoStage /\ Turn(pc["main"].at)' = Turn(pc'["main"].at)
  BY Fixed DEF Turn, Is
<1> QED
  BY <1>1, NextMainPlace

\* Between its undo and its record a target is not live.
LEMMA UndoneMain ==
  ASSUME TypeIInv, TypeIInv', CopiesSame, CopyFresh, Undone, Main, MainMoves
  PROVE  Undone'
<1>0. /\ Next /\ setup' = setup /\ excused \subseteq excused' /\ lib \in {"running", "aborting"} /\ (Alone' => Alone)
      /\ UndoStage' = UndoStage /\ UndoOp' = UndoOp
  BY MainStep, ExcusedGrow, Fixed DEF Next, TypeIInv
<1> SUFFICES ASSUME Alone, lib' \in {"running", "aborting"}, pc'["main"].stage = UndoStage, pc'["main"].op > UndoOp,
                    NEW x, x = Item("main")', x \notin excused'
             PROVE  ~Live(x)'
  BY <1>0 DEF Undone, Active, Live
<1>1. UndoOp \in {1, 2, 4} /\ pc["main"].op \in Nat /\ pc["main"].stage \in Nat /\ pc'["main"].op \in Nat
  BY MainPlace, SMTT(30) DEF MainMoves, OneMoves, Thread
<1>2. pc' # pc
  <2>1. ASSUME pc' = pc PROVE FALSE
    <3>1. pc["main"].stage = UndoStage /\ pc["main"].op > UndoOp /\ Op("main") = "loop"
      BY <1>0, <1>1, <2>1, StaysInLoop
    <3> QED
      BY <1>1, <3>1, MainOp DEF UndoStage, OneByTarget
  <2> QED
    BY <2>1
<1>3. /\ pc["main"].op < Len(Stage("main").ops) /\ pc["main"].stage = UndoStage /\ pc["main"].op >= UndoOp
      /\ pc'["main"].op = pc["main"].op + 1 /\ pc'["main"].at = pc["main"].at
  BY <1>0, <1>1, <1>2, LaterOp
<1>4. x = Item("main") /\ x \in Target
  BY <1>0, <1>3, NextItem, MainPlace, Place DEF PlaceOK, TypeIInv, Thread
<1>5. CASE pc["main"].op = UndoOp
  <2>1. Op("main") = "undo"
    BY <1>3, <1>5, MainPlace DEF Placed
  <2>2. Cleared => ~Live(x)'
    BY <1>4 DEF Cleared
  <2>3. ~Error("main") /\ lib' # "stopped"
    BY <1>0, EndMoves DEF Error, Ends
  <2>4. ~ReceiveSignal /\ ~\E y \in Target : ReceiveResult(y)
    BY <2>1 DEF ReceiveSignal, ReceiveResult, Does, At
  <2>5. ~Retry("main")
    BY <1>1, GotoMoves DEF Retry, TypeIInv, PcOK, Thread, Comes
  <2> QED
    BY <2>1, <2>2, <2>3, <2>4, <2>5, MainOutcome
<1>6. CASE pc["main"].op > UndoOp
  <2>1. ~Live(x)
    BY <1>0, <1>3, <1>4, <1>6 DEF Undone, Active
  <2>2. Op("main") # "apply"
    BY <1>1, <1>3, <1>6, MainPlace DEF Placed
  <2> QED
    BY <1>0, <1>4, <2>1, <2>2, LiveStep, OpAction
<1> QED
  BY <1>1, <1>3, <1>5, <1>6

\* The steps of others do not, either.
LEMMA UndoneOther ==
  ASSUME TypeIInv, TypeIInv', Undone, Next, pc'["main"] = pc["main"], lib' \in {"running", "aborting"} => lib' = lib, ~Apply
  PROVE  Undone'
<1>0. /\ setup' = setup /\ excused \subseteq excused' /\ (Alone' => Alone)
      /\ UndoStage' = UndoStage /\ UndoOp' = UndoOp
  BY ExcusedGrow, Fixed
<1>1. Item("main")' = Item("main") /\ Item("main") \in Target
  BY <1>0, NextItem, MainPlace, Place, SMTT(30) DEF PlaceOK, TypeIInv, Thread
<1> SUFFICES ASSUME Alone, lib' \in {"running", "aborting"}, pc'["main"].stage = UndoStage, pc'["main"].op > UndoOp,
                    NEW x, x = Item("main")', x \notin excused'
             PROVE  ~Live(x)'
  BY <1>0 DEF Undone, Active, Live
<1>2. ~Live(x)
  BY <1>0, <1>1 DEF Undone, Active
<1> QED
  BY <1>1, <1>2, LiveStep

\* Main comes to its undo.
LEMMA NextUndo ==
  ASSUME TypeIInv', setup' = setup
  PROVE  Op("main")' = "undo" <=> pc'["main"].stage = UndoStage /\ pc'["main"].op = UndoOp
<1>1. UndoStage' = UndoStage /\ UndoOp' = UndoOp
  BY Fixed
<1> QED
  BY <1>1, NextMainPlace, ZenonT(40) DEF Placed

\* What the watcher and the environment leave to main.
LEMMA OtherStep ==
  ASSUME TypeIInv, Watcher \/ Environment
  PROVE  /\ pc'["main"] = pc["main"] /\ tries'["main"] = tries["main"]
         /\ lib' = lib \/ (Exit /\ lib' = "aborted")
         /\ Watcher => signal /\ watching /\ UNCHANGED <<execVars, signal, watching>>
<1>1. CASE Operation("watcher") \/ Look
  <2>1. WatcherMoves /\ lib' = lib
    BY <1>1, WatcherStep DEF TypeIInv
  <2>2. signal /\ watching /\ UNCHANGED <<execVars, signal, watching>>
    BY <1>1 DEF Operation, Get, Undo, Mark, Confirm, Look, Local, Does, At, Running, Reverting
  <2>3. Environment => pc' = pc /\ tries' = tries /\ lib' = lib
    BY DEF Environment, Signal, Edit, StressStarts, StressReturns, threadVars
  <2> QED
    BY <2>1, <2>2, <2>3 DEF WatcherMoves, OneMoves, Thread
<1>2. CASE Exit
  BY <1>2 DEF Exit, Reverting
<1>3. CASE Environment /\ ~Watcher
  BY <1>3 DEF Environment, Signal, Edit, StressStarts, StressReturns, threadVars
<1> QED
  BY <1>1, <1>2, <1>3 DEF Watcher

\* Without a signal, main undoes a taint right after it has read the node.
LEMMA CopyFreshMain ==
  ASSUME TypeIInv, TypeIInv', Main, MainMoves
  PROVE  CopyFresh'
<1>0. /\ Next /\ setup' = setup /\ lib \in {"running", "aborting"}
      /\ UndoStage' = UndoStage /\ UndoOp' = UndoOp /\ \A kinds : Is(kinds)' = Is(kinds)
  BY MainStep, Fixed DEF Next, TypeIInv
<1> SUFFICES ASSUME lib' = "running", Is({"taint"}), Op("main")' = "undo", NEW x, x = Item("main")'
             PROVE  copy'["main"][x].chaos = object'[x].chaos
  BY <1>0 DEF CopyFresh
<1>1. pc'["main"].stage = 4 /\ pc'["main"].op = 2 /\ UndoStage = 4 /\ UndoOp = 2
  BY <1>0, NextUndo DEF UndoStage, UndoOp, OneByTarget, Is, Exec, Hog, Versioned
<1>2. pc' # pc
  <2>1. Op("main") # "loop"
    BY MainPlace DEF Placed, Is, Exec, Hog
  <2> QED
    BY <1>1, <2>1, StaysInLoop
<1>3. /\ pc["main"].stage = 4 /\ pc["main"].op = 1 /\ pc'["main"].at = pc["main"].at
  BY <1>0, <1>1, <1>2, LaterOp, MainPlace
<1>4. Op("main") = "get"
  BY <1>1, <1>3, MainPlace DEF Placed, Is, Versioned
<1>5. x = Item("main") /\ x \in Target
  BY <1>0, <1>1, <1>3, NextItem, MainPlace, Place DEF PlaceOK, TypeIInv, Thread
<1>6. Get("main")
  BY <1>4, OpAction
<1>7. ~ErrorExcused("main")
  BY <1>0, EndMoves DEF ErrorExcused, Error, Ends
<1>8. copy' = [copy EXCEPT !["main"][x] = object[x]] /\ object' = object
  BY <1>5, <1>6, <1>7 DEF Get
<1> QED
  BY <1>5, <1>8 DEF TypeIInv, IInv, ObjectsOK, Thread

\* Nobody else changes a taint without a signal.
LEMMA CopyFreshOther ==
  ASSUME TypeIInv, TypeIInv', CopyFresh, Watcher \/ Environment
  PROVE  CopyFresh'
<1>0. /\ Next /\ setup' = setup /\ pc'["main"] = pc["main"]
      /\ lib' = lib \/ lib' = "aborted"
      /\ Watcher => signal /\ signal' = signal
      /\ \A kinds : Is(kinds)' = Is(kinds)
      /\ MainProgram' = MainProgram /\ (signal => signal')
  <2>1. Next
    BY DEF Next
  <2> QED
    BY <2>1, ExcusedGrow, OtherStep, Fixed
<1>1. Item("main")' = Item("main") /\ Item("main") \in Target /\ Op("main")' = Op("main")
  <2>1. Item("main")' = Item("main") /\ Item("main") \in Target
    BY <1>0, NextItem, MainPlace, Place DEF PlaceOK, TypeIInv, Thread
  <2>2. Op("main")' = Op("main")
    BY <1>0 DEF Op, Stage, Program
  <2> QED
    BY <2>1, <2>2
<1> SUFFICES ASSUME ~signal', lib' = "running", Is({"taint"}), Op("main") = "undo"
             PROVE  copy'["main"][Item("main")].chaos = object'[Item("main")].chaos
  BY <1>0, <1>1 DEF CopyFresh
<1>2. Environment /\ lib = "running" /\ ~signal
  BY <1>0 DEF Environment, Signal, Edit, StressStarts, StressReturns
<1>3. copy["main"][Item("main")].chaos = object[Item("main")].chaos
  BY <1>2 DEF CopyFresh
<1>4. CASE Signal
  BY <1>4 DEF Signal
<1>5. ASSUME NEW y \in Target, Edit(y) PROVE copy' = copy /\ object'[Item("main")].chaos = object[Item("main")].chaos
  BY <1>1, <1>5 DEF Edit, TypeIInv, IInv, ObjectsOK, Object
<1>6. ASSUME NEW y \in Target, StressStarts(y) \/ StressReturns(y) PROVE FALSE
  BY <1>6 DEF StressStarts, StressReturns, TypeIInv, PartsOK, Is, Exec, Hog
<1> QED
  BY <1>2, <1>3, <1>4, <1>5, <1>6 DEF Environment

----------------------------------------------------------------------------
(* Commands that run out of memory *)

\* What main does to the commands before it kills them.
LEMMA ExecMain ==
  ASSUME TypeIInv, Main, Is(Exec), Op("main") # "undo"
  PROVE  /\ object' = object /\ oomed' = oomed
         /\ \A x \in Target : stress'[x] \in {stress[x], "starting", "received"}
<1>1. CASE Apply
  BY <1>1 DEF Apply, TypeIInv, TypeOK
<1>2. CASE \E x \in Target : ReceiveResult(x)
  BY <1>2 DEF ReceiveResult, TypeIInv, TypeOK
<1>3. CASE \/ Watch \/ Select \/ Call \/ Verify \/ Scaled \/ Listen \/ ReceiveSignal \/ TimeIsUp
           \/ Get("main") \/ Mark("main") \/ Confirm("main")
  BY <1>3 DEF Watch, Select, Call, Verify, Scaled, Listen, ReceiveSignal, TimeIsUp, Get, Mark, Confirm, Local, execVars
<1>4. ~Undo("main")
  BY DEF Undo, Does, At
<1> QED
  BY <1>1, <1>2, <1>3, <1>4 DEF Main, Operation

\* Main does not go back by a stage.
LEMMA StagesGrow ==
  ASSUME TypeIInv, MainMoves
  PROVE  pc["main"].stage <= pc'["main"].stage
<1>1. pc["main"].stage \in Nat
  BY MainPlace
<1> QED
  BY <1>1 DEF MainMoves, Onward, Comes, Ends

\* Main's program is at the undo of x, or before it: it was so before the step, or it starts the command.
LEMMA StressedMain ==
  ASSUME TypeIInv, TypeIInv', Main, MainMoves, NEW x \in Targets, Stressed(x)'
  PROVE  Op("main") # "undo" /\ (Stressed(x) \/ stress'[x] = "starting")
<1>0. /\ setup' = setup /\ lib \in {"running", "aborting"} /\ lib' = "running"
      /\ UndoStage' = UndoStage /\ UndoOp' = UndoOp /\ \A kinds : Is(kinds)' = Is(kinds)
      /\ Serial' = Serial
  BY MainStep, Fixed DEF TypeIInv, Stressed
<1>1. lib = "running" /\ Is(Exec)
  BY <1>0 DEF MainMoves, Ends, Stressed
<1>2. CASE Serial
  <2>1. /\ pc'["main"].stage = 2 /\ pc'["main"].op \in 2 .. 4 /\ x = Item("main")'
        /\ UndoStage = 2 /\ UndoOp = 4 /\ OneByTarget
    BY <1>0, <1>1, <1>2 DEF Stressed, UndoStage, UndoOp, OneByTarget, Is, Exec, Hog, Versioned
  <2>2. CASE pc' = pc
    <3>1. Op("main") = "loop"
      BY <1>0, <2>1, <2>2, StaysInLoop
    <3>2. x = Item("main")
      BY <1>0, <2>1, <2>2, NextItem, MainPlace
    <3> QED
      BY <1>1, <1>2, <2>1, <2>2, <3>1, <3>2 DEF Stressed
  <2>3. CASE pc' # pc
    <3>1. /\ pc["main"].stage = 2 /\ pc["main"].op \in 1 .. 3 /\ pc'["main"].at = pc["main"].at
      BY <1>0, <2>1, <2>3, LaterOp, MainPlace
    <3>2. x = Item("main")
      BY <1>0, <2>1, <3>1, NextItem, MainPlace
    <3>3. Op("main") # "undo"
      BY <2>1, <3>1, MainPlace DEF Placed
    <3>4. CASE pc["main"].op = 1
      <4>1. Apply
        BY <2>1, <3>1, <3>4, MainPlace, OpAction DEF Placed
      <4>2. stress' = [stress EXCEPT ![x] = "starting"] /\ x \in Target
        BY <1>1, <3>2, <4>1, Place DEF Apply, PlaceOK, TypeIInv, Thread
      <4> QED
        BY <3>3, <4>2 DEF TypeIInv, TypeOK
    <3>5. CASE pc["main"].op # 1
      BY <1>1, <1>2, <2>1, <3>1, <3>2, <3>3, <3>5 DEF Stressed
    <3> QED
      BY <3>4, <3>5
  <2> QED
    BY <2>2, <2>3
<1>3. CASE ~Serial
  <2>1. pc'["main"].stage < UndoStage
    BY <1>0, <1>3 DEF Stressed
  <2>2. pc["main"].stage < UndoStage
    <3>1. pc'["main"].stage \in Nat /\ pc["main"].stage \in Nat /\ UndoStage \in Nat
      <4>1. pc' \in [Thread -> [stage : Nat, op : Nat, at : Nat]] /\ "main" \in Thread
        BY DEF MainMoves, OneMoves, Thread
      <4>2. pc["main"].stage \in Nat /\ UndoStage \in Nat
        BY MainPlace
      <4> QED
        BY <4>1, <4>2
    <3> QED
      BY <2>1, <3>1, StagesGrow
  <2>3. Op("main") # "undo"
    <3>1. pc["main"].stage \in Nat /\ UndoStage \in Nat
      BY MainPlace
    <3> QED
      BY <2>2, <3>1, MainOp
  <2> QED
    BY <1>1, <1>3, <2>2, <2>3 DEF Stressed
<1> QED
  BY <1>2, <1>3

\* Main keeps what is known of the commands ...
LEMMA OomMain ==
  ASSUME TypeIInv, TypeIInv', OomOK, Main, MainMoves
  PROVE  OomOK'
<1>1. Targets' = Targets /\ Targets \subseteq Target
  BY MainStep, Fixed, Place DEF TypeIInv, PlaceOK, Thread
<1> SUFFICES ASSUME NEW x \in Targets, Stressed(x)'
             PROVE  /\ stress'[x] = "running" => object'[x].chaos
                    /\ stress'[x] = "oom" => oomed' # {}
  BY <1>1 DEF OomOK
<1>2. Op("main") # "undo" /\ (Stressed(x) \/ stress'[x] = "starting")
  BY StressedMain
<1>3. Is(Exec)
  BY MainStep, Fixed DEF Stressed, TypeIInv
<1>4. object' = object /\ oomed' = oomed /\ stress'[x] \in {stress[x], "starting", "received"}
  BY <1>1, <1>2, <1>3, ExecMain
<1> QED
  BY <1>2, <1>4 DEF OomOK

\* ... and so do the commands themselves.
LEMMA OomOther ==
  ASSUME TypeIInv, TypeIInv', OomOK, Watcher \/ Environment
  PROVE  OomOK' /\ oomed \subseteq oomed'
<1>0. /\ setup' = setup /\ Targets' = Targets /\ Targets \subseteq Target
      /\ pc'["main"] = pc["main"]
      /\ lib' = lib \/ lib' = "aborted"
      /\ UndoStage' = UndoStage /\ UndoOp' = UndoOp /\ \A kinds : Is(kinds)' = Is(kinds)
      /\ Serial' = Serial
  BY OneStep, OtherStep, Fixed, Place DEF TypeIInv, PlaceOK, Thread, Next
<1>1. Item("main")' = Item("main")
  BY <1>0, NextItem, MainPlace
<1>2. \A x \in Targets : Stressed(x)' => Stressed(x)
  BY <1>0, <1>1 DEF Stressed
<1>3. CASE Watcher
  <2>1. watching /\ oomed' = oomed
    BY <1>3, OtherStep DEF execVars
  <2>2. ~Is(Exec)
    BY <2>1 DEF TypeIInv, PartsOK, Is, Watched, Exec, Hog
  <2> QED
    BY <1>0, <2>1, <2>2 DEF OomOK, Stressed
<1>4. CASE Signal
  BY <1>0, <1>2, <1>4 DEF Signal, OomOK, objectVars
<1>5. ASSUME NEW y \in Target, Edit(y) PROVE OomOK' /\ oomed \subseteq oomed'
  <2>1. ~Is(Exec) /\ oomed' = oomed
    BY <1>5 DEF Edit, Is, Versioned, Exec, Hog, execVars
  <2> QED
    BY <1>0, <2>1 DEF OomOK, Stressed
<1>6. ASSUME NEW y \in Target, StressStarts(y) PROVE OomOK' /\ oomed \subseteq oomed'
  <2>1. oomed' = oomed /\ object \in [Target -> Object] /\ stress \in [Target -> StressStates]
    BY <1>6 DEF StressStarts, TypeIInv, IInv, ObjectsOK, TypeOK, StressStates
  <2>2. \A x \in Target : stress'[x] = "oom" => stress[x] = "oom"
    BY <1>6, <2>1 DEF StressStarts
  <2>3. ASSUME NEW x \in Target, stress'[x] = "running"
        PROVE  object'[x].chaos \/ (object'[x] = object[x] /\ stress[x] = "running")
    <3>1. CASE y = x
      BY <1>6, <2>1, <2>3, <3>1 DEF StressStarts, Put, Object
    <3>2. CASE y # x
      BY <1>6, <2>1, <2>3, <3>2 DEF StressStarts, Put
    <3> QED
      BY <3>1, <3>2
  <2> QED
    BY <1>0, <1>2, <2>1, <2>2, <2>3 DEF OomOK
<1>7. ASSUME NEW y \in Target, StressReturns(y) PROVE OomOK' /\ oomed \subseteq oomed'
  <2>1. /\ object \in [Target -> Object] /\ stress \in [Target -> StressStates]
        /\ oomed \subseteq oomed'
    BY <1>7 DEF StressReturns, TypeIInv, IInv, ObjectsOK, TypeOK, StressStates
  <2>2. ASSUME NEW x \in Targets, Stressed(x), x # y
        PROVE  stress'[x] = stress[x] /\ object'[x] = object[x]
    BY <1>0, <1>7, <2>1, <2>2 DEF StressReturns, Put
  <2>3. ASSUME y \in Targets, Stressed(y)
        PROVE  stress'[y] # "running" /\ (stress'[y] = "oom" => y \in oomed')
    BY <1>7, <2>1, <2>3 DEF StressReturns, OomOK, Results
  <2> QED
    BY <1>0, <1>2, <2>1, <2>2, <2>3 DEF OomOK
<1> QED
  BY <1>3, <1>4, <1>5, <1>6, <1>7 DEF Environment

----------------------------------------------------------------------------
(* A run that succeeds *)

\* Main is through after its last undo: what was live is cleared.
LEMMA ThroughClears ==
  ASSUME TypeIInv, ToUndo, Alone, Main, MainMoves, Through, Op("main") = "undo" => Cleared,
         NEW x \in Targets \ excused'
  PROVE  ~Live(x)'
<1>0. /\ Next /\ setup' = setup /\ lib \in {"running", "aborting"} /\ x \in Targets \ excused /\ x \in Target
  BY MainStep, ExcusedGrow, Place DEF Next, TypeIInv, PlaceOK, Thread
<1>1. SUFFICES ASSUME Live(x)' PROVE FALSE
  OBVIOUS
<1>2. Op("main") # "apply"
  <2>1. ASSUME Op("main") = "apply" PROVE FALSE
    <3>1. /\ IF OneByTarget THEN pc["main"].stage = 2 /\ pc["main"].op = 1 ELSE pc["main"].stage < UndoStage
          /\ OneByTarget => UndoStage = 2 /\ UndoOp <= Len(Stage("main").ops)
          /\ UndoStage <= Len(MainProgram) /\ UndoStage \in Nat /\ Len(MainProgram) \in Nat /\ pc["main"].stage \in Nat
      BY <2>1, MainPlace, MainOp
    <3>2. /\ pc["main"].op = Len(Stage("main").ops)
          /\ pc["main"].stage = Len(MainProgram) \/ OneByTarget
      BY DEF Through, OneByTarget, TypeIInv, PartsOK
    <3>3. OneByTarget => UndoOp = 4
      BY DEF UndoOp, OneByTarget, Is, Exec, Hog, Versioned
    <3>4. CASE OneByTarget
      <4>1. pc["main"].op = 1 /\ pc["main"].op = Len(Stage("main").ops)
        BY <3>1, <3>2, <3>4
      <4>2. 4 <= Len(Stage("main").ops)
        BY <3>1, <3>3, <3>4
      <4> QED
        BY <4>1, <4>2
    <3>5. CASE ~OneByTarget
      BY <3>1, <3>2, <3>5
    <3> QED
      BY <3>4, <3>5
  <2> QED
    BY <2>1
<1>3. Live(x)
  BY <1>0, <1>1, <1>2, LiveStep, OpAction
<1>4. PICK i \in DOMAIN setup.targets : setup.targets[i] = x /\ Pending(i)
  BY <1>0, <1>3 DEF ToUndo, NotExcused, Active
<1>5. Op("main") = "undo" /\ Turn(i) = pc["main"].at
  BY <1>4, PendingThrough
<1>6. x = Item("main")
  BY <1>4, <1>5, MainPlace, TurnOK DEF Placed
<1> QED
  BY <1>0, <1>1, <1>5, <1>6 DEF Cleared

\* The loop that breaks off for a command out of memory.
LEMMA BreaksOff ==
  ASSUME TypeIInv, OomOK, NEW y \in Target, ReceiveResult(y), lib' = "ok",
         ~(Is({"fio"}) /\ Serial /\ Len(setup.targets) > 1)
  PROVE  oomed' # {}
<1>1. /\ Op("main") = "loop" /\ lib = "running" /\ stress[y] = "oom" /\ Reports(y) /\ oomed' = oomed
  BY DEF ReceiveResult, Does, At, threadVars, End
<1>2. Is(Exec) /\ y \in Targets
  BY <1>1 DEF TypeIInv, PartsOK
<1>3. Stressed(y)
  <2>1. CASE Serial
    <3>1. pc["main"].stage = 2 /\ pc["main"].op = 3 /\ UndoOp = 4
      BY <1>1, <1>2, <2>1, MainPlace DEF Placed, UndoOp, OneByTarget, Is, Exec, Hog, Versioned
    <3>2. Item("main") = y
      <4>1. CASE Is(Hog)
        BY <1>1, <2>1, <4>1 DEF Reports
      <4>2. CASE ~Is(Hog)
        <5>0. Is({"fio"})
          BY <1>2, <4>2 DEF Is, Exec
        <5>1. Len(setup.targets) = 1
          <6>1. ~(Len(setup.targets) > 1)
            BY <2>1, <5>0
          <6>2. Len(setup.targets) \in Nat \ {0}
            BY MainPlace
          <6>3. \A n \in Nat \ {0} : ~(n > 1) => n = 1
            OBVIOUS
          <6> QED
            BY <6>1, <6>2, <6>3
        <5>2. Item("main") \in Targets /\ DOMAIN setup.targets = 1 .. 1
          BY <5>1, MainPlace, Place DEF TypeIInv, PlaceOK, Thread
        <5> QED
          BY <1>2, <5>2 DEF Targets
      <4> QED
        BY <4>1, <4>2
    <3> QED
      BY <1>1, <1>2, <2>1, <3>1, <3>2 DEF Stressed
  <2>2. CASE ~Serial
    <3>1. pc["main"].stage = 3 /\ UndoStage = 4
      BY <1>1, <1>2, <2>2, MainPlace DEF Placed, UndoStage, OneByTarget, Is, Exec, Hog
    <3> QED
      BY <1>1, <1>2, <2>2, <3>1 DEF Stressed
  <2> QED
    BY <2>1, <2>2
<1> QED
  BY <1>1, <1>2, <1>3 DEF OomOK

\* Main reports success after its last undo.
LEMMA CompletedMain ==
  ASSUME TypeIInv, CopiesSame, CopyFresh, ToUndo, OomOK, Main, MainMoves
  PROVE  Completed'
<1>0. /\ Next /\ setup' = setup /\ signal' = signal /\ lib \in {"running", "aborting"} /\ Targets' = Targets
      /\ \A kinds : Is(kinds)' = Is(kinds)
      /\ Serial' = Serial
  BY MainStep, Fixed DEF Next, TypeIInv
<1> SUFFICES ASSUME lib' = "ok", ~signal, oomed' = {}, ~(Is({"fio"}) /\ Serial /\ Len(setup.targets) > 1),
                    NEW x \in Targets \ excused'
             PROVE  ~Live(x)'
  BY <1>0 DEF Completed, NotExcused
<1>1. Alone
  BY DEF Alone
<1>2. CASE Go("main") /\ (Op("main") = "undo" => Cleared)
  <2>1. Through
    BY <1>0, <1>2, MainGoes DEF TypeIInv
  <2> QED
    BY <1>1, <1>2, <2>1, ThroughClears
<1>3. ~Error("main")
  BY EndMoves DEF Error
<1>4. ~Retry("main") /\ lib' # "stopped" /\ lib' # lib /\ ~ReceiveSignal
  BY <1>0 DEF Retry, ReceiveSignal
<1>5. ~\E y \in Target : ReceiveResult(y)
  BY BreaksOff
<1> QED
  BY <1>1, <1>2, <1>3, <1>4, <1>5, MainOutcome

\* Nothing is live again after that.
LEMMA CompletedOther ==
  ASSUME TypeIInv, TypeIInv', OomOK, Completed, Watcher \/ Environment, ~Main
  PROVE  Completed'
<1>0. /\ setup' = setup /\ Targets' = Targets /\ Targets \subseteq Target /\ excused \subseteq excused'
      /\ lib' = lib \/ lib' = "aborted"
      /\ \A kinds : Is(kinds)' = Is(kinds)
      /\ Serial' = Serial
      /\ (signal => signal') /\ oomed \subseteq oomed' /\ Next
  BY ExcusedGrow, OomOther, OtherStep, Fixed, Place DEF TypeIInv, PlaceOK, Thread, Next
<1> SUFFICES ASSUME lib' = "ok", ~signal', oomed' = {}, ~(Is({"fio"}) /\ Serial /\ Len(setup.targets) > 1),
                    NEW x \in Targets \ excused'
             PROVE  ~Live(x)'
  BY <1>0 DEF Completed, NotExcused
<1>1. ~Live(x)
  BY <1>0 DEF Completed, NotExcused
<1>2. ~Apply
  BY DEF Main
<1> QED
  BY <1>0, <1>1, <1>2, LiveStep

----------------------------------------------------------------------------
(* The record of what is left *)

\* What main does to the record.
LEMMA RecordMain ==
  ASSUME TypeIInv, Main
  PROVE  /\ Op("main") = "mark" => record' = [record EXCEPT ![Item("main")] = "injected"]
         /\ Op("main") = "unmark" => record' = [record EXCEPT ![Item("main")] = "reverted"]
         /\ Op("main") \notin {"mark", "unmark"} => record' = record
<1>1. CASE Mark("main")
  BY <1>1 DEF Mark, SetTargets, Does, At
<1>2. CASE ~Mark("main")
  <2>1. record' = record
    BY <1>2 DEF Main, Operation, Get, Undo, Confirm, Apply, Watch, Select, Call, Verify, Scaled, Listen,
                ReceiveSignal, TimeIsUp, ReceiveResult, Local
  <2> QED
    BY <1>2, <2>1, OpAction
<1> QED
  BY <1>1, <1>2

\* What comes of a request for chaos, in a run without a signal.
LEMMA ApplyOutcome ==
  ASSUME Apply, lib = "running"
  PROVE  \/ Go("main")
         \/ object' = object /\ stress' = stress
         \/ Item("main") \in unanswered' /\ lib' = "failed"
<1>1. CASE Is(Exec)
  BY <1>1 DEF Apply
<1>2. CASE ~Is(Exec)
  <2>1. Update("main", Item("main"), TRUE) \/ Request("main", Item("main"), TRUE)
    BY <1>2 DEF Apply
  <2>2. Error("main") => lib' = "failed"
    BY DEF Error, MainEnds, End
  <2>3. Succeeds("main", Item("main"), TRUE) => Go("main") \/ (Item("main") \in unanswered' /\ lib' = "failed")
    BY <2>2 DEF Succeeds, Injected, Unanswered
  <2>4. stress' = stress
    BY <1>2 DEF Apply, execVars
  <2> QED
    BY <2>1, <2>3, <2>4 DEF Update, Request
<1> QED
  BY <1>1, <1>2

\* After the request, the libraries that record it come to do so.
LEMMA MarkNext ==
  ASSUME TypeIInv, TypeIInv', Apply, setup' = setup, Marks, lib = "running", Go("main")
  PROVE  lib' = lib /\ Op("main")' = "mark" /\ Item("main")' = Item("main")
<1> DEFINE p == pc["main"]
<1>1. /\ Op("main") = "apply"
      /\ p.op < Len(Stage("main").ops) /\ Stage("main").ops[p.op + 1] = "mark"
      /\ IF OneByTarget THEN p.stage = 2 /\ p.op = 1 ELSE p.stage < UndoStage
  BY MainPlace DEF Apply, Does, At, Placed
<1>2. lib' = lib /\ Onward("main")
  BY <1>1, MainGoes, MainPlace DEF Through, TypeIInv
<1>3. Comes("main", p.stage, p.op + 1, p.at)
  BY <1>1, <1>2, MainPlace DEF Onward
<1>4. Op("main")' = "mark"
  <2>1. MainProgram' = MainProgram
    BY Fixed
  <2>2. Op("main")' = MainProgram[pc'["main"].stage].ops[pc'["main"].op]
    BY <2>1 DEF Op, Stage, Program
  <2> QED
    BY <1>1, <1>3, <2>2, MainPlace DEF Comes
<1>5. Item("main")' = Item("main")
  BY <1>3, NextItem, MainPlace DEF Comes
<1> QED
  BY <1>2, <1>4, <1>5

\* Main records what it applies, and keeps the record while the target is live.
LEMMA MarkedMain ==
  ASSUME TypeIInv, TypeIInv', Marked, Undone, Main, MainMoves
  PROVE  Marked'
<1>0. /\ Next /\ setup' = setup /\ signal' = signal /\ lib \in {"running", "aborting"} /\ Targets' = Targets
      /\ Marks' = Marks
  BY MainStep, Fixed DEF Next, TypeIInv
<1> SUFFICES ASSUME Marks, ~signal, lib' \in {"running", "failed"},
                    NEW x \in Targets \ excused', lib' = "failed" => x \notin unanswered', Live(x)'
             PROVE  record'[x] = "injected" \/ (lib' = "running" /\ Op("main")' = "mark" /\ Item("main")' = x)
  BY <1>0 DEF Marked, NotExcused
<1>1. lib = "running" /\ x \in Targets \ excused /\ x \in Target
  BY <1>0, ExcusedGrow, Place DEF TypeIInv, PartsOK, PlaceOK, Thread
<1>2. record \in [Target -> {"none", "injected", "reverted"}]
  BY DEF TypeIInv, TypeOK
<1>3. CASE Live(x)
  <2>1. record[x] = "injected" \/ (Op("main") = "mark" /\ Item("main") = x)
    BY <1>1, <1>3 DEF Marked, NotExcused
  <2>2. Op("main") = "unmark" => Item("main") # x
    BY <1>1, <1>3, MainPlace DEF Placed, Undone, Alone, Active
  <2> QED
    BY <1>1, <1>2, <2>1, <2>2, RecordMain
<1>4. CASE ~Live(x)
  <2>1. Apply /\ x = Item("main")
    BY <1>0, <1>1, <1>4, LiveStep
  <2>2. ~(object' = object /\ stress' = stress)
    BY <1>4 DEF Live
  <2>3. Go("main")
    BY <1>1, <2>1, <2>2, ApplyOutcome
  <2> QED
    BY <1>0, <1>1, <2>1, <2>3, MarkNext
<1> QED
  BY <1>3, <1>4

\* Without a signal nobody else writes the record.
LEMMA MarkedOther ==
  ASSUME TypeIInv, TypeIInv', Marked, Watcher \/ Environment, ~Main
  PROVE  Marked'
<1>0. /\ Next /\ setup' = setup /\ pc'["main"] = pc["main"] /\ Targets' = Targets /\ Targets \subseteq Target
      /\ excused \subseteq excused' /\ unanswered \subseteq unanswered'
      /\ Watcher => signal
      /\ signal => signal'
      /\ Marks' = Marks /\ UndoStage' = UndoStage /\ MainProgram' = MainProgram
  BY ExcusedGrow, OtherStep, Fixed, Place DEF TypeIInv, PlaceOK, Thread, Next
<1>1. Item("main")' = Item("main") /\ Op("main")' = Op("main")
  <2>1. Item("main")' = Item("main")
    BY <1>0, NextItem, MainPlace
  <2>2. Op("main")' = Op("main")
    BY <1>0 DEF Op, Stage, Program
  <2> QED
    BY <2>1, <2>2
<1> SUFFICES ASSUME Marks, ~signal', lib' \in {"running", "failed"},
                    NEW x \in Targets \ excused', lib' = "failed" => x \notin unanswered', Live(x)'
             PROVE  record'[x] = "injected" \/ (lib' = "running" /\ Op("main") = "mark" /\ Item("main") = x)
  BY <1>0, <1>1 DEF Marked, NotExcused
<1>2. Environment /\ ~signal
  BY <1>0
<1>3. record' = record /\ lib' = lib
  BY <1>2 DEF Environment, Signal, Edit, StressStarts, StressReturns, threadVars
<1>4. Live(x)
  BY <1>0, LiveStep DEF Main
<1> QED
  BY <1>0, <1>2, <1>3, <1>4 DEF Marked, NotExcused

----------------------------------------------------------------------------
(* What the watcher has passed *)

\* The operations of the watcher in numbers.
LEMMA WatcherPlace ==
  TypeIInv =>
    /\ pc["watcher"].stage \in 1 .. Len(WatcherProgram) /\ Len(WatcherProgram) \in Nat
    /\ pc["watcher"].op \in 1 .. Len(Stage("watcher").ops) /\ Len(Stage("watcher").ops) \in Nat
    /\ pc["watcher"].at \in 1 .. Len(setup.targets) /\ Len(setup.targets) \in Nat
    /\ DOMAIN setup.targets = 1 .. Len(setup.targets)
    /\ Stage("watcher") = WatcherProgram[pc["watcher"].stage]
    /\ Op("watcher") = Stage("watcher").ops[pc["watcher"].op]
    /\ Stage("watcher").each \/ pc["watcher"].at = 1
    /\ WatcherPlaced(pc["watcher"].stage, pc["watcher"].op)
    /\ UndoOp = (IF Is({"taint", "autoscaler"}) THEN 2 ELSE IF OneByTarget THEN 4 ELSE 1)
    /\ setup \in Setups /\ tries["watcher"] \in Nat
    /\ watching => Is(Watched) /\ Item("watcher") = setup.targets[pc["watcher"].at]
<1> SUFFICES ASSUME TypeIInv
             PROVE  WatcherPlace!2
  OBVIOUS
<1>1. PlaceOK("watcher") /\ setup \in Setups /\ DOMAIN setup.targets = 1 .. Len(setup.targets)
  BY Place, SetupOK DEF TypeIInv, TypeOK, Thread
<1>2. Stage("watcher") = WatcherProgram[pc["watcher"].stage] /\ Op("watcher") = Stage("watcher").ops[pc["watcher"].op]
  BY DEF Stage, Op, Program
<1>3. watching => Is(Watched) /\ Item("watcher") = setup.targets[pc["watcher"].at]
  BY DEF TypeIInv, PartsOK, Item, Is, Watched
<1>4. UndoOp = (IF Is({"taint", "autoscaler"}) THEN 2 ELSE IF OneByTarget THEN 4 ELSE 1)
  BY DEF UndoOp, Versioned, Is
<1> QED
  BY <1>1, <1>2, <1>3, <1>4 DEF PlaceOK, TypeIInv, PcOK, Program, Thread

\* The watcher has the target behind it, in this attempt, and there is none after it.
Behind(x) ==
  LET p == pc["watcher"]
  IN \/ p.stage > 1
     \/ \E i \in 1 .. p.at :
          /\ setup.targets[i] = x
          /\ i = p.at => Op("watcher") = "unmark" \/ (Is({"taint"}) /\ Op("watcher") = "undo")
\* There is no attempt after this one.
IsLast == Is({"autoscaler"}) \/ tries["watcher"] = 1

\* What is passed is behind the watcher in its last attempt, or there is no attempt left.
LEMMA PassedBehind ==
  TypeIInv /\ watching => \A x : Passed(x) <=> Reverting /\ (tries["watcher"] = 0 \/ (Counting /\ IsLast /\ Behind(x)))
<1> SUFFICES ASSUME TypeIInv, watching, NEW x
             PROVE  Passed(x) <=> Reverting /\ (tries["watcher"] = 0 \/ (Counting /\ IsLast /\ Behind(x)))
  OBVIOUS
<1>1. CASE Counting
  <2>1. Op("watcher") # "look" /\ ~Is({"partition"})
    BY <1>1, WatcherPlace DEF WatcherPlaced, Counting, Is
  <2>2. LastAttempt("watcher") <=> IsLast
    BY <2>1 DEF LastAttempt, IsLast
  <2> QED
    BY <1>1, <2>1, <2>2 DEF Passed, Behind
<1>2. CASE ~Counting
  <2>1. Is({"partition"}) /\ ~Is({"autoscaler"})
    BY <1>2, WatcherPlace DEF Counting, Is, Watched
  <2>2. ~(LastAttempt("watcher") /\ Op("watcher") # "look")
    BY <2>1 DEF LastAttempt
  <2> QED
    BY <1>2, <2>2 DEF Passed
<1> QED
  BY <1>1, <1>2

\* At the beginning of an attempt there is nothing behind.
LEMMA FreshAttempt ==
  TypeIInv /\ pc["watcher"] = [stage |-> 1, op |-> 1, at |-> 1] /\ tries["watcher"] > 0 => \A x : ~Passed(x)
<1> SUFFICES ASSUME TypeIInv, pc["watcher"] = [stage |-> 1, op |-> 1, at |-> 1], tries["watcher"] > 0, NEW x, Passed(x)
             PROVE  FALSE
  OBVIOUS
<1>1. watching /\ Counting /\ Behind(x)
  BY PassedBehind, WatcherPlace DEF Passed, Reverting
<1>2. WatcherPlaced(1, 1) /\ Op("watcher") = WatcherProgram[1].ops[1] /\ ~OneByTarget
  BY <1>1, WatcherPlace DEF OneByTarget, Counting, Is, Exec, Hog
<1>3. Op("watcher") # "unmark" /\ ~(Is({"taint"}) /\ Op("watcher") = "undo")
  BY <1>1, <1>2, WatcherPlace DEF WatcherPlaced, Is
<1> QED
  BY <1>1, <1>3 DEF Behind

\* The same three of the next state.
LEMMA NextWatcherPlace == (TypeIInv => WatcherPlace!2)'
  BY WatcherPlace, PTL
LEMMA NextPassedBehind ==
  (TypeIInv /\ watching => \A x : Passed(x) <=> Reverting /\ (tries["watcher"] = 0 \/ (Counting /\ IsLast /\ Behind(x))))'
  BY PassedBehind, PTL
LEMMA NextFresh ==
  (TypeIInv /\ pc["watcher"] = [stage |-> 1, op |-> 1, at |-> 1] /\ tries["watcher"] > 0 => \A x : ~Passed(x))'
  BY FreshAttempt, PTL

\* An attempt that is over has passed nothing, unless it was the last one.
LEMMA NotLast ==
  ASSUME TypeIInv, TypeIInv', NextAttempt, Counting, Running("watcher"), ~IsLast, NEW x
  PROVE  ~Passed(x)'
<1>1. tries["watcher"] \in Nat /\ tries["watcher"] > 0 /\ tries["watcher"] # 1 /\ ~Is({"autoscaler"}) /\ ~Is({"partition"})
  BY WatcherPlace DEF IsLast, Running, Counting, Is
<1>2. tries'["watcher"] > 0
  BY <1>1 DEF NextAttempt
<1> QED
  BY <1>2, NextFresh DEF NextAttempt, Comes

\* After an error only those are passed that were so before.
LEMMA ErrorPasses ==
  ASSUME TypeIInv, TypeIInv', Counting, Running("watcher"), ErrorExcused("watcher"),
         NEW x \in Targets \ excused', Passed(x)'
  PROVE  Passed(x) /\ x # Item("watcher")
<1>1. NextAttempt
  BY AttemptMoves DEF ErrorExcused, Error, TypeIInv
<1>2. IsLast
  BY <1>1, NotLast
<1>3. LastAttempt("watcher") /\ watching /\ Reverting
  BY <1>2 DEF LastAttempt, IsLast, Counting, Is, Running, Reverting
<1>4. x \notin Rest("watcher")
  BY <1>3 DEF ErrorExcused, Excuse
<1>5. PICK j \in 1 .. Len(setup.targets) : setup.targets[j] = x
  BY WatcherPlace DEF Targets
<1>6. j < pc["watcher"].at
  BY <1>4, <1>5, WatcherPlace DEF Rest
<1>7. Behind(x)
  BY <1>5, <1>6, WatcherPlace DEF Behind
<1>8. x # Item("watcher")
  BY <1>3, <1>4, WatcherPlace DEF Rest
<1> QED
  BY <1>2, <1>3, <1>7, <1>8, PassedBehind

\* The steps that leave the attempt the last one, or make it so.
LEMMA LastStays ==
  ASSUME TypeIInv, TypeIInv', Counting, setup' = setup, Running("watcher"), NEW x, Passed(x)',
         tries'["watcher"] = tries["watcher"] \/ NextAttempt
  PROVE  /\ IsLast /\ Reverting /\ watching
         /\ tries'["watcher"] = tries["watcher"] => Behind(x)'
<1>1. Reverting /\ watching /\ tries["watcher"] > 0 /\ Counting' /\ \A kinds : Is(kinds)' = Is(kinds)
  BY Fixed DEF Running, Reverting
<1>2. CASE NextAttempt /\ tries'["watcher"] # tries["watcher"]
  BY <1>1, <1>2, NotLast
<1>3. CASE tries'["watcher"] = tries["watcher"]
  <2>1. watching'
    BY DEF Passed, Reverting
  <2>2. tries'["watcher"] # 0
    BY <1>1, <1>3, WatcherPlace
  <2>3. IsLast' /\ Behind(x)'
    BY <2>1, <2>2, NextPassedBehind
  <2> QED
    BY <1>1, <1>3, <2>3 DEF IsLast
<1> QED
  BY <1>2, <1>3

\* After a step on only that target is passed which the watcher has in hand.
LEMMA GoPasses ==
  ASSUME TypeIInv, TypeIInv', Counting, setup' = setup, Running("watcher"), Go("watcher"),
         NEW x \in Targets, Passed(x)'
  PROVE  \/ Passed(x)
         \/ x = Item("watcher") /\ Op("watcher") = "undo"
         \/ /\ x = Item("watcher") /\ Op("watcher") = "get" /\ Is({"taint"})
            /\ Op("watcher")' = "undo" /\ Item("watcher")' = Item("watcher") /\ tries'["watcher"] > 0
<1> DEFINE p == pc["watcher"]  q == pc'["watcher"]
<1>1. \/ Onward("watcher") /\ tries'["watcher"] = tries["watcher"]
      \/ /\ NextAttempt /\ LastTarget("watcher") /\ p.stage = Len(WatcherProgram)
         /\ p.op = Len(Stage("watcher").ops)
  BY WatcherGoes DEF TypeIInv
<1>2. /\ IsLast /\ Reverting /\ watching
      /\ tries'["watcher"] = tries["watcher"] => Behind(x)'
  BY <1>1, LastStays
<1>3. Behind(x) => Passed(x)
  BY <1>2, PassedBehind
<1>4. /\ WatcherPlaced(p.stage, p.op) /\ Stage("watcher") = WatcherProgram[p.stage]
      /\ Op("watcher") = WatcherProgram[p.stage].ops[p.op] /\ Item("watcher") = setup.targets[p.at]
      /\ p.stage \in Nat \ {0} /\ p.op \in Nat \ {0} /\ p.at \in 1 .. Len(setup.targets)
      /\ Len(setup.targets) \in Nat /\ Len(Stage("watcher").ops) \in Nat /\ DOMAIN setup.targets = 1 .. Len(setup.targets)
  BY <1>2, WatcherPlace, SMTT(30)
<1>5. /\ UndoOp = (IF Is({"taint", "autoscaler"}) THEN 2 ELSE 1) /\ UndoOp' = UndoOp /\ WatcherProgram' = WatcherProgram
      /\ \A kinds : Is(kinds)' = Is(kinds)
      /\ Counting' = Counting
  BY <1>2, WatcherPlace, Fixed DEF Counting, OneByTarget, Is, Exec, Hog
<1>6. /\ WatcherPlaced(pc["watcher"].stage, pc["watcher"].op)' /\ Op("watcher")' = WatcherProgram[q.stage].ops[q.op]
      /\ watching' => Item("watcher")' = setup.targets[q.at]
  BY <1>5, NextWatcherPlace
<1>7. watching'
  BY DEF Passed, Reverting
<1>8. CASE LastTarget("watcher") /\ p.op = Len(Stage("watcher").ops)
  <2>1. PICK j \in 1 .. Len(setup.targets) : setup.targets[j] = x
    BY <1>4 DEF Targets
  <2>2. CASE p.stage > 1
    BY <1>3, <2>2 DEF Behind
  <2>3. CASE ~(p.stage > 1)
    <3>1. p.stage = 1 /\ Stage("watcher").each /\ p.op = UndoOp + 1 /\ Op("watcher") = "unmark"
      BY <1>4, <1>8, <2>3 DEF WatcherPlaced
    <3>2. p.at = Len(setup.targets)
      BY <1>8, <3>1 DEF LastTarget
    <3>3. Behind(x)
      BY <2>1, <3>1, <3>2 DEF Behind
    <3> QED
      BY <1>3, <3>3
  <2> QED
    BY <2>2, <2>3
<1>9. CASE p.op < Len(Stage("watcher").ops) /\ Comes("watcher", p.stage, p.op + 1, p.at) /\ tries'["watcher"] = tries["watcher"]
  <2>1. q.stage = p.stage /\ q.op = p.op + 1 /\ q.at = p.at
    BY <1>9 DEF Comes
  <2>2. CASE p.stage > 1
    BY <1>3, <2>2 DEF Behind
  <2>3. CASE ~(p.stage > 1)
    <3>1. p.stage = 1
      BY <1>4, <2>3
    <3>2. PICK i \in 1 .. p.at :
            /\ setup.targets[i] = x
            /\ i = p.at => Op("watcher")' = "unmark" \/ (Is({"taint"}) /\ Op("watcher")' = "undo")
      BY <1>2, <1>5, <1>9, <2>1, <3>1 DEF Behind
    <3>3. CASE i # p.at
      BY <1>3, <3>2, <3>3 DEF Behind
    <3>4. CASE i = p.at
      <4>1. x = Item("watcher")
        BY <1>4, <3>2, <3>4
      <4>2. CASE Op("watcher")' = "unmark"
        <5>1. p.op + 1 = UndoOp + 1
          BY <1>5, <1>6, <2>1, <3>1, <4>2 DEF WatcherPlaced
        <5>2. p.op = UndoOp
          BY <1>4, <1>5, <5>1
        <5> QED
          BY <1>4, <3>1, <4>1, <5>2 DEF WatcherPlaced
      <4>3. CASE Is({"taint"}) /\ Op("watcher")' = "undo"
        <5>1. p.op + 1 = UndoOp
          BY <1>5, <1>6, <2>1, <3>1, <4>3 DEF WatcherPlaced
        <5>2. p.op = 1 /\ UndoOp = 2
          BY <1>4, <1>5, <4>3, <5>1 DEF Is
        <5>3. Op("watcher") = "get"
          BY <1>4, <3>1, <5>2 DEF WatcherPlaced
        <5>4. Item("watcher")' = Item("watcher") /\ tries'["watcher"] > 0
          BY <1>4, <1>6, <1>7, <1>9, <2>1 DEF Running
        <5> QED
          BY <4>1, <4>3, <5>3, <5>4
      <4> QED
        BY <3>2, <3>4, <4>2, <4>3
    <3> QED
      BY <3>3, <3>4
  <2> QED
    BY <2>2, <2>3
<1>10. CASE /\ p.op = Len(Stage("watcher").ops) /\ Stage("watcher").each /\ p.at < Len(setup.targets)
            /\ Comes("watcher", p.stage, 1, p.at + 1) /\ tries'["watcher"] = tries["watcher"]
  <2>1. q.stage = p.stage /\ q.op = 1 /\ q.at = p.at + 1
    BY <1>10 DEF Comes
  <2>2. p.stage = 1 /\ p.op = UndoOp + 1 /\ Op("watcher") = "unmark"
    BY <1>4, <1>10, SMTT(30) DEF WatcherPlaced
  <2>3. Op("watcher")' # "unmark" /\ ~(Is({"taint"}) /\ Op("watcher")' = "undo")
    BY <1>5, <1>6, <2>1, <2>2 DEF WatcherPlaced, Is
  <2>4. PICK i \in 1 .. p.at + 1 : setup.targets[i] = x /\ i # p.at + 1
    BY <1>2, <1>5, <1>10, <2>1, <2>2, <2>3 DEF Behind
  <2>5. i \in 1 .. p.at
    BY <1>4, <2>4
  <2>6. Behind(x)
    BY <2>2, <2>4, <2>5 DEF Behind
  <2> QED
    BY <1>3, <2>6
<1> QED
  BY <1>1, <1>8, <1>9, <1>10 DEF Onward

\* An error leaves what the watcher has passed.
LEMMA ErrorKeeps ==
  ASSUME TypeIInv, TypeIInv', PassedOK, Counting, Running("watcher"), ErrorExcused("watcher"),
         excused \subseteq excused', \A y \in Target \ {Item("watcher")} : object'[y] = object[y],
         NEW x \in Targets \ excused', Passed(x)'
  PROVE  ~object'[x].chaos
<1>1. Passed(x) /\ x # Item("watcher")
  BY ErrorPasses
<1>2. x \in Target
  BY Place DEF TypeIInv, PlaceOK, Thread
<1> QED
  BY <1>1, <1>2 DEF PassedOK, InHand, NotExcused

\* The revert of the watcher.
LEMMA PassedUndo ==
  ASSUME TypeIInv, TypeIInv', CopiesSame, PassedOK, Counting, Undo("watcher"), setup' = setup,
         excused \subseteq excused', NEW x \in Targets \ excused', Passed(x)'
  PROVE  ~object'[x].chaos
<1> DEFINE y == Item("watcher")
<1>1. /\ Running("watcher") /\ Op("watcher") = "undo" /\ copy' = copy
      /\ watching /\ y \in Target /\ x \in Target
  BY Place DEF Undo, Does, At, Running, Reverting, TypeIInv, PlaceOK, Thread
<1>2. object \in [Target -> Object] /\ "watcher" \in Thread
  BY DEF TypeIInv, IInv, ObjectsOK, Thread
<1>3. stress[y] # "starting" /\ ~Is({"partition"})
  BY <1>1 DEF TypeIInv, PartsOK, Counting, Is, Exec, Hog
<1>4. ~Retry("watcher") \/ ~Retries("watcher")
  <2>1. ASSUME Retry("watcher"), Retries("watcher") PROVE FALSE
    <3>1. Is({"autoscaler"}) /\ tries["watcher"] > 1 /\ tries'["watcher"] = tries["watcher"] - 1
      BY <2>1 DEF Retry, Retries, TypeIInv, PcOK, Thread
    <3>2. pc'["watcher"] = [stage |-> pc["watcher"].stage, op |-> 1, at |-> 1]
      BY <2>1 DEF Retry, Goto, TypeIInv, PcOK, Thread
    <3>3. pc["watcher"].stage = 1
      BY <1>1, WatcherPlace DEF WatcherPlaced
    <3>4. tries'["watcher"] > 0
      BY <3>1, WatcherPlace
    <3> QED
      BY <3>2, <3>3, <3>4, NextFresh
  <2> QED
    BY <2>1
<1>5. \A z \in Target \ {y} : object'[z] = object[z]
  <2>1. CASE Update("watcher", y, FALSE) \/ Request("watcher", y, FALSE)
    BY <1>1, <2>1, UpdateChaos DEF Thread
  <2>2. CASE object' = object
    BY <2>2
  <2> QED
    BY <1>3, <2>1, <2>2 DEF Undo
<1>6. CASE ErrorExcused("watcher")
  BY <1>1, <1>5, <1>6, ErrorKeeps
<1>7. CASE Go("watcher") /\ x # y
  <2>1. Passed(x)
    BY <1>1, <1>7, GoPasses
  <2>2. ~object[x].chaos
    BY <1>7, <2>1 DEF PassedOK, InHand, NotExcused
  <2> QED
    BY <1>1, <1>5, <1>7, <2>2
<1>8. CASE /\ Go("watcher") /\ x = y /\ Is(Versioned)
           /\ Accepts("watcher", y) \/ (Is({"taint"}) /\ copy["watcher"][y].chaos = FALSE)
           /\ object' = Written("watcher", y, FALSE)
  <2>1. CASE copy["watcher"][y].chaos = FALSE
    <3>1. object' = object
      BY <1>8, <2>1 DEF Written
    <3>2. CASE Accepts("watcher", y)
      BY <1>1, <1>2, <1>8, <2>1, <3>1, <3>2 DEF Accepts, CopiesSame
    <3>3. CASE Is({"taint"})
      <4>1. IsLast /\ Reverting
        <5>1. \/ Onward("watcher") /\ tries'["watcher"] = tries["watcher"]
              \/ NextAttempt
          BY <1>1, <1>8, WatcherGoes DEF TypeIInv
        <5> QED
          BY <1>1, <5>1, LastStays
      <4>2. Behind(x)
        BY <1>1, <1>8, <3>3, WatcherPlace DEF Behind
      <4>3. Passed(x)
        BY <1>1, <4>1, <4>2, PassedBehind
      <4> QED
        BY <1>8, <2>1, <3>1, <4>3 DEF PassedOK, InHand, NotExcused
    <3> QED
      BY <1>8, <3>2, <3>3
  <2>2. CASE copy["watcher"][y].chaos # FALSE
    BY <1>1, <1>2, <1>8, <2>2 DEF Written
  <2> QED
    BY <2>1, <2>2
<1>9. CASE Go("watcher") /\ x = y /\ object' = Put(y, FALSE)
  BY <1>1, <1>2, <1>9 DEF Put, Object
<1>10. CASE Update("watcher", y, FALSE) /\ Is(Versioned)
  <2>1. Succeeds("watcher", y, FALSE) => Go("watcher") \/ ErrorExcused("watcher")
    BY DEF Succeeds, GoOrError
  <2> QED
    BY <1>4, <1>6, <1>7, <1>8, <1>10, <2>1 DEF Update
<1>11. CASE Request("watcher", y, FALSE)
  <2>1. Succeeds("watcher", y, FALSE) => Go("watcher") \/ ErrorExcused("watcher")
    BY DEF Succeeds, GoOrError
  <2> QED
    BY <1>6, <1>7, <1>9, <1>11, <2>1 DEF Request
<1> QED
  BY <1>3, <1>10, <1>11 DEF Undo

\* The other operations of a watcher that counts its attempts.
LEMMA PassedCounting ==
  ASSUME TypeIInv, TypeIInv', CopiesSame, PassedOK, Counting, Operation("watcher") \/ Look, setup' = setup,
         excused \subseteq excused', NEW x \in Targets \ excused', Passed(x)'
  PROVE  ~object'[x].chaos \/ InHand(x)'
<1>1. /\ Running("watcher") /\ watching /\ x \in Target /\ Item("watcher") \in Target
  BY Place DEF Operation, Get, Undo, Mark, Confirm, Look, Local, Does, At, Running, Reverting, TypeIInv, PlaceOK, Thread
<1>2. CASE Get("watcher")
  <2>1. Op("watcher") = "get" /\ object' = object
    BY <1>2 DEF Get, Does, At
  <2>2. CASE ErrorExcused("watcher")
    BY <1>1, <2>1, <2>2, ErrorKeeps
  <2>3. CASE Go("watcher") /\ copy' = [copy EXCEPT !["watcher"][Item("watcher")] = object[Item("watcher")]]
    <3>1. CASE Passed(x)
      BY <2>1, <3>1 DEF PassedOK, InHand, NotExcused
    <3>2. CASE /\ x = Item("watcher") /\ Is({"taint"})
               /\ Op("watcher")' = "undo" /\ Item("watcher")' = Item("watcher") /\ tries'["watcher"] > 0
      <4>1. copy'["watcher"][x] = object[x]
        BY <1>1, <2>3, <3>2 DEF TypeIInv, IInv, ObjectsOK, Thread
      <4>2. Is({"taint"})'
        BY <3>2, Fixed
      <4> QED
        BY <2>1, <3>2, <4>1, <4>2 DEF InHand
    <3> QED
      BY <1>1, <2>1, <2>3, <3>1, <3>2, GoPasses
  <2> QED
    BY <1>2, <2>2, <2>3 DEF Get
<1>3. CASE Undo("watcher")
  BY <1>3, PassedUndo
<1>4. CASE Mark("watcher")
  <2>1. object' = object /\ Go("watcher") /\ Op("watcher") \in {"mark", "unmark"}
    BY <1>4 DEF Mark, Does, At
  <2>2. Passed(x)
    BY <1>1, <2>1, GoPasses
  <2> QED
    BY <2>1, <2>2 DEF PassedOK, InHand, NotExcused
<1>5. CASE Confirm("watcher")
  <2>1. object' = object /\ Op("watcher") = "confirm" /\ (Go("watcher") \/ Error("watcher"))
    BY <1>5 DEF Confirm, Local, Does, At
  <2>2. CASE Go("watcher")
    <3>1. Passed(x)
      BY <1>1, <2>1, <2>2, GoPasses
    <3> QED
      BY <2>1, <3>1 DEF PassedOK, InHand, NotExcused
  <2>3. CASE Error("watcher")
    <3>1. NextAttempt
      BY <1>1, <2>3, AttemptMoves DEF Error, TypeIInv
    <3>2. IsLast /\ Reverting
      BY <1>1, <3>1, LastStays
    <3>3. Behind(x)
      BY <2>1, WatcherPlace DEF WatcherPlaced, Behind
    <3>4. Passed(x)
      BY <1>1, <3>2, <3>3, PassedBehind
    <3> QED
      BY <2>1, <3>4 DEF PassedOK, InHand, NotExcused
  <2> QED
    BY <2>1, <2>2, <2>3
<1>6. ~Look
  BY WatcherPlace DEF Look, Local, Does, At, WatcherPlaced
<1> QED
  BY <1>2, <1>3, <1>4, <1>5, <1>6 DEF Operation

\* The watcher of pod-network-partition ends its last attempt at a look, which excuses the policies
\* that it leaves.
LEMMA PassedPartition ==
  ASSUME TypeIInv, TypeIInv', ~Counting, Operation("watcher") \/ Look, setup' = setup,
         NEW x \in Targets \ excused', Passed(x)'
  PROVE  ~object'[x].chaos
<1>1. /\ Running("watcher") /\ watching /\ tries["watcher"] > 0 /\ tries["watcher"] \in Nat
      /\ Is({"partition"}) /\ ~Is({"autoscaler"})
  BY WatcherPlace DEF Operation, Get, Undo, Mark, Confirm, Look, Local, Does, At, Running, Reverting, Counting, Is, Watched
<1>2. tries'["watcher"] = 0
  <2>1. watching' /\ Counting' = Counting
    BY Fixed DEF Passed, Reverting
  <2> QED
    BY <2>1, NextPassedBehind
<1>3. NextAttempt /\ Op("watcher") = "look" /\ tries["watcher"] = 1
  <2>1. WatcherMoves
    BY WatcherStep DEF TypeIInv
  <2> QED
    BY <1>1, <1>2, <2>1 DEF WatcherMoves, NextAttempt
<1>4. Look
  BY <1>3 DEF Operation, Get, Undo, Mark, Confirm, Local, Does, At
<1>5. object' = object
  BY <1>4 DEF Look, Local
<1>6. ~Go("watcher")
  <2> SUFFICES ASSUME Go("watcher") PROVE FALSE
    OBVIOUS
  <2>1. \/ tries'["watcher"] = tries["watcher"]
        \/ pc["watcher"].stage = Len(WatcherProgram)
    BY <1>1, WatcherGoes DEF TypeIInv
  <2>2. pc["watcher"].stage = 1
    BY <1>3, WatcherPlace DEF WatcherPlaced
  <2>3. WatcherProgram = PodNetworkPartitionWatcher
    BY <1>1 DEF WatcherProgram, Is
  <2>4. Len(WatcherProgram) = 2
    BY <2>3 DEF PodNetworkPartitionWatcher
  <2> QED
    BY <1>1, <1>2, <2>1, <2>2, <2>4
<1>7. Excuse({y \in Targets : object[y].chaos})
  <2>1. LastAttempt("watcher")
    BY <1>3 DEF LastAttempt
  <2> QED
    BY <1>4, <1>6, <2>1 DEF Look
<1> QED
  BY <1>5, <1>7 DEF Excuse

\* Together: what the watcher passes is not live.
LEMMA PassedWatcher ==
  ASSUME TypeIInv, TypeIInv', CopiesSame, PassedOK, Watcher
  PROVE  PassedOK'
<1>0. setup' = setup /\ Targets' = Targets /\ excused \subseteq excused'
  BY ExcusedGrow DEF Next
<1> SUFFICES ASSUME NEW x \in Targets \ excused', Passed(x)'
             PROVE  ~object'[x].chaos \/ InHand(x)'
  BY <1>0 DEF PassedOK, NotExcused
<1>1. ~Exit
  BY DEF Exit, Passed, Reverting, Exited
<1> QED
  BY <1>0, <1>1, PassedPartition, PassedCounting DEF Watcher

\* Main applies its chaos after the watcher's last look: it is excused.
LEMMA ApplyExcuses ==
  ASSUME Apply, ~Is(Exec), Passed(Item("main"))
  PROVE  Item("main") \in excused' \/ object' = object
<1>1. Update("main", Item("main"), TRUE) \/ Request("main", Item("main"), TRUE)
  BY DEF Apply
<1>2. Succeeds("main", Item("main"), TRUE) => Item("main") \in excused'
  BY DEF Succeeds, Injected, Unanswered, Excuse
<1> QED
  BY <1>1, <1>2 DEF Update, Request

\* What neither main nor others change.
LEMMA PassedSame ==
  ASSUME setup' = setup, pc'["watcher"] = pc["watcher"], tries'["watcher"] = tries["watcher"]
  PROVE  /\ Op("watcher")' = Op("watcher") /\ Stage("watcher")' = Stage("watcher")
         /\ LastAttempt("watcher")' = LastAttempt("watcher")
         /\ \A kinds : Is(kinds)' = Is(kinds)
<1>1. WatcherProgram' = WatcherProgram /\ \A kinds : Is(kinds)' = Is(kinds)
  BY Fixed
<1>2. Op("watcher")' = Op("watcher") /\ Stage("watcher")' = Stage("watcher")
  BY <1>1 DEF Op, Stage, Program
<1> QED
  BY <1>1, <1>2 DEF LastAttempt

\* Steps of others leave the watcher in its place.
LEMMA PassedBefore ==
  ASSUME TypeIInv, TypeIInv', setup' = setup, pc'["watcher"] = pc["watcher"],
         tries'["watcher"] = tries["watcher"], lib \in {"running", "aborting"} \/ lib' = lib,
         NEW x, Passed(x)'
  PROVE  Passed(x) /\ watching /\ Item("watcher")' = Item("watcher")
<1>1. /\ Op("watcher")' = Op("watcher") /\ LastAttempt("watcher")' = LastAttempt("watcher")
      /\ \A kinds : Is(kinds)' = Is(kinds)
  BY PassedSame
<1>2. watching /\ signal
  <2>1. ASSUME ~(watching /\ signal) PROVE FALSE
    <3>1. pc["watcher"] = [stage |-> 1, op |-> 1, at |-> 1] /\ tries["watcher"] = (IF Is({"autoscaler"}) THEN Steps ELSE 3)
      BY <2>1 DEF TypeIInv, PartsOK
    <3>2. tries["watcher"] > 0
      BY <3>1, BoundAssumption
    <3> QED
      BY <3>1, <3>2, NextFresh
  <2> QED
    BY <2>1
<1>3. Reverting /\ watching'
  BY <1>2 DEF Passed, Reverting, Exited
<1>4. Passed(x)
  BY <1>1, <1>3 DEF Passed
<1>5. Item("watcher")' = Item("watcher")
  BY <1>2, <1>3, WatcherPlace, NextWatcherPlace
<1> QED
  BY <1>2, <1>4, <1>5

\* Main does not bring the chaos back to what is passed, or it is excused.
LEMMA PassedMain ==
  ASSUME TypeIInv, TypeIInv', PassedOK, Main, MainMoves
  PROVE  PassedOK'
<1>0. /\ Next /\ setup' = setup /\ Targets' = Targets /\ excused \subseteq excused' /\ lib \in {"running", "aborting"}
      /\ pc'["watcher"] = pc["watcher"] /\ tries'["watcher"] = tries["watcher"]
      /\ \A kinds : Is(kinds)' = Is(kinds)
  BY MainStep, ExcusedGrow, Fixed DEF Next, TypeIInv, MainMoves, OneMoves, Thread
<1> SUFFICES ASSUME NEW x \in Targets \ excused', Passed(x)'
             PROVE  ~object'[x].chaos \/ InHand(x)'
  BY <1>0 DEF PassedOK, NotExcused
<1>1. Passed(x) /\ watching /\ Item("watcher")' = Item("watcher") /\ x \in Target
  BY <1>0, PassedBefore, Place DEF TypeIInv, PlaceOK, Thread
<1>2. ~Is(Exec) /\ stress[x] # "starting"
  BY <1>1 DEF TypeIInv, PartsOK, Is, Watched, Exec, Hog
<1>3. CASE InHand(x)
  <2>1. copy'["watcher"] = copy["watcher"]
    BY DEF Main, Operation, Get, Undo, Mark, Confirm, Apply, Watch, Select, Call, Verify, Scaled, Listen,
           ReceiveSignal, TimeIsUp, ReceiveResult, Local, TypeIInv, IInv, ObjectsOK, Thread
  <2>2. Op("watcher")' = Op("watcher")
    BY <1>0, PassedSame
  <2> QED
    BY <1>0, <1>1, <1>3, <2>1, <2>2 DEF InHand
<1>4. CASE ~object[x].chaos
  <2>1. SUFFICES ASSUME object'[x].chaos PROVE FALSE
    OBVIOUS
  <2>2. Live(x)' /\ ~Live(x)
    BY <1>2, <1>4, <2>1 DEF Live
  <2>3. Apply /\ x = Item("main")
    BY <1>0, <1>1, <2>2, LiveStep
  <2> QED
    BY <1>1, <1>2, <1>4, <2>1, <2>3, ApplyExcuses
<1> QED
  BY <1>0, <1>1, <1>3, <1>4 DEF PassedOK, NotExcused

\* Nor do the others; the signal finds the watcher at its beginning.
LEMMA PassedEnvironment ==
  ASSUME TypeIInv, TypeIInv', PassedOK, Environment
  PROVE  PassedOK'
<1>0. /\ Next /\ setup' = setup /\ Targets' = Targets /\ excused' = excused /\ lib' = lib
      /\ pc' = pc /\ tries' = tries
      /\ \A kinds : Is(kinds)' = Is(kinds)
  <2>1. excused' = excused /\ lib' = lib /\ pc' = pc /\ tries' = tries
    BY DEF Environment, Signal, Edit, StressStarts, StressReturns, threadVars, history
  <2> QED
    BY <2>1, ExcusedGrow, Fixed DEF Next
<1> SUFFICES ASSUME NEW x \in Targets \ excused, Passed(x)'
             PROVE  ~object'[x].chaos \/ InHand(x)'
  BY <1>0 DEF PassedOK, NotExcused
<1>1. Passed(x) /\ watching /\ Item("watcher")' = Item("watcher") /\ x \in Target
  BY <1>0, PassedBefore, Place DEF TypeIInv, PlaceOK, Thread
<1>2. ~object[x].chaos \/ InHand(x)
  BY <1>1 DEF PassedOK, NotExcused
<1>3. copy' = copy /\ object'[x].chaos = object[x].chaos
  <2>1. CASE Signal
    BY <2>1 DEF Signal, objectVars
  <2>2. ASSUME NEW y \in Target, Edit(y) PROVE copy' = copy /\ object'[x].chaos = object[x].chaos
    BY <1>1, <2>2 DEF Edit, TypeIInv, IInv, ObjectsOK, Object
  <2>3. ASSUME NEW y \in Target, StressStarts(y) \/ StressReturns(y) PROVE FALSE
    BY <1>1, <2>3 DEF StressStarts, StressReturns, TypeIInv, PartsOK, Is, Watched, Exec, Hog
  <2> QED
    BY <2>1, <2>2, <2>3 DEF Environment
<1>4. Op("watcher")' = Op("watcher")
  BY <1>0, PassedSame
<1> QED
  BY <1>0, <1>1, <1>2, <1>3, <1>4 DEF InHand

----------------------------------------------------------------------------
(* A run that is aborted *)

\* Main of an exec library ends the process after it has cared for its pods.
LEMMA AbortedMain ==
  ASSUME TypeIInv, CopiesSame, CopyFresh, ToUndo, Main, MainMoves
  PROVE  AbortReverts'
<1>0. /\ Next /\ setup' = setup /\ lib \in {"running", "aborting"} /\ Targets' = Targets
  BY MainStep, Fixed DEF Next, TypeIInv
<1> SUFFICES ASSUME lib' = "aborted", NEW x \in Targets \ excused', Live(x)'
             PROVE  FALSE
  BY <1>0 DEF AbortReverts, Live
<1>1. lib = "aborting" /\ Is(Exec) /\ Alone /\ x \in Targets \ excused /\ x \in Target
  BY <1>0, ExcusedGrow, Place DEF MainMoves, Ends, Alone, TypeIInv, PartsOK, PlaceOK, Thread
<1>2. CASE Go("main") /\ (Op("main") = "undo" => Cleared)
  <2>1. Through
    BY <1>0, <1>1, <1>2, MainGoes DEF TypeIInv
  <2> QED
    BY <1>1, <1>2, <2>1, ThroughClears
<1>3. CASE Error("main") /\ Rest("main") \subseteq excused' /\ Op("main") \notin {"apply", "mark"}
  <2>1. Live(x)
    BY <1>0, <1>1, <1>3, LiveStep, OpAction
  <2>2. PICK i \in DOMAIN setup.targets : setup.targets[i] = x /\ Pending(i)
    BY <1>1, <2>1 DEF ToUndo, NotExcused, Active
  <2>3. Turn(i) = i
    BY <1>1 DEF Turn, Is, Exec, Hog
  <2>4. pc["main"].at <= i
    <3>1. CASE OneByTarget
      BY <2>2, <3>1, MainPlace DEF Pending
    <3>2. CASE ~OneByTarget /\ pc["main"].stage < UndoStage
      <4>1. ~Serial
        BY <1>1, <3>2 DEF OneByTarget
      <4>2. pc["main"].at = 1
        BY <1>1, <1>3, <3>2, <4>1, MainPlace DEF Placed
      <4> QED
        BY <2>2, <4>2, MainPlace
    <3>3. CASE ~OneByTarget /\ ~(pc["main"].stage < UndoStage)
      <4>1. pc["main"].at < i \/ pc["main"].at = i
        BY <2>2, <2>3, <3>3 DEF Pending
      <4> QED
        BY <2>2, <4>1, MainPlace
    <3> QED
      BY <3>1, <3>2, <3>3
  <2>5. x \in Rest("main")
    BY <2>2, <2>4, MainPlace DEF Rest
  <2> QED
    BY <1>3, <2>5
<1>4. ~Retry("main") /\ lib' # lib /\ lib' # "stopped" /\ ~ReceiveSignal
  BY <1>1 DEF Retry, ReceiveSignal
<1>5. ~\E y \in Target : ReceiveResult(y)
  BY <1>1 DEF ReceiveResult
<1> QED
  BY <1>1, <1>2, <1>3, <1>4, <1>5, MainOutcome

\* The watcher ends the process when its attempts are over, and nothing happens after that.
LEMMA AbortedOther ==
  ASSUME TypeIInv, PassedOK, AbortReverts, Watcher \/ Environment
  PROVE  AbortReverts'
<1>0. /\ setup' = setup /\ Targets' = Targets /\ Targets \subseteq Target /\ excused \subseteq excused'
      /\ lib' = lib \/ (Exit /\ lib' = "aborted")
  BY ExcusedGrow, OtherStep, Place DEF TypeIInv, PlaceOK, Thread, Next
<1> SUFFICES ASSUME lib' = "aborted", NEW x \in Targets \ excused'
             PROVE  ~object'[x].chaos
  BY <1>0 DEF AbortReverts
<1>1. CASE Exit
  <2>1. Passed(x) /\ object' = object
    BY <1>1 DEF Exit, Passed, objectVars
  <2>2. ~object[x].chaos
    BY <1>0, <1>1, <2>1 DEF PassedOK, InHand, NotExcused, Exit
  <2> QED
    BY <2>1, <2>2
<1>2. CASE lib = "aborted"
  <2>1. ~object[x].chaos
    BY <1>0, <1>2 DEF AbortReverts
  <2>2. ~Watcher
    BY <1>2 DEF Watcher, Operation, Get, Undo, Mark, Confirm, Look, Exit, Local, Does, At, Running, Reverting, Exited
  <2>3. CASE Signal
    BY <1>2, <2>3 DEF Signal, Exited
  <2>4. ASSUME NEW y \in Target, Edit(y) PROVE object'[x].chaos = object[x].chaos
    BY <1>0, <2>4 DEF Edit, TypeIInv, IInv, ObjectsOK, Object
  <2>5. ASSUME NEW y \in Target, StressStarts(y) \/ StressReturns(y) PROVE FALSE
    BY <1>2, <2>5 DEF StressStarts, StressReturns, Exited
  <2> QED
    BY <2>1, <2>2, <2>3, <2>4, <2>5 DEF Environment
<1> QED
  BY <1>0, <1>1, <1>2

----------------------------------------------------------------------------
(* The invariant of the revert *)

\* What a library owes, and what it is kept by.
LibIInv ==
  /\ TypeIInv /\ CopiesSame /\ CopyFresh
  /\ ToUndo /\ OomOK /\ Marked /\ Undone /\ Completed /\ PassedOK /\ AbortReverts

\* The invariant holds of the first state ...
LEMMA InitLib == Init => LibIInv
<1> SUFFICES ASSUME Init PROVE LibIInv
  OBVIOUS
<1>1. TypeIInv
  BY InitType
<1>2. \A x \in Target : object[x].chaos = FALSE /\ stress[x] = "none" /\ ~Live(x)
  BY DEF Init, Live
<1>3. Targets \subseteq Target
  BY <1>1, Place DEF TypeIInv, PlaceOK, Thread
<1>4. CopiesSame
  BY <1>2 DEF Init, CopiesSame
<1>5. CopyFresh
  <2>1. Item("main") \in Target
    BY <1>1, Place DEF TypeIInv, PlaceOK, Thread
  <2> QED
    BY <2>1 DEF Init, CopyFresh, Thread
<1>6. ToUndo /\ Marked /\ Undone /\ Completed /\ PassedOK /\ AbortReverts
  <2>1. Item("main") \in Targets
    BY <1>1, Place DEF TypeIInv, PlaceOK, Thread
  <2> QED
    BY <1>2, <1>3, <2>1 DEF ToUndo, Marked, Undone, Completed, PassedOK, AbortReverts, NotExcused
<1>7. OomOK
  BY <1>2, <1>3 DEF OomOK
<1> QED
  BY <1>1, <1>4, <1>5, <1>6, <1>7 DEF LibIInv

\* ... and every step keeps it.
LEMMA NextLib == LibIInv /\ [Next]_vars => LibIInv'
<1>1. ASSUME LibIInv, Next PROVE LibIInv'
  <2>1. TypeIInv /\ TypeIInv' /\ setup' = setup
    BY <1>1, NextType, OneStep DEF LibIInv
  <2>2. CopiesSame'
    BY <1>1, <2>1, CopiesStep DEF LibIInv
  <2>3. CASE Main
    <3>1. MainMoves
      BY <2>1, <2>3, MainStep DEF TypeIInv
    <3>2. CopyFresh' /\ ToUndo' /\ OomOK'
      BY <1>1, <2>1, <2>3, <3>1, CopyFreshMain, ToUndoMain, OomMain DEF LibIInv
    <3>3. Marked' /\ Undone' /\ Completed'
      BY <1>1, <2>1, <2>3, <3>1, MarkedMain, UndoneMain, CompletedMain DEF LibIInv
    <3>4. PassedOK' /\ AbortReverts'
      BY <1>1, <2>1, <2>3, <3>1, PassedMain, AbortedMain DEF LibIInv
    <3> QED
      BY <2>1, <2>2, <3>2, <3>3, <3>4 DEF LibIInv
  <2>4. CASE ~Main
    <3>1. /\ Watcher \/ Environment
          /\ ~Apply /\ pc'["main"] = pc["main"]
          /\ lib' \in {"running", "aborting"} => lib' = lib
      BY <1>1, <2>1, <2>4, OtherStep DEF Next, Main
    <3>2. CopyFresh' /\ ToUndo' /\ OomOK'
      BY <1>1, <2>1, <3>1, CopyFreshOther, ToUndoOther, OomOther DEF LibIInv
    <3>3. Marked' /\ Undone' /\ Completed'
      BY <1>1, <2>1, <2>4, <3>1, MarkedOther, UndoneOther, CompletedOther DEF LibIInv
    <3>4. PassedOK' /\ AbortReverts'
      BY <1>1, <2>1, <3>1, PassedWatcher, PassedEnvironment, AbortedOther DEF LibIInv
    <3> QED
      BY <2>1, <2>2, <3>2, <3>3, <3>4 DEF LibIInv
  <2> QED
    BY <2>3, <2>4
<1>2. ASSUME LibIInv, UNCHANGED vars PROVE LibIInv'
  <2>1. UNCHANGED <<setup, object, copy, record, lib, pc, tries, watching, signal, stress, oomed, unanswered, excused>>
    BY <1>2 DEF vars, objectVars, threadVars, execVars, history
  <2>2. TypeIInv'
    BY <1>2, NextType DEF LibIInv
  <2>3. /\ MainProgram' = MainProgram /\ WatcherProgram' = WatcherProgram
        /\ Targets' = Targets /\ OneByTarget' = OneByTarget /\ UndoStage' = UndoStage /\ UndoOp' = UndoOp
        /\ Serial' = Serial /\ Marks' = Marks
        /\ \A kinds : Is(kinds)' = Is(kinds)
        /\ \A i : Turn(i)' = Turn(i)
    BY <2>1, Fixed
  <2>4. \A t \in Thread : Stage(t)' = Stage(t) /\ Op(t)' = Op(t) /\ Item(t)' = Item(t)
    BY <2>1, <2>3 DEF Stage, Op, Item, Program
  <2>5. /\ \A x : Live(x)' = Live(x) /\ Stressed(x)' = Stressed(x)
        /\ \A i : Pending(i)' = Pending(i)
    BY <2>1, <2>3, <2>4 DEF Live, Stressed, Pending, Thread
  <2>6. CopiesSame' /\ CopyFresh'
    BY <1>2, <2>1, <2>3, <2>4 DEF LibIInv, CopiesSame, CopyFresh, Thread
  <2>7. ToUndo' /\ Undone'
    BY <1>2, <2>1, <2>3, <2>4, <2>5 DEF LibIInv, ToUndo, Undone, Alone, Active, NotExcused, Thread
  <2>8. OomOK' /\ Marked'
    BY <1>2, <2>1, <2>3, <2>4, <2>5 DEF LibIInv, OomOK, Marked, NotExcused, Thread
  <2>9. Completed' /\ AbortReverts'
    BY <1>2, <2>1, <2>3, <2>5 DEF LibIInv, Completed, AbortReverts, NotExcused
  <2>10. PassedOK'
    <3>1. \A x : Passed(x)' = Passed(x) /\ InHand(x)' = InHand(x)
      BY <2>1, <2>3, <2>4 DEF Passed, InHand, Reverting, Exited, LastAttempt, Thread
    <3> QED
      BY <1>2, <2>1, <2>3, <3>1 DEF LibIInv, PassedOK, NotExcused
  <2> QED
    BY <2>2, <2>6, <2>7, <2>8, <2>9, <2>10 DEF LibIInv
<1> QED
  BY <1>1, <1>2

\* In every run: what is live is still to be undone by main, or not yet behind the watcher, or recorded.
THEOREM LibInvariance == Spec => []LibIInv
  BY InitLib, NextLib, PTL DEF Spec

\* A library that reports success has taken back all of its chaos, whatever the targets, the
\* conflicts, the failures and the ends of the commands.
THEOREM SuccessComplete == Spec => []SuccessIsComplete
<1>1. LibIInv => SuccessIsComplete
  BY DEF LibIInv, Completed, NotExcused, Live, SuccessIsComplete
<1> QED
  BY <1>1, LibInvariance, PTL

\* What an error leaves in place is in the result as injected.
THEOREM LeftRecorded == Spec => []LeftIsRecorded
<1>1. ASSUME LibIInv PROVE LeftIsRecorded
  <2>1. setup.kind \in Kinds
    BY <1>1, SetupOK DEF LibIInv, TypeIInv, TypeOK
  <2>2. ~Is({"drain", "fio", "powerfulseal"}) /\ ~(Is({"memoryExec"}) /\ ~Serial) => Marks
    BY <2>1 DEF Marks, Is, Kinds, Watched, Exec, Hog
  <2> QED
    BY <1>1, <2>2 DEF LibIInv, Marked, NotExcused, Live, LeftIsRecorded
<1> QED
  BY <1>1, LibInvariance, PTL

\* When the process ends by the abort, no chaos is in place, wherever the signal came in the
\* run of main, but for what AbortReverts excepts: a last attempt that has failed, and chaos that
\* main puts in place after it.
THEOREM AbortReverted == Spec => []AbortReverts
<1>1. LibIInv => AbortReverts
  BY DEF LibIInv
<1> QED
  BY <1>1, LibInvariance, PTL
=============================================================================
