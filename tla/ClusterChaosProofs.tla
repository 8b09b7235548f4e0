------------------------- MODULE ClusterChaosProofs -------------------------
(***************************************************************************)
(* Proofs about ClusterChaos, in two parts: the updates lose no edit of     *)
(* others, as a copy of an object is either overtaken, and its update        *)
(* refused, or current; and the type invariant, for which the programs of   *)
(* the libraries are gone through operation by operation.                   *)
(***************************************************************************)
EXTENDS ClusterChaos, SequenceTheorems, TLAPS

Object == [chaos : BOOLEAN, edits : Nat, version : Nat]

ObjectsOK ==
  /\ object \in [Target -> Object]
  /\ copy \in [Thread -> [Target -> Object]]
  /\ edited \in [Target -> Nat]

\* A copy is not newer than the object, and has its edits if it is not older.
CopiesOK ==
  \A t \in Thread, x \in Target :
    /\ copy[t][x].version <= object[x].version
    /\ copy[t][x].version = object[x].version => copy[t][x].edits = object[x].edits

IInv == ObjectsOK /\ CopiesOK /\ OthersKept

\* At the start the objects are those that nobody has changed.
LEMMA InitIInv == Init => IInv
  BY DEF Init, IInv, ObjectsOK, CopiesOK, OthersKept, Object

\* Steps that touch neither objects nor copies.
LEMMA SameIInv ==
  ASSUME IInv, UNCHANGED objectVars
  PROVE  IInv'
  BY DEF IInv, ObjectsOK, CopiesOK, OthersKept, objectVars

\* A change of objects that keeps their edits and gives them another version.
Bump ==
  /\ object' \in [Target -> Object]
  /\ \A y \in Target :
       /\ object'[y].edits = object[y].edits
       /\ \/ object'[y].version = object[y].version
          \/ object'[y].version = object[y].version + 1

\* Such a change keeps the invariant: what was overtaken stays so.
LEMMA BumpIInv ==
  ASSUME IInv, UNCHANGED <<copy, edited>>, Bump
  PROVE  IInv'
<1>1. ObjectsOK' /\ OthersKept'
  BY DEF IInv, ObjectsOK, OthersKept, Bump
<1>2. ASSUME NEW t \in Thread, NEW y \in Target
      PROVE  /\ copy'[t][y].version <= object'[y].version
             /\ copy'[t][y].version = object'[y].version => copy'[t][y].edits = object'[y].edits
  <2>1. /\ copy[t][y].version \in Nat /\ object[y].version \in Nat
        /\ copy[t][y].version <= object[y].version
        /\ copy[t][y].version = object[y].version => copy[t][y].edits = object[y].edits
    BY DEF IInv, ObjectsOK, CopiesOK, Object
  <2>2. copy' = copy /\ object'[y].edits = object[y].edits
    BY DEF Bump
  <2>3. \/ object'[y].version = object[y].version
        \/ object'[y].version = object[y].version + 1
    BY DEF Bump
  <2> QED
    BY <2>1, <2>2, <2>3
<1> QED
  BY <1>1, <1>2 DEF IInv, CopiesOK

\* A change that is not based on a copy: kubectl, a creation, a deletion, a command.
LEMMA PutIInv ==
  ASSUME IInv, NEW x, NEW chaos \in BOOLEAN, object' = Put(x, chaos), UNCHANGED <<copy, edited>>
  PROVE  IInv'
<1>1. CASE object' = object
  BY <1>1, SameIInv DEF objectVars
<1>2. CASE object' # object
  <2>1. object' = [object EXCEPT ![x].chaos = chaos, ![x].version = @ + 1] /\ x \in Target
    <3>1. object' = [object EXCEPT ![x].chaos = chaos, ![x].version = @ + 1]
      BY <1>2 DEF Put
    <3>2. ASSUME x \notin Target PROVE FALSE
      BY <1>2, <3>1, <3>2 DEF IInv, ObjectsOK
    <3> QED
      BY <3>1, <3>2
  <2>2. Bump
    BY <2>1 DEF IInv, ObjectsOK, Object, Bump
  <2> QED
    BY <2>2, BumpIInv
<1> QED
  BY <1>1, <1>2

\* The edit of another client.
LEMMA EditIInv ==
  ASSUME IInv, NEW x \in Target, Edit(x)
  PROVE  IInv'
<1>1. /\ object' \in [Target -> Object]
      /\ object'[x].edits = object[x].edits + 1 /\ object'[x].version = object[x].version + 1
      /\ \A y \in Target \ {x} : object'[y] = object[y]
  <2>1. object \in [Target -> Object] /\ object[x] \in Object
    BY DEF IInv, ObjectsOK
  <2>2. object' = [object EXCEPT ![x].edits = @ + 1, ![x].version = @ + 1]
    BY DEF Edit
  <2>3. object' = [object EXCEPT ![x] = [chaos |-> object[x].chaos, edits |-> object[x].edits + 1,
                                         version |-> object[x].version + 1]]
    BY <2>1, <2>2 DEF Object
  <2> QED
    BY <2>1, <2>3 DEF Object
<1>2. /\ edited' \in [Target -> Nat] /\ edited'[x] = edited[x] + 1
      /\ \A y \in Target \ {x} : edited'[y] = edited[y]
  BY DEF IInv, ObjectsOK, Edit
<1>3. UNCHANGED copy
  BY DEF Edit
<1>4. ObjectsOK' /\ OthersKept'
  BY <1>1, <1>2, <1>3 DEF IInv, ObjectsOK, OthersKept
<1>5. ASSUME NEW t \in Thread, NEW y \in Target
      PROVE  /\ copy'[t][y].version <= object'[y].version
             /\ copy'[t][y].version = object'[y].version => copy'[t][y].edits = object'[y].edits
  <2>1. /\ copy[t][y].version \in Nat /\ object[y].version \in Nat
        /\ copy[t][y].version <= object[y].version
        /\ copy[t][y].version = object[y].version => copy[t][y].edits = object[y].edits
    BY DEF IInv, ObjectsOK, CopiesOK, Object
  <2>2. CASE y = x
    BY <1>1, <1>3, <2>1, <2>2
  <2>3. CASE y # x
    BY <1>1, <1>3, <2>1, <2>3
  <2> QED
    BY <2>2, <2>3
<1> QED
  BY <1>4, <1>5 DEF IInv, CopiesOK

\* Get
LEMMA GetIInv ==
  ASSUME IInv, NEW t \in Thread, Get(t)
  PROVE  IInv'
<1>1. UNCHANGED <<object, edited>>
  BY DEF Get, Does
<1>2. CASE UNCHANGED copy
  BY <1>1, <1>2, SameIInv DEF objectVars
<1>3. CASE copy' = [copy EXCEPT ![t][Item(t)] = object[Item(t)]]
  <2>1. /\ copy' \in [Thread -> [Target -> Object]]
        /\ \A u \in Thread, y \in Target : copy'[u][y] = copy[u][y] \/ copy'[u][y] = object[y]
    BY <1>3 DEF IInv, ObjectsOK
  <2>2. ObjectsOK' /\ OthersKept'
    BY <1>1, <2>1 DEF IInv, ObjectsOK, OthersKept
  <2>3. ASSUME NEW u \in Thread, NEW y \in Target
        PROVE  /\ copy'[u][y].version <= object'[y].version
               /\ copy'[u][y].version = object'[y].version => copy'[u][y].edits = object'[y].edits
    <3>1. /\ object'[y] = object[y] /\ object[y].version \in Nat
          /\ copy'[u][y] = copy[u][y] \/ copy'[u][y] = object[y]
      BY <1>1, <2>1 DEF IInv, ObjectsOK, Object
    <3>2. /\ copy[u][y].version <= object[y].version
          /\ copy[u][y].version = object[y].version => copy[u][y].edits = object[y].edits
      BY DEF IInv, CopiesOK
    <3>3. object[y].version <= object[y].version
      BY <3>1
    <3>4. CASE copy'[u][y] = copy[u][y]
      BY <3>1, <3>2, <3>4, Zenon
    <3>5. CASE copy'[u][y] = object[y]
      BY <3>1, <3>3, <3>5, Zenon
    <3> QED
      BY <3>1, <3>4, <3>5
  <2> QED
    BY <2>2, <2>3 DEF IInv, CopiesOK
<1> QED
  BY <1>2, <1>3 DEF Get

\* An update: one that is accepted was made from the object as it is.
LEMMA UpdateIInv ==
  ASSUME IInv, NEW t \in Thread, NEW x, NEW chaos \in BOOLEAN,
         Update(t, x, chaos), UNCHANGED <<copy, edited>>
  PROVE  IInv'
<1>1. CASE object' = object
  BY <1>1, SameIInv DEF objectVars
<1>2. CASE object' # object
  <2>1. /\ copy[t][x].chaos # chaos /\ Accepts(t, x)
        /\ object' = [object EXCEPT ![x] = [chaos |-> chaos, edits |-> copy[t][x].edits,
                                            version |-> @.version + 1]]
    BY <1>2 DEF Update, Written
  <2>2. x \in Target
    BY <1>2, <2>1 DEF IInv, ObjectsOK
  <2>3. copy[t][x].edits = object[x].edits /\ copy[t][x].edits \in Nat
    BY <2>1, <2>2 DEF Accepts, IInv, CopiesOK, ObjectsOK, Object
  <2>4. Bump
    BY <2>1, <2>2, <2>3 DEF IInv, ObjectsOK, Object, Bump
  <2> QED
    BY <2>4, BumpIInv
<1> QED
  BY <1>1, <1>2

----------------------------------------------------------------------------
(* Every step *)

\* Main applies its chaos to a target.
LEMMA ApplyIInv ==
  ASSUME IInv, Apply
  PROVE  IInv'
<1>1. UNCHANGED <<copy, edited>>
  BY DEF Apply, Does
<1>2. \/ UNCHANGED object
      \/ Update("main", Item("main"), TRUE)
      \/ Request("main", Item("main"), TRUE)
  BY DEF Apply
<1>3. CASE UNCHANGED object
  BY <1>1, <1>3, SameIInv DEF objectVars
<1>4. CASE Update("main", Item("main"), TRUE)
  BY <1>1, <1>4, UpdateIInv DEF Thread
<1>5. CASE Request("main", Item("main"), TRUE)
  BY <1>1, <1>5, PutIInv, SameIInv DEF Request, objectVars
<1> QED
  BY <1>2, <1>3, <1>4, <1>5

\* Main or the watcher takes it back.
LEMMA UndoIInv ==
  ASSUME IInv, NEW t \in Thread, Undo(t)
  PROVE  IInv'
<1>1. UNCHANGED <<copy, edited>>
  BY DEF Undo, Does
<1>2. \/ UNCHANGED object
      \/ Update(t, Item(t), FALSE)
      \/ Request(t, Item(t), FALSE)
  BY DEF Undo
<1>3. CASE UNCHANGED object
  BY <1>1, <1>3, SameIInv DEF objectVars
<1>4. CASE Update(t, Item(t), FALSE)
  BY <1>1, <1>4, UpdateIInv
<1>5. CASE Request(t, Item(t), FALSE)
  BY <1>1, <1>5, PutIInv, SameIInv DEF Request, objectVars
<1> QED
  BY <1>2, <1>3, <1>4, <1>5

\* The operations that both threads have.
LEMMA OperationIInv ==
  ASSUME IInv, NEW t \in Thread, Operation(t)
  PROVE  IInv'
<1>1. CASE Get(t)
  BY <1>1, GetIInv
<1>2. CASE Undo(t)
  BY <1>2, UndoIInv
<1>3. CASE Mark(t) \/ Confirm(t)
  BY <1>3, SameIInv DEF Mark, Confirm, Local, Does, objectVars
<1> QED
  BY <1>1, <1>2, <1>3 DEF Operation

\* The steps of main.
LEMMA MainIInv ==
  ASSUME IInv, Main
  PROVE  IInv'
<1>1. CASE Operation("main")
  BY <1>1, OperationIInv DEF Thread
<1>2. CASE Apply
  BY <1>2, ApplyIInv
<1>3. CASE Watch \/ Select \/ Call \/ Verify \/ Scaled
  BY <1>3, SameIInv DEF Watch, Select, Call, Verify, Scaled, Local, Does, objectVars
<1>4. CASE Listen \/ ReceiveSignal \/ TimeIsUp \/ (\E x \in Target : ReceiveResult(x))
  BY <1>4, SameIInv DEF Listen, ReceiveSignal, TimeIsUp, ReceiveResult, Local, Does, objectVars
<1> QED
  BY <1>1, <1>2, <1>3, <1>4 DEF Main

\* The steps of the abort watcher.
LEMMA WatcherIInv ==
  ASSUME IInv, Watcher
  PROVE  IInv'
<1>1. CASE Operation("watcher")
  BY <1>1, OperationIInv DEF Thread
<1>2. CASE Look \/ Exit
  BY <1>2, SameIInv DEF Look, Exit, Local, Does, objectVars
<1> QED
  BY <1>1, <1>2 DEF Watcher

\* The signal, the edits of others, the commands in the pods.
LEMMA EnvironmentIInv ==
  ASSUME IInv, Environment
  PROVE  IInv'
<1>1. CASE Signal
  BY <1>1, SameIInv DEF Signal, objectVars
<1>2. ASSUME NEW x \in Target, Edit(x) PROVE IInv'
  BY <1>2, EditIInv
<1>3. ASSUME NEW x \in Target, StressStarts(x) PROVE IInv'
  BY <1>3, PutIInv, SameIInv DEF StressStarts, objectVars
<1>4. ASSUME NEW x \in Target, StressReturns(x) PROVE IInv'
  BY <1>4, PutIInv, SameIInv DEF StressReturns, objectVars
<1> QED
  BY <1>1, <1>2, <1>3, <1>4 DEF Environment

\* The inductive invariant holds in every run: copies that still have the version of their
\* object have its edits too.
THEOREM Invariance == Spec => []IInv
<1>1. Init => IInv
  BY InitIInv
<1>2. IInv /\ [Next]_vars => IInv'
  <2> SUFFICES ASSUME IInv, [Next]_vars PROVE IInv'
    OBVIOUS
  <2>1. CASE Next
    BY <2>1, MainIInv, WatcherIInv, EnvironmentIInv DEF Next
  <2>2. CASE UNCHANGED vars
    BY <2>2, SameIInv DEF vars, objectVars
  <2> QED
    BY <2>1, <2>2
<1> QED
  BY <1>1, <1>2, PTL DEF Spec

\* For all targets, programs and bounds: no update of node-taint or pod-autoscaler, of main or
\* of the abort watcher, undoes what others have changed in the fields that the library does not
\* set itself.
THEOREM OthersAreKept == Spec => []OthersKept
<1>1. IInv => OthersKept
  BY DEF IInv
<1> QED
  BY <1>1, Invariance, PTL

----------------------------------------------------------------------------
(* Threads and programs *)

\* Where the programs of main have their undo, and when it is target i's turn.
OneByTarget == Is(Exec) /\ Serial
UndoStage == IF OneByTarget THEN 2 ELSE IF Is({"powerfulseal"}) THEN 3 ELSE 4
UndoOp == IF Is(Versioned) THEN 2 ELSE IF OneByTarget THEN 4 ELSE 1
Turn(i) == IF Is({"powerfulseal"}) THEN Len(setup.targets) + 1 - i ELSE i

\* Where the threads are.
PcOK ==
  /\ pc \in [Thread -> [stage : Nat, op : Nat, at : Nat]] /\ tries \in [Thread -> Nat]
  /\ \A t \in Thread : Stage(t).each \/ pc[t].at = 1

\* Which parts of the process are there when.
PartsOK ==
  /\ watching => Is(Watched)
  /\ signChan = "full" => signal
  /\ lib = "aborting" => Is(Exec)
  /\ lib \in {"aborting", "stopped", "aborted"} => signal
  /\ ~(watching /\ signal) =>
       /\ pc["watcher"] = [stage |-> 1, op |-> 1, at |-> 1]
       /\ tries["watcher"] = (IF Is({"autoscaler"}) THEN Steps ELSE 3)
  /\ \A x \in Target : stress[x] # "none" => Is(Exec) /\ x \in Targets

\* The libraries that record every target whose chaos is in place.
Marks == Is({"taint", "autoscaler", "partition", "cpuExec"}) \/ (Is({"memoryExec"}) /\ Serial)

----------------------------------------------------------------------------
(* The programs *)

\* What the assumption says of an experiment.
LEMMA SetupOK ==
  ASSUME setup \in Setups
  PROVE  /\ setup \in SetupType /\ setup.kind \in Kinds /\ setup.sequence \in {"serial", "parallel"}
         /\ setup.targets \in Seq(Target) /\ Len(setup.targets) \in Nat \ {0}
         /\ DOMAIN setup.targets = 1 .. Len(setup.targets)
         /\ \A i \in DOMAIN setup.targets : setup.targets[i] \in Target
<1>1. setup \in SetupType
  BY SetupAssumption
<1>2. setup.kind \in Kinds /\ setup.sequence \in {"serial", "parallel"} /\ setup.targets \in Seq(Target)
      /\ setup.targets # <<>>
  BY <1>1 DEF SetupType
<1> QED
  BY <1>1, <1>2

\* Stages joined.
LEMMA Join11 == \A a, b : <<a>> \o <<b>> = <<a, b>>
<1> TAKE a, b
<1> DEFINE S == {a, b}  s == <<a>> \o <<b>>  t == <<a, b>>
<1>1. s \in Seq(S) /\ t \in Seq(S) /\ Len(s) = 2 /\ Len(t) = 2
  OBVIOUS
<1>2. ASSUME NEW i \in 1 .. 2 PROVE s[i] = t[i]
  <2>1. i = 1 \/ i = 2
    OBVIOUS
  <2> QED
    BY <2>1
<1> HIDE DEF s, t
<1>3. s = t
  BY <1>1, <1>2, SeqEqual
<1> QED
  BY <1>3 DEF s, t

\* One stage and three.
LEMMA Join13 == \A a, b, c, d : <<a>> \o <<b, c, d>> = <<a, b, c, d>>
<1> TAKE a, b, c, d
<1> DEFINE S == {a, b, c, d}  s == <<a>> \o <<b, c, d>>  t == <<a, b, c, d>>
<1>1. s \in Seq(S) /\ t \in Seq(S) /\ Len(s) = 4 /\ Len(t) = 4
  OBVIOUS
<1>2. ASSUME NEW i \in 1 .. 4 PROVE s[i] = t[i]
  <2>1. i = 1 \/ i = 2 \/ i = 3 \/ i = 4
    OBVIOUS
  <2> QED
    BY <2>1
<1> HIDE DEF s, t
<1>3. s = t
  BY <1>1, <1>2, SeqEqual
<1> QED
  BY <1>3 DEF s, t

\* Three stages and two.
LEMMA Join32 == \A a, b, c, d, e : <<a, b, c>> \o <<d, e>> = <<a, b, c, d, e>>
<1> TAKE a, b, c, d, e
<1> DEFINE S == {a, b, c, d, e}  s == <<a, b, c>> \o <<d, e>>  t == <<a, b, c, d, e>>
<1>1. s \in Seq(S) /\ t \in Seq(S) /\ Len(s) = 5 /\ Len(t) = 5
  OBVIOUS
<1>2. ASSUME NEW i \in 1 .. 5 PROVE s[i] = t[i]
  <2>1. i = 1 \/ i = 2 \/ i = 3 \/ i = 4 \/ i = 5
    OBVIOUS
  <2> QED
    BY <2>1
<1> HIDE DEF s, t
<1>3. s = t
  BY <1>1, <1>2, SeqEqual
<1> QED
  BY <1>3 DEF s, t

\* The programs of main, written out.
LEMMA MainPrograms ==
  ASSUME setup \in Setups
  PROVE
  \/ /\ setup.kind = "taint"
     /\ MainProgram = <<Once(<<"probes", "watch">>), Each(<<"get", "select", "apply", "mark">>),
                        Once(<<"check">>), Each(<<"get", "undo", "unmark">>)>>
  \/ /\ setup.kind = "drain"
     /\ MainProgram = <<Once(<<"probes", "watch">>), Each(<<"select", "apply", "evict", "mark">>),
                        Once(<<"verify", "check">>), Each(<<"undo", "unmark">>), Once(<<"confirm">>)>>
  \/ /\ setup.kind = "autoscaler"
     /\ MainProgram = <<Once(<<"watch">>), Each(<<"get", "apply", "mark">>), Once(<<"scaled", "probes">>),
                        Each(<<"get", "undo", "unmark">>), Once(<<"confirm">>)>>
  \/ /\ setup.kind = "partition"
     /\ MainProgram = <<Once(<<"watch", "probes", "select">>), Each(<<"apply", "mark">>),
                        Once(<<"verify">>), Each(<<"undo", "confirm", "unmark">>)>>
  \/ /\ setup.kind = "powerfulseal"
     /\ MainProgram = <<Each(<<"apply">>), Once(<<"check">>), Each(<<"undo", "confirm">>)>>
  \/ /\ setup.kind \in Hog /\ Serial
     /\ MainProgram = <<Once(<<"probes", "listen", "select">>),
                        Each(<<"apply", "mark", "loop", "undo", "unmark">>)>>
  \/ /\ setup.kind = "cpuExec" /\ ~Serial
     /\ MainProgram = <<Once(<<"probes", "listen", "select">>), Each(<<"apply", "mark">>),
                        Once(<<"loop">>), Each(<<"undo", "unmark">>)>>
  \/ /\ setup.kind = "memoryExec" /\ ~Serial
     /\ MainProgram = <<Once(<<"probes", "listen", "select">>), Each(<<"apply">>),
                        Once(<<"loop">>), Each(<<"undo", "unmark">>)>>
  \/ /\ setup.kind = "fio" /\ Serial
     /\ MainProgram = <<Once(<<"probes">>), Each(<<"apply", "listen", "loop", "undo">>)>>
  \/ /\ setup.kind = "fio" /\ ~Serial
     /\ MainProgram = <<Once(<<"probes">>), Each(<<"apply">>), Once(<<"listen", "loop">>),
                        Each(<<"undo">>)>>
<1>1. setup.kind \in Kinds
  BY SetupOK
<1>2. CASE setup.kind = "taint"
  BY <1>2 DEF MainProgram, Is, NodeTaint
<1>3. CASE setup.kind = "drain"
  BY <1>3 DEF MainProgram, Is, NodeDrain
<1>4. CASE setup.kind = "autoscaler"
  BY <1>4, Join32 DEF MainProgram, Is, PodAutoscaler, Recovery
<1>5. CASE setup.kind = "partition"
  BY <1>5 DEF MainProgram, Is, PodNetworkPartition
<1>6. CASE setup.kind = "powerfulseal"
  BY <1>6 DEF MainProgram, Is, Powerfulseal
<1>7. CASE setup.kind = "cpuExec"
  BY <1>7, Join11, Join13 DEF MainProgram, Is, PodCPUHogExec, Hog
<1>8. CASE setup.kind = "memoryExec"
  BY <1>8, Join11, Join13 DEF MainProgram, Is, PodMemoryHogExec, Hog
<1>9. CASE setup.kind = "fio"
  BY <1>9, Join11, Join13 DEF MainProgram, Is, PodFioStress
<1> QED
  BY <1>1, <1>2, <1>3, <1>4, <1>5, <1>6, <1>7, <1>8, <1>9 DEF Kinds, Watched, Exec, Hog

\* The operations.
OpNames ==
  {"probes", "watch", "get", "select", "apply", "mark", "check", "undo", "unmark", "evict", "verify",
   "confirm", "scaled", "listen", "loop", "look"}

\* The stages of a program.
StageType == [each : BOOLEAN, ops : Seq(OpNames) \ {<<>>}]

\* What the programs of main have in common: the stages, ...
MainShape ==
  /\ MainProgram \in Seq(StageType)
  /\ UndoStage \in DOMAIN MainProgram /\ MainProgram[UndoStage].each
  /\ UndoOp \in DOMAIN MainProgram[UndoStage].ops
  /\ OneByTarget => Len(MainProgram) = 2

\* ... and where the operations are.
Placed(s, o) ==
  LET stage == MainProgram[s]
      op == stage.ops[o]
  IN /\ op \in OpNames
     /\ op = "undo" <=> s = UndoStage /\ o = UndoOp
     /\ op = "apply" => stage.each /\ (IF OneByTarget THEN s = 2 /\ o = 1 ELSE s < UndoStage)
     /\ op = "apply" /\ Marks => o < Len(stage.ops) /\ stage.ops[o + 1] = "mark"
     /\ op = "unmark" => s = UndoStage /\ o > UndoOp
     /\ op = "loop" => /\ Is(Exec)
                       /\ IF Serial THEN s = 2 /\ o = 3 /\ o < Len(stage.ops)
                          ELSE s = 3 /\ ~stage.each /\ o = Len(stage.ops)
     /\ op = "scaled" => Is({"autoscaler"}) /\ s = 3
     /\ op = "watch" => Is(Watched)
     /\ op = "get" => Is(Versioned)
     /\ op \in {"verify", "confirm", "scaled"} => ~Is(Exec)
     /\ Is({"powerfulseal"}) => (op \in {"undo", "confirm"} <=> s = UndoStage)
     /\ Is(Versioned) /\ s = UndoStage /\ o = 1 => op = "get"
     /\ Is(Exec) /\ ~Serial /\ s < UndoStage /\ op \notin {"apply", "mark"} => ~stage.each
     /\ OneByTarget => (s = 1 => ~stage.each) /\ (s = 2 /\ o = 1 => op = "apply")

\* In every library.
LEMMA MainTable ==
  ASSUME setup \in Setups
  PROVE  /\ MainShape
         /\ \A s \in DOMAIN MainProgram : \A o \in DOMAIN MainProgram[s].ops : Placed(s, o)
<1>1. CASE /\ setup.kind = "taint"
          /\ MainProgram = <<Once(<<"probes", "watch">>),
                              Each(<<"get", "select", "apply", "mark">>), Once(<<"check">>),
                              Each(<<"get", "undo", "unmark">>)>>
  <2>1. /\ UndoStage = 4 /\ UndoOp = 2 /\ ~OneByTarget /\ Marks
        /\ ~Is(Exec) /\ Is(Watched) /\ Is(Versioned)
        /\ ~Is({"powerfulseal"}) /\ ~Is({"autoscaler"})
    BY <1>1 DEF Is, OneByTarget, UndoStage, UndoOp, Marks, Exec, Hog, Watched, Versioned
  <2>2. /\ Len(MainProgram) = 4 /\ DOMAIN MainProgram = 1 .. 4
        /\ MainProgram[1] = Once(<<"probes", "watch">>)
        /\ MainProgram[2] = Each(<<"get", "select", "apply", "mark">>)
        /\ MainProgram[3] = Once(<<"check">>)
        /\ MainProgram[4] = Each(<<"get", "undo", "unmark">>)
    BY <1>1
  <2>3. MainShape
    <3>1. MainProgram \in Seq(StageType)
      BY <1>1 DEF StageType, OpNames, Once, Each
    <3> QED
      BY <2>1, <2>2, <3>1 DEF MainShape, Once, Each
  <2>4. ASSUME NEW o \in DOMAIN MainProgram[1].ops PROVE Placed(1, o)
    <3>1. o = 1 \/ o = 2
      BY <2>2 DEF Once, Each
    <3> QED
      BY <1>1, <2>1, <2>2, <3>1 DEF Placed, OpNames, Once, Each
  <2>5. ASSUME NEW o \in DOMAIN MainProgram[2].ops PROVE Placed(2, o)
    <3>1. o = 1 \/ o = 2 \/ o = 3 \/ o = 4
      BY <2>2 DEF Once, Each
    <3> QED
      BY <1>1, <2>1, <2>2, <3>1 DEF Placed, OpNames, Once, Each
  <2>6. ASSUME NEW o \in DOMAIN MainProgram[3].ops PROVE Placed(3, o)
    <3>1. o = 1
      BY <2>2 DEF Once, Each
    <3> QED
      BY <1>1, <2>1, <2>2, <3>1 DEF Placed, OpNames, Once, Each
  <2>7. ASSUME NEW o \in DOMAIN MainProgram[4].ops PROVE Placed(4, o)
    <3>1. o = 1 \/ o = 2 \/ o = 3
      BY <2>2 DEF Once, Each
    <3> QED
      BY <1>1, <2>1, <2>2, <3>1 DEF Placed, OpNames, Once, Each
  <2> QED
    <3>1. ASSUME NEW s \in DOMAIN MainProgram PROVE s = 1 \/ s = 2 \/ s = 3 \/ s = 4
      BY <2>2
    <3> QED
      BY <2>3, <2>4, <2>5, <2>6, <2>7, <3>1
<1>2. CASE /\ setup.kind = "drain"
          /\ MainProgram = <<Once(<<"probes", "watch">>),
                              Each(<<"select", "apply", "evict", "mark">>),
                              Once(<<"verify", "check">>), Each(<<"undo", "unmark">>),
                              Once(<<"confirm">>)>>
  <2>1. /\ UndoStage = 4 /\ UndoOp = 1 /\ ~OneByTarget /\ ~Marks
        /\ ~Is(Exec) /\ Is(Watched) /\ ~Is(Versioned)
        /\ ~Is({"powerfulseal"}) /\ ~Is({"autoscaler"})
    BY <1>2 DEF Is, OneByTarget, UndoStage, UndoOp, Marks, Exec, Hog, Watched, Versioned
  <2>2. /\ Len(MainProgram) = 5 /\ DOMAIN MainProgram = 1 .. 5
        /\ MainProgram[1] = Once(<<"probes", "watch">>)
        /\ MainProgram[2] = Each(<<"select", "apply", "evict", "mark">>)
        /\ MainProgram[3] = Once(<<"verify", "check">>)
        /\ MainProgram[4] = Each(<<"undo", "unmark">>)
        /\ MainProgram[5] = Once(<<"confirm">>)
    BY <1>2
  <2>3. MainShape
    <3>1. MainProgram \in Seq(StageType)
      BY <1>2 DEF StageType, OpNames, Once, Each
    <3> QED
      BY <2>1, <2>2, <3>1 DEF MainShape, Once, Each
  <2>4. ASSUME NEW o \in DOMAIN MainProgram[1].ops PROVE Placed(1, o)
    <3>1. o = 1 \/ o = 2
      BY <2>2 DEF Once, Each
    <3> QED
      BY <1>2, <2>1, <2>2, <3>1 DEF Placed, OpNames, Once, Each
  <2>5. ASSUME NEW o \in DOMAIN MainProgram[2].ops PROVE Placed(2, o)
    <3>1. o = 1 \/ o = 2 \/ o = 3 \/ o = 4
      BY <2>2 DEF Once, Each
    <3> QED
      BY <1>2, <2>1, <2>2, <3>1 DEF Placed, OpNames, Once, Each
  <2>6. ASSUME NEW o \in DOMAIN MainProgram[3].ops PROVE Placed(3, o)
    <3>1. o = 1 \/ o = 2
      BY <2>2 DEF Once, Each
    <3> QED
      BY <1>2, <2>1, <2>2, <3>1 DEF Placed, OpNames, Once, Each
  <2>7. ASSUME NEW o \in DOMAIN MainProgram[4].ops PROVE Placed(4, o)
    <3>1. o = 1 \/ o = 2
      BY <2>2 DEF Once, Each
    <3> QED
      BY <1>2, <2>1, <2>2, <3>1 DEF Placed, OpNames, Once, Each
  <2>8. ASSUME NEW o \in DOMAIN MainProgram[5].ops PROVE Placed(5, o)
    <3>1. o = 1
      BY <2>2 DEF Once, Each
    <3> QED
      BY <1>2, <2>1, <2>2, <3>1 DEF Placed, OpNames, Once, Each
  <2> QED
    <3>1. ASSUME NEW s \in DOMAIN MainProgram PROVE s = 1 \/ s = 2 \/ s = 3 \/ s = 4 \/ s = 5
      BY <2>2
    <3> QED
      BY <2>3, <2>4, <2>5, <2>6, <2>7, <2>8, <3>1
<1>3. CASE /\ setup.kind = "autoscaler"
          /\ MainProgram = <<Once(<<"watch">>), Each(<<"get", "apply", "mark">>),
                              Once(<<"scaled", "probes">>), Each(<<"get", "undo", "unmark">>),
                              Once(<<"confirm">>)>>
  <2>1. /\ UndoStage = 4 /\ UndoOp = 2 /\ ~OneByTarget /\ Marks
        /\ ~Is(Exec) /\ Is(Watched) /\ Is(Versioned)
        /\ ~Is({"powerfulseal"}) /\ Is({"autoscaler"})
    BY <1>3 DEF Is, OneByTarget, UndoStage, UndoOp, Marks, Exec, Hog, Watched, Versioned
  <2>2. /\ Len(MainProgram) = 5 /\ DOMAIN MainProgram = 1 .. 5
        /\ MainProgram[1] = Once(<<"watch">>)
        /\ MainProgram[2] = Each(<<"get", "apply", "mark">>)
        /\ MainProgram[3] = Once(<<"scaled", "probes">>)
        /\ MainProgram[4] = Each(<<"get", "undo", "unmark">>)
        /\ MainProgram[5] = Once(<<"confirm">>)
    BY <1>3
  <2>3. MainShape
    <3>1. MainProgram \in Seq(StageType)
      BY <1>3 DEF StageType, OpNames, Once, Each
    <3> QED
      BY <2>1, <2>2, <3>1 DEF MainShape, Once, Each
  <2>4. ASSUME NEW o \in DOMAIN MainProgram[1].ops PROVE Placed(1, o)
    <3>1. o = 1
      BY <2>2 DEF Once, Each
    <3> QED
      BY <1>3, <2>1, <2>2, <3>1 DEF Placed, OpNames, Once, Each
  <2>5. ASSUME NEW o \in DOMAIN MainProgram[2].ops PROVE Placed(2, o)
    <3>1. o = 1 \/ o = 2 \/ o = 3
      BY <2>2 DEF Once, Each
    <3> QED
      BY <1>3, <2>1, <2>2, <3>1 DEF Placed, OpNames, Once, Each
  <2>6. ASSUME NEW o \in DOMAIN MainProgram[3].ops PROVE Placed(3, o)
    <3>1. o = 1 \/ o = 2
      BY <2>2 DEF Once, Each
    <3> QED
      BY <1>3, <2>1, <2>2, <3>1 DEF Placed, OpNames, Once, Each
  <2>7. ASSUME NEW o \in DOMAIN MainProgram[4].ops PROVE Placed(4, o)
    <3>1. o = 1 \/ o = 2 \/ o = 3
      BY <2>2 DEF Once, Each
    <3> QED
      BY <1>3, <2>1, <2>2, <3>1 DEF Placed, OpNames, Once, Each
  <2>8. ASSUME NEW o \in DOMAIN MainProgram[5].ops PROVE Placed(5, o)
    <3>1. o = 1
      BY <2>2 DEF Once, Each
    <3> QED
      BY <1>3, <2>1, <2>2, <3>1 DEF Placed, OpNames, Once, Each
  <2> QED
    <3>1. ASSUME NEW s \in DOMAIN MainProgram PROVE s = 1 \/ s = 2 \/ s = 3 \/ s = 4 \/ s = 5
      BY <2>2
    <3> QED
      BY <2>3, <2>4, <2>5, <2>6, <2>7, <2>8, <3>1
<1>4. CASE /\ setup.kind = "partition"
          /\ MainProgram = <<Once(<<"watch", "probes", "select">>), Each(<<"apply", "mark">>),
                              Once(<<"verify">>), Each(<<"undo", "confirm", "unmark">>)>>
  <2>1. /\ UndoStage = 4 /\ UndoOp = 1 /\ ~OneByTarget /\ Marks
        /\ ~Is(Exec) /\ Is(Watched) /\ ~Is(Versioned)
        /\ ~Is({"powerfulseal"}) /\ ~Is({"autoscaler"})
    BY <1>4 DEF Is, OneByTarget, UndoStage, UndoOp, Marks, Exec, Hog, Watched, Versioned
  <2>2. /\ Len(MainProgram) = 4 /\ DOMAIN MainProgram = 1 .. 4
        /\ MainProgram[1] = Once(<<"watch", "probes", "select">>)
        /\ MainProgram[2] = Each(<<"apply", "mark">>)
        /\ MainProgram[3] = Once(<<"verify">>)
        /\ MainProgram[4] = Each(<<"undo", "confirm", "unmark">>)
    BY <1>4
  <2>3. MainShape
    <3>1. MainProgram \in Seq(StageType)
      BY <1>4 DEF StageType, OpNames, Once, Each
    <3> QED
      BY <2>1, <2>2, <3>1 DEF MainShape, Once, Each
  <2>4. ASSUME NEW o \in DOMAIN MainProgram[1].ops PROVE Placed(1, o)
    <3>1. o = 1 \/ o = 2 \/ o = 3
      BY <2>2 DEF Once, Each
    <3> QED
      BY <1>4, <2>1, <2>2, <3>1 DEF Placed, OpNames, Once, Each
  <2>5. ASSUME NEW o \in DOMAIN MainProgram[2].ops PROVE Placed(2, o)
    <3>1. o = 1 \/ o = 2
      BY <2>2 DEF Once, Each
    <3> QED
      BY <1>4, <2>1, <2>2, <3>1 DEF Placed, OpNames, Once, Each
  <2>6. ASSUME NEW o \in DOMAIN MainProgram[3].ops PROVE Placed(3, o)
    <3>1. o = 1
      BY <2>2 DEF Once, Each
    <3> QED
      BY <1>4, <2>1, <2>2, <3>1 DEF Placed, OpNames, Once, Each
  <2>7. ASSUME NEW o \in DOMAIN MainProgram[4].ops PROVE Placed(4, o)
    <3>1. o = 1 \/ o = 2 \/ o = 3
      BY <2>2 DEF Once, Each
    <3> QED
      BY <1>4, <2>1, <2>2, <3>1 DEF Placed, OpNames, Once, Each
  <2> QED
    <3>1. ASSUME NEW s \in DOMAIN MainProgram PROVE s = 1 \/ s = 2 \/ s = 3 \/ s = 4
      BY <2>2
    <3> QED
      BY <2>3, <2>4, <2>5, <2>6, <2>7, <3>1
<1>5. CASE /\ setup.kind = "powerfulseal"
          /\ MainProgram = <<Each(<<"apply">>), Once(<<"check">>), Each(<<"undo", "confirm">>)>>
  <2>1. /\ UndoStage = 3 /\ UndoOp = 1 /\ ~OneByTarget /\ ~Marks
        /\ ~Is(Exec) /\ ~Is(Watched) /\ ~Is(Versioned)
        /\ Is({"powerfulseal"}) /\ ~Is({"autoscaler"})
    BY <1>5 DEF Is, OneByTarget, UndoStage, UndoOp, Marks, Exec, Hog, Watched, Versioned
  <2>2. /\ Len(MainProgram) = 3 /\ DOMAIN MainProgram = 1 .. 3
        /\ MainProgram[1] = Each(<<"apply">>)
        /\ MainProgram[2] = Once(<<"check">>)
        /\ MainProgram[3] = Each(<<"undo", "confirm">>)
    BY <1>5
  <2>3. MainShape
    <3>1. MainProgram \in Seq(StageType)
      BY <1>5 DEF StageType, OpNames, Once, Each
    <3> QED
      BY <2>1, <2>2, <3>1 DEF MainShape, Once, Each
  <2>4. ASSUME NEW o \in DOMAIN MainProgram[1].ops PROVE Placed(1, o)
    <3>1. o = 1
      BY <2>2 DEF Once, Each
    <3> QED
      BY <1>5, <2>1, <2>2, <3>1 DEF Placed, OpNames, Once, Each
  <2>5. ASSUME NEW o \in DOMAIN MainProgram[2].ops PROVE Placed(2, o)
    <3>1. o = 1
      BY <2>2 DEF Once, Each
    <3> QED
      BY <1>5, <2>1, <2>2, <3>1 DEF Placed, OpNames, Once, Each
  <2>6. ASSUME NEW o \in DOMAIN MainProgram[3].ops PROVE Placed(3, o)
    <3>1. o = 1 \/ o = 2
      BY <2>2 DEF Once, Each
    <3> QED
      BY <1>5, <2>1, <2>2, <3>1 DEF Placed, OpNames, Once, Each
  <2> QED
    <3>1. ASSUME NEW s \in DOMAIN MainProgram PROVE s = 1 \/ s = 2 \/ s = 3
      BY <2>2
    <3> QED
      BY <2>3, <2>4, <2>5, <2>6, <3>1
<1>6. CASE /\ setup.kind \in Hog /\ Serial
          /\ MainProgram = <<Once(<<"probes", "listen", "select">>),
                              Each(<<"apply", "mark", "loop", "undo", "unmark">>)>>
  <2>1. /\ UndoStage = 2 /\ UndoOp = 4 /\ OneByTarget /\ Marks
        /\ Is(Exec) /\ ~Is(Watched) /\ ~Is(Versioned)
        /\ ~Is({"powerfulseal"}) /\ ~Is({"autoscaler"})
    BY <1>6 DEF Is, OneByTarget, UndoStage, UndoOp, Marks, Exec, Hog, Watched, Versioned
  <2>2. /\ Len(MainProgram) = 2 /\ DOMAIN MainProgram = 1 .. 2
        /\ MainProgram[1] = Once(<<"probes", "listen", "select">>)
        /\ MainProgram[2] = Each(<<"apply", "mark", "loop", "undo", "unmark">>)
    BY <1>6
  <2>3. MainShape
    <3>1. MainProgram \in Seq(StageType)
      BY <1>6 DEF StageType, OpNames, Once, Each
    <3> QED
      BY <2>1, <2>2, <3>1 DEF MainShape, Once, Each
  <2>4. ASSUME NEW o \in DOMAIN MainProgram[1].ops PROVE Placed(1, o)
    <3>1. o = 1 \/ o = 2 \/ o = 3
      BY <2>2 DEF Once, Each
    <3>2. CASE o = 1
      BY <1>6, <2>1, <2>2, <3>2 DEF Placed, OpNames, Once, Each
    <3>3. CASE o = 2
      BY <1>6, <2>1, <2>2, <3>3 DEF Placed, OpNames, Once, Each
    <3>4. CASE o = 3
      BY <1>6, <2>1, <2>2, <3>4 DEF Placed, OpNames, Once, Each
    <3> QED
      BY <3>1, <3>2, <3>3, <3>4
  <2>5. ASSUME NEW o \in DOMAIN MainProgram[2].ops PROVE Placed(2, o)
    <3>1. o = 1 \/ o = 2 \/ o = 3 \/ o = 4 \/ o = 5
      BY <2>2 DEF Once, Each
    <3>2. CASE o = 1
      BY <1>6, <2>1, <2>2, <3>2 DEF Placed, OpNames, Once, Each
    <3>3. CASE o = 2
      BY <1>6, <2>1, <2>2, <3>3 DEF Placed, OpNames, Once, Each
    <3>4. CASE o = 3
      <4>1. MainProgram[2].ops[3] = "loop" /\ Len(MainProgram[2].ops) = 5 /\ Serial
        BY <1>6, <2>2 DEF Each
      <4> QED
        BY <2>1, <3>4, <4>1 DEF Placed, OpNames
    <3>5. CASE o = 4
      BY <1>6, <2>1, <2>2, <3>5 DEF Placed, OpNames, Once, Each
    <3>6. CASE o = 5
      BY <1>6, <2>1, <2>2, <3>6 DEF Placed, OpNames, Once, Each
    <3> QED
      BY <3>1, <3>2, <3>3, <3>4, <3>5, <3>6
  <2> QED
    <3>1. ASSUME NEW s \in DOMAIN MainProgram PROVE s = 1 \/ s = 2
      BY <2>2
    <3> QED
      BY <2>3, <2>4, <2>5, <3>1
<1>7. CASE /\ setup.kind = "cpuExec" /\ ~Serial
          /\ MainProgram = <<Once(<<"probes", "listen", "select">>), Each(<<"apply", "mark">>),
                              Once(<<"loop">>), Each(<<"undo", "unmark">>)>>
  <2>1. /\ UndoStage = 4 /\ UndoOp = 1 /\ ~OneByTarget /\ Marks
        /\ Is(Exec) /\ ~Is(Watched) /\ ~Is(Versioned)
        /\ ~Is({"powerfulseal"}) /\ ~Is({"autoscaler"})
    BY <1>7 DEF Is, OneByTarget, UndoStage, UndoOp, Marks, Exec, Hog, Watched, Versioned
  <2>2. /\ Len(MainProgram) = 4 /\ DOMAIN MainProgram = 1 .. 4
        /\ MainProgram[1] = Once(<<"probes", "listen", "select">>)
        /\ MainProgram[2] = Each(<<"apply", "mark">>)
        /\ MainProgram[3] = Once(<<"loop">>)
        /\ MainProgram[4] = Each(<<"undo", "unmark">>)
    BY <1>7
  <2>3. MainShape
    <3>1. MainProgram \in Seq(StageType)
      BY <1>7 DEF StageType, OpNames, Once, Each
    <3> QED
      BY <2>1, <2>2, <3>1 DEF MainShape, Once, Each
  <2>4. ASSUME NEW o \in DOMAIN MainProgram[1].ops PROVE Placed(1, o)
    <3>1. o = 1 \/ o = 2 \/ o = 3
      BY <2>2 DEF Once, Each
    <3> QED
      BY <1>7, <2>1, <2>2, <3>1 DEF Placed, OpNames, Once, Each
  <2>5. ASSUME NEW o \in DOMAIN MainProgram[2].ops PROVE Placed(2, o)
    <3>1. o = 1 \/ o = 2
      BY <2>2 DEF Once, Each
    <3> QED
      BY <1>7, <2>1, <2>2, <3>1 DEF Placed, OpNames, Once, Each
  <2>6. ASSUME NEW o \in DOMAIN MainProgram[3].ops PROVE Placed(3, o)
    <3>1. o = 1
      BY <2>2 DEF Once, Each
    <3> QED
      BY <1>7, <2>1, <2>2, <3>1 DEF Placed, OpNames, Once, Each
  <2>7. ASSUME NEW o \in DOMAIN MainProgram[4].ops PROVE Placed(4, o)
    <3>1. o = 1 \/ o = 2
      BY <2>2 DEF Once, Each
    <3> QED
      BY <1>7, <2>1, <2>2, <3>1 DEF Placed, OpNames, Once, Each
  <2> QED
    <3>1. ASSUME NEW s \in DOMAIN MainProgram PROVE s = 1 \/ s = 2 \/ s = 3 \/ s = 4
      BY <2>2
    <3> QED
      BY <2>3, <2>4, <2>5, <2>6, <2>7, <3>1
<1>8. CASE /\ setup.kind = "memoryExec" /\ ~Serial
          /\ MainProgram = <<Once(<<"probes", "listen", "select">>), Each(<<"apply">>),
                              Once(<<"loop">>), Each(<<"undo", "unmark">>)>>
  <2>1. /\ UndoStage = 4 /\ UndoOp = 1 /\ ~OneByTarget /\ ~Marks
        /\ Is(Exec) /\ ~Is(Watched) /\ ~Is(Versioned)
        /\ ~Is({"powerfulseal"}) /\ ~Is({"autoscaler"})
    BY <1>8 DEF Is, OneByTarget, UndoStage, UndoOp, Marks, Exec, Hog, Watched, Versioned
  <2>2. /\ Len(MainProgram) = 4 /\ DOMAIN MainProgram = 1 .. 4
        /\ MainProgram[1] = Once(<<"probes", "listen", "select">>)
        /\ MainProgram[2] = Each(<<"apply">>)
        /\ MainProgram[3] = Once(<<"loop">>)
        /\ MainProgram[4] = Each(<<"undo", "unmark">>)
    BY <1>8
  <2>3. MainShape
    <3>1. MainProgram \in Seq(StageType)
      BY <1>8 DEF StageType, OpNames, Once, Each
    <3> QED
      BY <2>1, <2>2, <3>1 DEF MainShape, Once, Each
  <2>4. ASSUME NEW o \in DOMAIN MainProgram[1].ops PROVE Placed(1, o)
    <3>1. o = 1 \/ o = 2 \/ o = 3
      BY <2>2 DEF Once, Each
    <3> QED
      BY <1>8, <2>1, <2>2, <3>1 DEF Placed, OpNames, Once, Each
  <2>5. ASSUME NEW o \in DOMAIN MainProgram[2].ops PROVE Placed(2, o)
    <3>1. o = 1
      BY <2>2 DEF Once, Each
    <3> QED
      BY <1>8, <2>1, <2>2, <3>1 DEF Placed, OpNames, Once, Each
  <2>6. ASSUME NEW o \in DOMAIN MainProgram[3].ops PROVE Placed(3, o)
    <3>1. o = 1
      BY <2>2 DEF Once, Each
    <3> QED
      BY <1>8, <2>1, <2>2, <3>1 DEF Placed, OpNames, Once, Each
  <2>7. ASSUME NEW o \in DOMAIN MainProgram[4].ops PROVE Placed(4, o)
    <3>1. o = 1 \/ o = 2
      BY <2>2 DEF Once, Each
    <3> QED
      BY <1>8, <2>1, <2>2, <3>1 DEF Placed, OpNames, Once, Each
  <2> QED
    <3>1. ASSUME NEW s \in DOMAIN MainProgram PROVE s = 1 \/ s = 2 \/ s = 3 \/ s = 4
      BY <2>2
    <3> QED
      BY <2>3, <2>4, <2>5, <2>6, <2>7, <3>1
<1>9. CASE /\ setup.kind = "fio" /\ Serial
          /\ MainProgram = <<Once(<<"probes">>), Each(<<"apply", "listen", "loop", "undo">>)>>
  <2>1. /\ UndoStage = 2 /\ UndoOp = 4 /\ OneByTarget /\ ~Marks
        /\ Is(Exec) /\ ~Is(Watched) /\ ~Is(Versioned)
        /\ ~Is({"powerfulseal"}) /\ ~Is({"autoscaler"})
    BY <1>9 DEF Is, OneByTarget, UndoStage, UndoOp, Marks, Exec, Hog, Watched, Versioned
  <2>2. /\ Len(MainProgram) = 2 /\ DOMAIN MainProgram = 1 .. 2
        /\ MainProgram[1] = Once(<<"probes">>)
        /\ MainProgram[2] = Each(<<"apply", "listen", "loop", "undo">>)
    BY <1>9
  <2>3. MainShape
    <3>1. MainProgram \in Seq(StageType)
      BY <1>9 DEF StageType, OpNames, Once, Each
    <3> QED
      BY <2>1, <2>2, <3>1 DEF MainShape, Once, Each
  <2>4. ASSUME NEW o \in DOMAIN MainProgram[1].ops PROVE Placed(1, o)
    <3>1. o = 1
      BY <2>2 DEF Once, Each
    <3> QED
      BY <1>9, <2>1, <2>2, <3>1 DEF Placed, OpNames, Once, Each
  <2>5. ASSUME NEW o \in DOMAIN MainProgram[2].ops PROVE Placed(2, o)
    <3>1. o = 1 \/ o = 2 \/ o = 3 \/ o = 4
      BY <2>2 DEF Once, Each
    <3> QED
      BY <1>9, <2>1, <2>2, <3>1, SMTT(30) DEF Placed, OpNames, Once, Each
  <2> QED
    <3>1. ASSUME NEW s \in DOMAIN MainProgram PROVE s = 1 \/ s = 2
      BY <2>2
    <3> QED
      BY <2>3, <2>4, <2>5, <3>1
<1>10. CASE /\ setup.kind = "fio" /\ ~Serial
          /\ MainProgram = <<Once(<<"probes">>), Each(<<"apply">>), Once(<<"listen", "loop">>),
                              Each(<<"undo">>)>>
  <2>1. /\ UndoStage = 4 /\ UndoOp = 1 /\ ~OneByTarget /\ ~Marks
        /\ Is(Exec) /\ ~Is(Watched) /\ ~Is(Versioned)
        /\ ~Is({"powerfulseal"}) /\ ~Is({"autoscaler"})
    BY <1>10 DEF Is, OneByTarget, UndoStage, UndoOp, Marks, Exec, Hog, Watched, Versioned
  <2>2. /\ Len(MainProgram) = 4 /\ DOMAIN MainProgram = 1 .. 4
        /\ MainProgram[1] = Once(<<"probes">>)
        /\ MainProgram[2] = Each(<<"apply">>)
        /\ MainProgram[3] = Once(<<"listen", "loop">>)
        /\ MainProgram[4] = Each(<<"undo">>)
    BY <1>10
  <2>3. MainShape
    <3>1. MainProgram \in Seq(StageType)
      BY <1>10 DEF StageType, OpNames, Once, Each
    <3> QED
      BY <2>1, <2>2, <3>1 DEF MainShape, Once, Each
  <2>4. ASSUME NEW o \in DOMAIN MainProgram[1].ops PROVE Placed(1, o)
    <3>1. o = 1
      BY <2>2 DEF Once, Each
    <3> QED
      BY <1>10, <2>1, <2>2, <3>1 DEF Placed, OpNames, Once, Each
  <2>5. ASSUME NEW o \in DOMAIN MainProgram[2].ops PROVE Placed(2, o)
    <3>1. o = 1
      BY <2>2 DEF Once, Each
    <3> QED
      BY <1>10, <2>1, <2>2, <3>1 DEF Placed, OpNames, Once, Each
  <2>6. ASSUME NEW o \in DOMAIN MainProgram[3].ops PROVE Placed(3, o)
    <3>1. o = 1 \/ o = 2
      BY <2>2 DEF Once, Each
    <3>2. CASE o = 1
      BY <1>10, <2>1, <2>2, <3>2 DEF Placed, OpNames, Once, Each
    <3>3. CASE o = 2
      BY <1>10, <2>1, <2>2, <3>3 DEF Placed, OpNames, Once, Each
    <3> QED
      BY <3>1, <3>2, <3>3
  <2>7. ASSUME NEW o \in DOMAIN MainProgram[4].ops PROVE Placed(4, o)
    <3>1. o = 1
      BY <2>2 DEF Once, Each
    <3> QED
      BY <1>10, <2>1, <2>2, <3>1 DEF Placed, OpNames, Once, Each
  <2> QED
    <3>1. ASSUME NEW s \in DOMAIN MainProgram PROVE s = 1 \/ s = 2 \/ s = 3 \/ s = 4
      BY <2>2
    <3> QED
      BY <2>3, <2>4, <2>5, <2>6, <2>7, <3>1
<1> QED
  BY MainPrograms, <1>1, <1>2, <1>3, <1>4, <1>5, <1>6, <1>7, <1>8, <1>9, <1>10

\* The libraries whose watcher goes through all targets in every attempt, and counts each.
Counting == Is({"taint", "drain", "autoscaler"})

\* Where the operations of the watcher are.
WatcherPlaced(s, o) ==
  LET stage == WatcherProgram[s]
      op == stage.ops[o]
  IN /\ op \in {"look", "get", "undo", "unmark", "confirm"}
     /\ op = "look" <=> ~Counting /\ s = 1
     /\ op = "look" => ~stage.each
     /\ op = "get" => Is(Versioned) /\ o = 1
     /\ op = "confirm" => s > 1
     /\ Counting => /\ op = "undo" <=> s = 1 /\ o = UndoOp
                    /\ op = "unmark" <=> s = 1 /\ o = UndoOp + 1
                    /\ s = 1 => stage.each /\ Len(stage.ops) = UndoOp + 1
                    /\ s > 1 => ~stage.each /\ op = "confirm" /\ s = Len(WatcherProgram) /\ o = Len(stage.ops)

\* In every library.
LEMMA WatcherTable ==
  ASSUME setup \in Setups
  PROVE  /\ WatcherProgram \in Seq(StageType) \ {<<>>}
         /\ \A s \in DOMAIN WatcherProgram : \A o \in DOMAIN WatcherProgram[s].ops : WatcherPlaced(s, o)
<1>1. CASE setup.kind = "taint"
  <2>1. WatcherProgram = <<Each(<<"get", "undo", "unmark">>)>>
    BY <1>1 DEF WatcherProgram, NodeTaintWatcher, Is, Counting
  <2>2. UndoOp = 2 /\ Counting /\ Is(Versioned)
    BY <1>1 DEF Is, UndoOp, OneByTarget, Exec, Hog, Versioned, Counting
  <2>3. /\ Len(WatcherProgram) = 1 /\ DOMAIN WatcherProgram = 1 .. 1
        /\ WatcherProgram \in Seq(StageType) \ {<<>>}
        /\ WatcherProgram[1] = Each(<<"get", "undo", "unmark">>)
    BY <2>1 DEF StageType, OpNames, Once, Each
  <2>4. ASSUME NEW o \in DOMAIN WatcherProgram[1].ops PROVE WatcherPlaced(1, o)
    <3>1. o = 1 \/ o = 2 \/ o = 3
      BY <2>3 DEF Once, Each
    <3> QED
      BY <2>2, <2>3, <3>1 DEF WatcherPlaced, Once, Each
  <2> QED
    <3>1. ASSUME NEW s \in DOMAIN WatcherProgram PROVE s = 1
      BY <2>3
    <3> QED
      BY <2>3, <2>4, <3>1
<1>2. CASE setup.kind = "drain"
  <2>1. WatcherProgram = <<Each(<<"undo", "unmark">>), Once(<<"confirm">>)>>
    BY <1>2 DEF WatcherProgram, NodeDrainWatcher, Is, Counting
  <2>2. UndoOp = 1 /\ Counting
    BY <1>2 DEF Is, UndoOp, OneByTarget, Exec, Hog, Versioned, Counting
  <2>3. /\ Len(WatcherProgram) = 2 /\ DOMAIN WatcherProgram = 1 .. 2
        /\ WatcherProgram \in Seq(StageType) \ {<<>>}
        /\ WatcherProgram[1] = Each(<<"undo", "unmark">>)
        /\ WatcherProgram[2] = Once(<<"confirm">>)
    BY <2>1 DEF StageType, OpNames, Once, Each
  <2>4. ASSUME NEW o \in DOMAIN WatcherProgram[1].ops PROVE WatcherPlaced(1, o)
    <3>1. o = 1 \/ o = 2
      BY <2>3 DEF Once, Each
    <3> QED
      BY <2>2, <2>3, <3>1 DEF WatcherPlaced, Once, Each
  <2>5. ASSUME NEW o \in DOMAIN WatcherProgram[2].ops PROVE WatcherPlaced(2, o)
    <3>1. o = 1
      BY <2>3 DEF Once, Each
    <3> QED
      BY <2>2, <2>3, <3>1 DEF WatcherPlaced, Once, Each
  <2> QED
    <3>1. ASSUME NEW s \in DOMAIN WatcherProgram PROVE s = 1 \/ s = 2
      BY <2>3
    <3> QED
      BY <2>3, <2>4, <2>5, <3>1
<1>3. CASE setup.kind = "autoscaler"
  <2>1. WatcherProgram = <<Each(<<"get", "undo", "unmark">>), Once(<<"confirm">>)>>
    BY <1>3 DEF WatcherProgram, Recovery, Is, Counting
  <2>2. UndoOp = 2 /\ Counting /\ Is(Versioned)
    BY <1>3 DEF Is, UndoOp, OneByTarget, Exec, Hog, Versioned, Counting
  <2>3. /\ Len(WatcherProgram) = 2 /\ DOMAIN WatcherProgram = 1 .. 2
        /\ WatcherProgram \in Seq(StageType) \ {<<>>}
        /\ WatcherProgram[1] = Each(<<"get", "undo", "unmark">>)
        /\ WatcherProgram[2] = Once(<<"confirm">>)
    BY <2>1 DEF StageType, OpNames, Once, Each
  <2>4. ASSUME NEW o \in DOMAIN WatcherProgram[1].ops PROVE WatcherPlaced(1, o)
    <3>1. o = 1 \/ o = 2 \/ o = 3
      BY <2>3 DEF Once, Each
    <3> QED
      BY <2>2, <2>3, <3>1 DEF WatcherPlaced, Once, Each
  <2>5. ASSUME NEW o \in DOMAIN WatcherProgram[2].ops PROVE WatcherPlaced(2, o)
    <3>1. o = 1
      BY <2>3 DEF Once, Each
    <3> QED
      BY <2>2, <2>3, <3>1 DEF WatcherPlaced, Once, Each
  <2> QED
    <3>1. ASSUME NEW s \in DOMAIN WatcherProgram PROVE s = 1 \/ s = 2
      BY <2>3
    <3> QED
      BY <2>3, <2>4, <2>5, <3>1
<1>4. CASE ~Counting
  <2>1. WatcherProgram = <<Once(<<"look">>), Each(<<"undo", "confirm", "unmark">>)>>
    BY <1>4 DEF WatcherProgram, PodNetworkPartitionWatcher, Is, Counting
  <2>2. ~Counting
    BY <1>4 DEF Is, UndoOp, OneByTarget, Exec, Hog, Versioned, Counting
  <2>3. /\ Len(WatcherProgram) = 2 /\ DOMAIN WatcherProgram = 1 .. 2
        /\ WatcherProgram \in Seq(StageType) \ {<<>>}
        /\ WatcherProgram[1] = Once(<<"look">>)
        /\ WatcherProgram[2] = Each(<<"undo", "confirm", "unmark">>)
    BY <2>1 DEF StageType, OpNames, Once, Each
  <2>4. ASSUME NEW o \in DOMAIN WatcherProgram[1].ops PROVE WatcherPlaced(1, o)
    <3>1. o = 1
      BY <2>3 DEF Once, Each
    <3> QED
      BY <2>2, <2>3, <3>1 DEF WatcherPlaced, Once, Each
  <2>5. ASSUME NEW o \in DOMAIN WatcherProgram[2].ops PROVE WatcherPlaced(2, o)
    <3>1. o = 1 \/ o = 2 \/ o = 3
      BY <2>3 DEF Once, Each
    <3> QED
      BY <2>2, <2>3, <3>1 DEF WatcherPlaced, Once, Each
  <2> QED
    <3>1. ASSUME NEW s \in DOMAIN WatcherProgram PROVE s = 1 \/ s = 2
      BY <2>3
    <3> QED
      BY <2>3, <2>4, <2>5, <3>1
<1> QED
  BY <1>1, <1>2, <1>3, <1>4 DEF Counting, Is

----------------------------------------------------------------------------
(* Where a thread is, and where it goes *)

\* What a thread's program says of its next operation.
PlaceOK(t) ==
  /\ Program(t) \in Seq(StageType) /\ pc[t].stage \in 1 .. Len(Program(t))
  /\ Stage(t) \in StageType /\ pc[t].op \in 1 .. Len(Stage(t).ops) /\ Op(t) \in OpNames
  /\ pc[t].at \in 1 .. Len(setup.targets)
  /\ {Len(Program(t)), Len(Stage(t).ops), Len(setup.targets)} \subseteq Nat \ {0}
  /\ Item(t) \in Targets /\ Targets \subseteq Target
  /\ IF t = "main" THEN Placed(pc[t].stage, pc[t].op) /\ MainShape
     ELSE WatcherPlaced(pc[t].stage, pc[t].op) /\ WatcherProgram # <<>>

\* A thread's place is one of its program.
LEMMA Place == TypeOK => \A t \in Thread : PlaceOK(t)
<1> SUFFICES ASSUME TypeOK, NEW t \in Thread PROVE PlaceOK(t)
  OBVIOUS
<1>1. setup \in Setups
  BY DEF TypeOK
<1>2. /\ pc[t].stage \in DOMAIN Program(t) /\ pc[t].op \in DOMAIN Stage(t).ops
      /\ pc[t].at \in DOMAIN setup.targets
  BY DEF TypeOK
<1>3. Program(t) \in Seq(StageType)
  BY <1>1, MainTable, WatcherTable DEF Program, MainShape
<1>4. Stage(t) \in StageType /\ pc[t].stage \in 1 .. Len(Program(t))
  BY <1>2, <1>3 DEF Stage
<1>5. pc[t].op \in 1 .. Len(Stage(t).ops) /\ Op(t) \in OpNames
  <2>1. Stage(t).ops \in Seq(OpNames)
    BY <1>4 DEF StageType
  <2> QED
    BY <1>2, <2>1 DEF Op
<1>6. pc[t].at \in 1 .. Len(setup.targets) /\ Targets \subseteq Target
  BY <1>1, <1>2, SetupOK DEF Targets
<1>7. Item(t) \in Targets
  <2>1. Len(setup.targets) \in Nat /\ DOMAIN setup.targets = 1 .. Len(setup.targets)
    BY <1>1, SetupOK
  <2>2. Len(setup.targets) + 1 - pc[t].at \in DOMAIN setup.targets
    BY <1>6, <2>1
  <2> QED
    BY <1>2, <2>2 DEF Item, Targets
<1>8. {Len(Program(t)), Len(Stage(t).ops), Len(setup.targets)} \subseteq Nat \ {0}
  <2>1. Len(Stage(t).ops) \in Nat \ {0}
    <3>1. Stage(t).ops \in Seq(OpNames) /\ Stage(t).ops # <<>>
      BY <1>4 DEF StageType
    <3> QED
      BY <3>1
  <2>2. Len(Program(t)) \in Nat \ {0} /\ Len(setup.targets) \in Nat \ {0}
    BY <1>1, <1>3, <1>4, SetupOK
  <2> QED
    BY <2>1, <2>2
<1>9. CASE t = "main"
  BY <1>1, <1>2, <1>3, <1>4, <1>5, <1>6, <1>7, <1>8, <1>9, MainTable DEF PlaceOK, Program, Stage
<1>10. CASE t # "main"
  BY <1>1, <1>2, <1>3, <1>4, <1>5, <1>6, <1>7, <1>8, <1>10, WatcherTable DEF PlaceOK, Program, Stage
<1> QED
  BY <1>9, <1>10

\* The same of the next state.
LEMMA NextPlace == (TypeOK => \A t \in Thread : PlaceOK(t))'
  BY Place, PTL

\* What depends on the experiment only stays.
LEMMA Fixed ==
  setup' = setup =>
    /\ MainProgram' = MainProgram /\ WatcherProgram' = WatcherProgram
    /\ Targets' = Targets /\ OneByTarget' = OneByTarget /\ UndoStage' = UndoStage /\ UndoOp' = UndoOp
    /\ Serial' = Serial /\ Marks' = Marks /\ Counting' = Counting
    /\ \A kinds : Is(kinds)' = Is(kinds)
    /\ \A i : Turn(i)' = Turn(i)
  BY DEF MainProgram, WatcherProgram, Targets, OneByTarget, UndoStage, UndoOp, Serial, Marks, Counting, Is,
         Turn, NodeTaint, NodeDrain, PodAutoscaler, PodNetworkPartition, Powerfulseal, PodCPUHogExec,
         PodMemoryHogExec, PodFioStress, NodeTaintWatcher, NodeDrainWatcher, PodNetworkPartitionWatcher,
         Recovery

\* The thread comes to another place of its program.
Comes(t, stage, op, at) == pc'[t] = [stage |-> stage, op |-> op, at |-> at]

\* It goes on.
Onward(t) ==
  LET p == pc[t]
  IN \/ p.op < Len(Stage(t).ops) /\ Comes(t, p.stage, p.op + 1, p.at)
     \/ /\ p.op = Len(Stage(t).ops) /\ Stage(t).each /\ p.at < Len(setup.targets)
        /\ Comes(t, p.stage, 1, p.at + 1)
     \/ /\ p.op = Len(Stage(t).ops) /\ LastTarget(t) /\ p.stage < Len(Program(t))
        /\ Comes(t, p.stage + 1, 1, 1)

\* The other thread stays where it is.
OneMoves(t) ==
  /\ pc' \in [Thread -> [stage : Nat, op : Nat, at : Nat]] /\ tries' \in [Thread -> Nat]
  /\ \A u \in Thread \ {t} : pc'[u] = pc[u] /\ tries'[u] = tries[u]

\* Main returns, or ends the process after an abort.
Ends ==
  /\ pc' = pc /\ tries' = tries
  /\ lib' \in {"ok", "failed", "aborted"} /\ (lib = "aborting" <=> lib' = "aborted")

\* Main is through.
Through ==
  /\ pc["main"].op = Len(Stage("main").ops)
  /\ \/ LastTarget("main") /\ pc["main"].stage = Len(MainProgram)
     \/ lib = "aborting" /\ Serial

\* The most attempts a thread has.
MostTries == IF Steps > 3 THEN Steps ELSE 3

\* The library returns, or the process ends; only a run without an error succeeds.
LEMMA EndMoves ==
  ASSUME NEW failed \in BOOLEAN, MainEnds(failed)
  PROVE  Ends /\ (lib' = "ok" => ~failed)
  BY DEF MainEnds, End, Ends

\* A thread has no more attempts than the most that any starts with.
LEMMA TriesType ==
  ASSUME TypeOK
  PROVE  \A t \in Thread : tries[t] \in 0 .. MostTries
  BY DEF TypeOK, MostTries

\* A thread that moves leaves the other where it is.
LEMMA GotoMoves ==
  ASSUME PcOK, NEW t \in Thread, NEW s \in Nat, NEW o \in Nat, NEW a \in Nat, Goto(t, s, o, a)
  PROVE  /\ pc' \in [Thread -> [stage : Nat, op : Nat, at : Nat]] /\ Comes(t, s, o, a)
         /\ \A u \in Thread \ {t} : pc'[u] = pc[u]
<1>1. [stage |-> s, op |-> o, at |-> a] \in [stage : Nat, op : Nat, at : Nat]
  OBVIOUS
<1> QED
  BY <1>1 DEF Goto, PcOK, Comes

\* What Go does with a thread that is not at its end.
LEMMA GoesOn ==
  ASSUME TypeOK, PcOK, NEW t \in Thread, Go(t),
         ~AtEnd(t), ~(t = "main" /\ lib = "aborting" /\ Serial /\ LastOp(t))
  PROVE  /\ lib' = lib /\ Onward(t) /\ OneMoves(t)
         /\ tries'[t] = tries[t] \/ (t = "main" /\ tries'[t] = Steps)
<1>1. PlaceOK(t)
  BY Place
<1>2. /\ lib' = lib
      /\ IF ~LastOp(t) THEN Goto(t, pc[t].stage, pc[t].op + 1, pc[t].at)
         ELSE IF ~LastTarget(t) THEN Goto(t, pc[t].stage, 1, pc[t].at + 1)
         ELSE Goto(t, pc[t].stage + 1, 1, 1)
      /\ tries' = tries \/ (t = "main" /\ tries' = [tries EXCEPT ![t] = Steps])
  BY DEF Go
<1>3. /\ pc[t].stage \in 1 .. Len(Program(t)) /\ Len(Program(t)) \in Nat
      /\ pc[t].op \in 1 .. Len(Stage(t).ops) /\ Len(Stage(t).ops) \in Nat
      /\ pc[t].at \in 1 .. Len(setup.targets) /\ Len(setup.targets) \in Nat
  BY <1>1 DEF PlaceOK
<1>4. /\ tries' \in [Thread -> Nat] /\ (\A u \in Thread \ {t} : tries'[u] = tries[u])
      /\ tries'[t] = tries[t] \/ (t = "main" /\ tries'[t] = Steps)
  BY <1>2, BoundAssumption DEF PcOK
<1>5. CASE ~LastOp(t)
  <2>1. Goto(t, pc[t].stage, pc[t].op + 1, pc[t].at)
    BY <1>2, <1>5
  <2>2. Comes(t, pc[t].stage, pc[t].op + 1, pc[t].at) /\ OneMoves(t)
    BY <1>3, <1>4, <2>1, GotoMoves, SMTT(30) DEF OneMoves
  <2> QED
    BY <1>2, <1>3, <1>4, <1>5, <2>2 DEF LastOp, Onward
<1>6. CASE LastOp(t) /\ ~LastTarget(t)
  <2>1. Goto(t, pc[t].stage, 1, pc[t].at + 1)
    BY <1>2, <1>6
  <2>2. Comes(t, pc[t].stage, 1, pc[t].at + 1) /\ OneMoves(t)
    BY <1>3, <1>4, <2>1, GotoMoves, SMTT(30) DEF OneMoves
  <2> QED
    BY <1>2, <1>3, <1>4, <1>6, <2>2 DEF LastOp, LastTarget, Onward
<1>7. CASE LastOp(t) /\ LastTarget(t)
  <2>1. Goto(t, pc[t].stage + 1, 1, 1)
    BY <1>2, <1>7
  <2>2. Comes(t, pc[t].stage + 1, 1, 1) /\ OneMoves(t)
    BY <1>3, <1>4, <2>1, GotoMoves, SMTT(30) DEF OneMoves
  <2>3. pc[t].stage < Len(Program(t))
    BY <1>3, <1>7 DEF AtEnd
  <2> QED
    BY <1>2, <1>3, <1>4, <1>7, <2>2, <2>3 DEF LastOp, LastTarget, Onward
<1> QED
  BY <1>5, <1>6, <1>7

\* Main goes on, or is through.
LEMMA MainGoes ==
  ASSUME TypeOK, PcOK, Go("main")
  PROVE  \/ /\ lib' = lib /\ Onward("main") /\ OneMoves("main")
            /\ tries'["main"] = tries["main"] \/ tries'["main"] = Steps
         \/ Ends /\ Through /\ (lib' = "ok" => ~failing)
<1>1. CASE AtEnd("main") \/ (lib = "aborting" /\ Serial /\ LastOp("main"))
  <2>1. MainEnds(failing)
    BY <1>1 DEF Go, Finish
  <2>2. Through
    BY <1>1 DEF AtEnd, LastOp, LastTarget, Through, Program
  <2> QED
    BY <2>1, <2>2, EndMoves DEF TypeOK
<1>2. CASE ~(AtEnd("main") \/ (lib = "aborting" /\ Serial /\ LastOp("main")))
  BY <1>2, GoesOn DEF Thread
<1> QED
  BY <1>1, <1>2

\* An attempt of the watcher is over.
NextAttempt ==
  /\ Comes("watcher", 1, 1, 1)
  /\ tries'["watcher"] = IF Is({"autoscaler"}) THEN 0
                         ELSE IF Is({"partition"}) /\ Op("watcher") # "look" THEN tries["watcher"]
                         ELSE tries["watcher"] - 1

\* After an attempt the watcher is at the beginning again.
LEMMA AttemptMoves ==
  ASSUME TypeOK, PcOK, Running("watcher"), AttemptOver
  PROVE  OneMoves("watcher") /\ NextAttempt /\ lib' = lib
<1>1. tries["watcher"] \in Nat \ {0} /\ "watcher" \in Thread
  BY DEF PcOK, Running, Thread
<1>2. Goto("watcher", 1, 1, 1) /\ lib' = lib
  BY DEF AttemptOver
<1>3. /\ pc' \in [Thread -> [stage : Nat, op : Nat, at : Nat]] /\ Comes("watcher", 1, 1, 1)
      /\ \A u \in Thread \ {"watcher"} : pc'[u] = pc[u]
  BY <1>1, <1>2, GotoMoves
<1>4. /\ tries' \in [Thread -> Nat] /\ (\A u \in Thread \ {"watcher"} : tries'[u] = tries[u])
      /\ tries'["watcher"] = IF Is({"autoscaler"}) THEN 0
                             ELSE IF Is({"partition"}) /\ Op("watcher") # "look" THEN tries["watcher"]
                             ELSE tries["watcher"] - 1
  <2> DEFINE left == IF Is({"autoscaler"}) THEN 0
                     ELSE IF Is({"partition"}) /\ Op("watcher") # "look" THEN tries["watcher"]
                     ELSE tries["watcher"] - 1
  <2>1. tries' = [tries EXCEPT !["watcher"] = left]
    BY DEF AttemptOver
  <2>2. left \in Nat
    BY <1>1
  <2> HIDE DEF left
  <2>3. /\ tries' \in [Thread -> Nat] /\ (\A u \in Thread \ {"watcher"} : tries'[u] = tries[u])
        /\ tries'["watcher"] = left
    BY <1>1, <2>1, <2>2 DEF PcOK
  <2> QED
    BY <2>3 DEF left
<1> QED
  BY <1>2, <1>3, <1>4 DEF OneMoves, NextAttempt

\* The watcher goes on, or its attempt is over.
LEMMA WatcherGoes ==
  ASSUME TypeOK, PcOK, Running("watcher"), Go("watcher")
  PROVE  /\ lib' = lib /\ OneMoves("watcher")
         /\ \/ Onward("watcher") /\ tries'["watcher"] = tries["watcher"]
            \/ /\ NextAttempt /\ LastTarget("watcher") /\ pc["watcher"].stage = Len(WatcherProgram)
               /\ pc["watcher"].op = Len(Stage("watcher").ops)
<1>1. CASE AtEnd("watcher")
  <2>1. AttemptOver
    BY <1>1 DEF Go, Finish
  <2> QED
    BY <2>1, <1>1, AttemptMoves DEF AtEnd, LastOp, LastTarget, Program
<1>2. CASE ~AtEnd("watcher")
  BY <1>2, GoesOn DEF Thread
<1> QED
  BY <1>1, <1>2

\* The moves of main.
MainMoves ==
  LET p == pc["main"]
      last == p.op = Len(Stage("main").ops)
  IN /\ OneMoves("main")
     /\ \/ tries'["main"] = tries["main"]
        \/ tries'["main"] = Steps
        \/ tries["main"] > 1 /\ tries'["main"] = tries["main"] - 1
     /\ \/ Ends
        \/ lib' = "stopped" /\ signal /\ pc' = pc
        \/ lib' = lib /\ Onward("main")
        \/ lib' = lib /\ Is({"autoscaler"}) /\ Comes("main", p.stage, 1, 1)
        \/ lib' = lib /\ Op("main") = "scaled" /\ Comes("main", p.stage + 1, 1, 1)
        \/ lib' = lib /\ Op("main") = "loop" /\ pc' = pc
        \/ /\ lib = "running" /\ lib' = "aborting" /\ signal /\ Op("main") = "loop"
           /\ Comes("main", IF last THEN p.stage + 1 ELSE p.stage, IF last THEN 1 ELSE p.op + 1, p.at)

\* An operation of main succeeds ...
LEMMA GoMainMoves ==
  ASSUME TypeOK, PcOK, Go("main")
  PROVE  MainMoves
<1>1. CASE lib' = lib /\ Onward("main") /\ OneMoves("main")
  BY <1>1, MainGoes DEF MainMoves, Ends
<1>2. CASE Ends
  BY <1>2 DEF MainMoves, Ends, OneMoves, PcOK
<1> QED
  BY <1>1, <1>2, MainGoes

\* ... or ends the run ...
LEMMA EndMainMoves ==
  ASSUME PcOK, NEW failed \in BOOLEAN, MainEnds(failed)
  PROVE  MainMoves
  BY EndMoves DEF MainMoves, Ends, OneMoves, PcOK

\* ... or is tried again.
LEMMA RetryMainMoves ==
  ASSUME TypeOK, PcOK, Retries("main"), Retry("main")
  PROVE  MainMoves
<1>1. pc["main"].stage \in Nat /\ "main" \in Thread /\ tries["main"] \in Nat \ {0}
  BY DEF PcOK, Thread, Retries
<1>2. OneMoves("main") /\ Comes("main", pc["main"].stage, 1, 1) /\ tries'["main"] = tries["main"] - 1
  <2>1. /\ pc' \in [Thread -> [stage : Nat, op : Nat, at : Nat]] /\ Comes("main", pc["main"].stage, 1, 1)
        /\ \A u \in Thread \ {"main"} : pc'[u] = pc[u]
    BY <1>1, GotoMoves DEF Retry
  <2>2. /\ tries' \in [Thread -> Nat] /\ \A u \in Thread \ {"main"} : tries'[u] = tries[u]
        /\ tries'["main"] = tries["main"] - 1
    <3>1. tries["main"] - 1 \in Nat /\ tries' = [tries EXCEPT !["main"] = tries["main"] - 1]
      BY <1>1 DEF Retry
    <3> QED
      BY <1>1, <3>1 DEF PcOK
  <2> QED
    BY <2>1, <2>2 DEF OneMoves
<1> QED
  BY <1>2 DEF MainMoves, Retry, Retries

\* Every operation of main ends in one of the moves.
LEMMA GoOrEndMoves ==
  ASSUME TypeOK, PcOK,
         \/ Go("main") \/ Error("main") \/ GoOrError("main") \/ ErrorExcused("main")
         \/ (Retries("main") /\ Retry("main"))
  PROVE  MainMoves
<1>1. CASE Go("main")
  BY <1>1, GoMainMoves
<1>2. CASE Error("main")
  BY <1>2, EndMainMoves DEF Error
<1> QED
  BY <1>1, <1>2, RetryMainMoves DEF GoOrError, ErrorExcused

\* Updates and requests end in one of the moves.
LEMMA UpdateMoves ==
  ASSUME TypeOK, PcOK, NEW x, NEW chaos \in BOOLEAN,
         Update("main", x, chaos) \/ Request("main", x, chaos)
  PROVE  MainMoves
  BY GoOrEndMoves DEF Update, Request, Succeeds, Injected, Unanswered

\* Every step of main is one of its moves, and leaves the experiment, the signal and the edits.
LEMMA MainStep ==
  ASSUME TypeOK, PcOK, PartsOK, Main
  PROVE  MainMoves /\ UNCHANGED <<setup, signal, edited>> /\ lib \in {"running", "aborting"}
<1>1. CASE Get("main")
  BY <1>1, GoOrEndMoves DEF Get, Does, At, Running
<1>2. CASE Undo("main")
  <2>1. MainMoves
    BY <1>2, GoOrEndMoves, UpdateMoves DEF Undo
  <2> QED
    BY <1>2, <2>1 DEF Undo, Does, At, Running
<1>3. CASE Mark("main") \/ Confirm("main")
  BY <1>3, GoOrEndMoves DEF Mark, Confirm, Local, Does, At, Running
<1>4. CASE Apply
  <2>1. MainMoves
    BY <1>4, GoOrEndMoves, UpdateMoves DEF Apply
  <2> QED
    BY <1>4, <2>1 DEF Apply, Does, At, Running
<1>5. CASE Select
  <2>1. MainMoves
    <3>1. CASE Go("main")
      BY <3>1, GoMainMoves
    <3>2. CASE signal /\ End("stopped")
      BY <3>2 DEF End, MainMoves, OneMoves, PcOK
    <3> QED
      BY <1>5, <3>1, <3>2 DEF Select
  <2> QED
    BY <1>5, <2>1 DEF Select, Local, Does, At, Running
<1>6. CASE Watch \/ Call \/ Verify \/ Listen \/ TimeIsUp
  <2>1. MainMoves
    BY <1>6, GoOrEndMoves DEF Watch, Call, Verify, Listen, TimeIsUp
  <2> QED
    BY <1>6, <2>1 DEF Watch, Call, Verify, Listen, TimeIsUp, Local, Does, At, Running
<1>7. CASE Scaled
  <2>1. CASE Go("main") \/ Error("main")
    BY <1>7, <2>1, GoOrEndMoves DEF Scaled, Does, At, Running
  <2>2. CASE /\ Goto("main", pc["main"].stage + 1, 1, 1) /\ lib' = lib
             /\ tries' = [tries EXCEPT !["main"] = Steps]
    <3>1. /\ pc' \in [Thread -> [stage : Nat, op : Nat, at : Nat]] /\ Comes("main", pc["main"].stage + 1, 1, 1)
          /\ \A u \in Thread \ {"main"} : pc'[u] = pc[u]
      BY <2>2, GotoMoves DEF PcOK, Thread
    <3>2. tries' \in [Thread -> Nat] /\ tries'["main"] = Steps /\ tries'["watcher"] = tries["watcher"]
      BY <2>2, BoundAssumption DEF PcOK, Thread
    <3>3. Op("main") = "scaled"
      BY <1>7 DEF Scaled, Does, At
    <3>4. MainMoves
      BY <2>2, <3>1, <3>2, <3>3 DEF MainMoves, OneMoves, Thread
    <3> QED
      BY <1>7, <3>4 DEF Scaled, Does, At, Running
  <2> QED
    BY <1>7, <2>1, <2>2 DEF Scaled
<1>8. CASE ReceiveSignal
  <2>1. /\ lib = "running" /\ lib' = "aborting" /\ signal /\ Op("main") = "loop" /\ tries' = tries
        /\ UNCHANGED <<setup, signal, edited>>
        /\ Goto("main", IF LastOp("main") THEN pc["main"].stage + 1 ELSE pc["main"].stage,
                        IF LastOp("main") THEN 1 ELSE pc["main"].op + 1, pc["main"].at)
    BY <1>8 DEF ReceiveSignal, Does, At, PartsOK
  <2>2. pc["main"].stage \in Nat /\ pc["main"].op \in Nat /\ pc["main"].at \in Nat /\ "main" \in Thread
    BY DEF PcOK, Thread
  <2>3. /\ pc' \in [Thread -> [stage : Nat, op : Nat, at : Nat]]
        /\ Comes("main", IF LastOp("main") THEN pc["main"].stage + 1 ELSE pc["main"].stage,
                         IF LastOp("main") THEN 1 ELSE pc["main"].op + 1, pc["main"].at)
        /\ \A u \in Thread \ {"main"} : pc'[u] = pc[u]
    BY <2>1, <2>2, GotoMoves
  <2> QED
    BY <2>1, <2>3 DEF MainMoves, OneMoves, PcOK, LastOp
<1>9. CASE \E x \in Target : ReceiveResult(x)
  <2>1. PICK x \in Target : ReceiveResult(x)
    BY <1>9
  <2>2. UNCHANGED <<setup, signal, edited>> /\ lib = "running" /\ Op("main") = "loop" /\ pc' = pc /\ tries' = tries
        /\ lib' \in {lib, "ok", "failed"}
    BY <2>1 DEF ReceiveResult, Does, At, threadVars, End
  <2> QED
    BY <2>2 DEF MainMoves, OneMoves, PcOK, Ends
<1> QED
  BY <1>1, <1>2, <1>3, <1>4, <1>5, <1>6, <1>7, <1>8, <1>9 DEF Main, Operation

\* The control part of the type invariant, of one thread.
ControlOK(t) ==
  /\ pc[t].stage \in DOMAIN Program(t) /\ pc[t].op \in DOMAIN Stage(t).ops
  /\ pc[t].at \in DOMAIN setup.targets
  /\ tries[t] \in 0 .. MostTries
  /\ Stage(t).each \/ pc[t].at = 1

\* A place in a thread's program.
LEMMA PlaceControl ==
  ASSUME setup \in Setups, setup' = setup, NEW t \in Thread,
         NEW s \in 1 .. Len(Program(t)), NEW o \in 1 .. Len(Program(t)[s].ops),
         NEW a \in 1 .. Len(setup.targets), Comes(t, s, o, a),
         Program(t)[s].each \/ a = 1, tries'[t] \in 0 .. MostTries
  PROVE  ControlOK(t)'
<1>1. Program(t)' = Program(t) /\ Program(t) \in Seq(StageType)
  BY Fixed, MainTable, WatcherTable DEF Program, MainShape
<1>2. s \in DOMAIN Program(t) /\ Program(t)[s] \in StageType
  BY <1>1
<1>3. DOMAIN Program(t)[s].ops = 1 .. Len(Program(t)[s].ops)
  BY <1>2 DEF StageType
<1>4. Stage(t)' = Program(t)[s] /\ pc'[t].stage = s /\ pc'[t].op = o /\ pc'[t].at = a
  BY <1>1 DEF Stage, Comes
<1>5. DOMAIN setup.targets = 1 .. Len(setup.targets) /\ MostTries' = MostTries
  BY SetupOK DEF MostTries
<1> QED
  BY <1>1, <1>2, <1>3, <1>4, <1>5 DEF ControlOK

\* A thread that does not move.
LEMMA StayControl ==
  ASSUME setup' = setup, NEW t \in Thread, ControlOK(t), pc'[t] = pc[t], tries'[t] = tries[t]
  PROVE  ControlOK(t)'
<1>1. Program(t)' = Program(t)
  BY Fixed DEF Program
<1> QED
  BY <1>1 DEF ControlOK, Stage, MostTries

\* The next stage exists, and has operations.
LEMMA StageOps ==
  ASSUME setup \in Setups, NEW t \in Thread, NEW s \in 1 .. Len(Program(t))
  PROVE  Len(Program(t)[s].ops) \in Nat \ {0} /\ 1 \in 1 .. Len(Program(t)[s].ops)
<1>1. Program(t) \in Seq(StageType)
  BY MainTable, WatcherTable DEF Program, MainShape
<1>2. Program(t)[s] \in StageType
  BY <1>1
<1>3. Program(t)[s].ops \in Seq(OpNames) /\ Program(t)[s].ops # <<>>
  BY <1>2 DEF StageType
<1> QED
  BY <1>3

\* A thread that goes on stays in its program.
LEMMA OnwardControl ==
  ASSUME TypeOK, PcOK, setup' = setup, NEW t \in Thread, Onward(t), tries'[t] \in 0 .. MostTries
  PROVE  ControlOK(t)'
<1>1. PlaceOK(t) /\ setup \in Setups
  BY Place DEF TypeOK
<1>2. /\ pc[t].stage \in 1 .. Len(Program(t)) /\ pc[t].op \in 1 .. Len(Stage(t).ops)
      /\ pc[t].at \in 1 .. Len(setup.targets)
      /\ Len(Program(t)) \in Nat /\ Len(Stage(t).ops) \in Nat /\ Len(setup.targets) \in Nat \ {0}
      /\ Stage(t) = Program(t)[pc[t].stage]
      /\ Stage(t).each \/ pc[t].at = 1
  BY <1>1 DEF PlaceOK, PcOK, Stage
<1>3. CASE pc[t].op < Len(Stage(t).ops) /\ Comes(t, pc[t].stage, pc[t].op + 1, pc[t].at)
  <2>1. pc[t].op + 1 \in 1 .. Len(Program(t)[pc[t].stage].ops)
    BY <1>2, <1>3
  <2> QED
    BY <1>1, <1>2, <1>3, <2>1, PlaceControl
<1>4. CASE Stage(t).each /\ pc[t].at < Len(setup.targets) /\ Comes(t, pc[t].stage, 1, pc[t].at + 1)
  <2>1. pc[t].at + 1 \in 1 .. Len(setup.targets) /\ 1 \in 1 .. Len(Program(t)[pc[t].stage].ops)
    BY <1>1, <1>2, <1>4, StageOps, SMTT(30)
  <2> QED
    BY <1>1, <1>2, <1>4, <2>1, PlaceControl
<1>5. CASE pc[t].stage < Len(Program(t)) /\ Comes(t, pc[t].stage + 1, 1, 1)
  <2>1. pc[t].stage + 1 \in 1 .. Len(Program(t)) /\ 1 \in 1 .. Len(setup.targets)
    BY <1>2, <1>5
  <2>2. 1 \in 1 .. Len(Program(t)[pc[t].stage + 1].ops)
    BY <1>1, <2>1, StageOps
  <2> QED
    BY <1>1, <1>5, <2>1, <2>2, PlaceControl
<1> QED
  BY <1>3, <1>4, <1>5 DEF Onward

\* Main stays in its program.
LEMMA MainControl ==
  ASSUME TypeOK, PcOK, MainMoves, setup' = setup
  PROVE  ControlOK("main")'
<1>1. PlaceOK("main") /\ setup \in Setups /\ "main" \in Thread /\ ControlOK("main")
  BY Place DEF TypeOK, Thread, ControlOK, PcOK, MostTries
<1>2. tries'["main"] \in 0 .. MostTries
  BY BoundAssumption, TriesType DEF MainMoves, MostTries, Thread
<1>3. /\ pc["main"].stage \in 1 .. Len(Program("main")) /\ pc["main"].op \in 1 .. Len(Stage("main").ops)
      /\ pc["main"].at \in 1 .. Len(setup.targets) /\ Program("main") = MainProgram
      /\ Len(MainProgram) \in Nat /\ Len(Stage("main").ops) \in Nat /\ Len(setup.targets) \in Nat \ {0}
      /\ Stage("main") = MainProgram[pc["main"].stage]
      /\ Stage("main").each \/ pc["main"].at = 1
      /\ Placed(pc["main"].stage, pc["main"].op) /\ Op("main") = Stage("main").ops[pc["main"].op]
      /\ UndoStage \in 1 .. Len(MainProgram)
  BY <1>1 DEF PlaceOK, PcOK, Stage, Program, Op, MainShape
<1>4. CASE pc' = pc
  <2>1. pc'["main"].op = pc["main"].op
    BY <1>4
  <2>2. Program("main")' = Program("main") /\ MostTries' = MostTries
    BY Fixed DEF Program, MostTries
  <2> QED
    BY <1>1, <1>2, <1>4, <2>2 DEF ControlOK, Stage
<1>5. CASE Onward("main")
  BY <1>1, <1>2, <1>5, OnwardControl
<1>6. CASE Comes("main", pc["main"].stage, 1, 1)
  <2>1. 1 \in 1 .. Len(setup.targets) /\ 1 \in 1 .. Len(Program("main")[pc["main"].stage].ops)
    BY <1>1, <1>3, StageOps
  <2> QED
    BY <1>1, <1>2, <1>3, <1>6, <2>1, PlaceControl
<1>7. CASE Op("main") = "scaled" /\ Comes("main", pc["main"].stage + 1, 1, 1)
  <2>1. pc["main"].stage = 3 /\ UndoStage = 4
    BY <1>3, <1>7 DEF Placed, Is, UndoStage, OneByTarget, Exec, Hog
  <2>2. pc["main"].stage + 1 \in 1 .. Len(Program("main")) /\ 1 \in 1 .. Len(setup.targets)
    BY <1>3, <2>1
  <2>3. 1 \in 1 .. Len(Program("main")[pc["main"].stage + 1].ops)
    BY <1>1, <2>2, StageOps
  <2> QED
    BY <1>1, <1>2, <1>7, <2>2, <2>3, PlaceControl
<1>8. ASSUME Op("main") = "loop",
             Comes("main", IF pc["main"].op = Len(Stage("main").ops) THEN pc["main"].stage + 1 ELSE pc["main"].stage,
                           IF pc["main"].op = Len(Stage("main").ops) THEN 1 ELSE pc["main"].op + 1, pc["main"].at)
      PROVE  ControlOK("main")'
  <2>1. CASE pc["main"].op = Len(Stage("main").ops)
    <3>1. ~Serial /\ Is(Exec) /\ pc["main"].stage = 3 /\ ~Stage("main").each
      <4>1. Op("main") = MainProgram[pc["main"].stage].ops[pc["main"].op]
        BY <1>3
      <4>2. /\ Is(Exec)
            /\ IF Serial THEN pc["main"].op < Len(MainProgram[pc["main"].stage].ops)
               ELSE pc["main"].stage = 3 /\ ~MainProgram[pc["main"].stage].each
        BY <1>3, <1>8, <4>1 DEF Placed
      <4> QED
        BY <1>3, <2>1, <4>2
    <3>2. UndoStage = 4 /\ pc["main"].at = 1
      BY <1>3, <3>1 DEF Is, UndoStage, OneByTarget, Exec, Hog
    <3>3. pc["main"].stage + 1 \in 1 .. Len(Program("main")) /\ 1 \in 1 .. Len(setup.targets)
      BY <1>3, <3>1, <3>2
    <3>4. 1 \in 1 .. Len(Program("main")[pc["main"].stage + 1].ops)
      BY <1>1, <3>3, StageOps
    <3> QED
      BY <1>1, <1>2, <1>8, <2>1, <3>2, <3>3, <3>4, PlaceControl
  <2>2. CASE pc["main"].op # Len(Stage("main").ops)
    <3>1. pc["main"].op + 1 \in 1 .. Len(Program("main")[pc["main"].stage].ops)
      BY <1>3, <2>2, SMTT(30)
    <3> QED
      BY <1>1, <1>2, <1>3, <1>8, <2>2, <3>1, PlaceControl
  <2> QED
    BY <2>1, <2>2
<1> QED
  BY <1>4, <1>5, <1>6, <1>7, <1>8 DEF MainMoves, Ends

\* The moves of the watcher.
WatcherMoves ==
  /\ OneMoves("watcher") /\ tries["watcher"] > 0
  /\ \/ Onward("watcher") /\ tries'["watcher"] = tries["watcher"]
     \/ NextAttempt
     \/ /\ Is({"autoscaler"}) /\ Comes("watcher", pc["watcher"].stage, 1, 1)
        /\ tries["watcher"] > 1 /\ tries'["watcher"] = tries["watcher"] - 1

\* The watcher's recovery of pod-autoscaler goes through the applications again.
LEMMA RetryWatcherMoves ==
  ASSUME TypeOK, PcOK, Retries("watcher"), Retry("watcher")
  PROVE  WatcherMoves
<1>1. pc["watcher"].stage \in Nat /\ "watcher" \in Thread /\ tries["watcher"] \in Nat \ {0, 1}
  BY DEF PcOK, Thread, Retries
<1>2. OneMoves("watcher") /\ Comes("watcher", pc["watcher"].stage, 1, 1) /\ tries'["watcher"] = tries["watcher"] - 1
  <2>1. /\ pc' \in [Thread -> [stage : Nat, op : Nat, at : Nat]] /\ Comes("watcher", pc["watcher"].stage, 1, 1)
        /\ \A u \in Thread \ {"watcher"} : pc'[u] = pc[u]
    BY <1>1, GotoMoves DEF Retry
  <2>2. /\ tries' \in [Thread -> Nat] /\ \A u \in Thread \ {"watcher"} : tries'[u] = tries[u]
        /\ tries'["watcher"] = tries["watcher"] - 1
    <3>1. tries["watcher"] - 1 \in Nat /\ tries' = [tries EXCEPT !["watcher"] = tries["watcher"] - 1]
      BY <1>1 DEF Retry
    <3> QED
      BY <1>1, <3>1 DEF PcOK
  <2> QED
    BY <2>1, <2>2 DEF OneMoves
<1> QED
  BY <1>1, <1>2 DEF WatcherMoves, Retries

\* Every operation of the watcher ends in one of the moves.
LEMMA GoOrErrorMoves ==
  ASSUME TypeOK, PcOK, Running("watcher"),
         \/ Go("watcher") \/ Error("watcher") \/ GoOrError("watcher") \/ ErrorExcused("watcher")
         \/ (Retries("watcher") /\ Retry("watcher"))
  PROVE  WatcherMoves /\ lib' = lib
<1>1. tries["watcher"] > 0
  BY DEF Running
<1>2. CASE Go("watcher")
  BY <1>1, <1>2, WatcherGoes DEF WatcherMoves
<1>3. CASE Error("watcher")
  BY <1>1, <1>3, AttemptMoves DEF Error, WatcherMoves
<1>4. CASE Retries("watcher") /\ Retry("watcher")
  BY <1>4, RetryWatcherMoves DEF Retry
<1> QED
  BY <1>2, <1>3, <1>4 DEF GoOrError, ErrorExcused

\* Every step of the watcher but its exit is one of its moves.
LEMMA WatcherStep ==
  ASSUME TypeOK, PcOK, Operation("watcher") \/ Look
  PROVE  WatcherMoves /\ UNCHANGED <<setup, signal, edited, lib>> /\ Running("watcher")
<1>1. CASE Get("watcher")
  BY <1>1, GoOrErrorMoves DEF Get, Does, At
<1>2. CASE Undo("watcher")
  <2>1. Running("watcher") /\ UNCHANGED <<setup, signal, edited>>
    BY <1>2 DEF Undo, Does, At
  <2>2. \/ Update("watcher", Item("watcher"), FALSE)
        \/ Request("watcher", Item("watcher"), FALSE)
        \/ ErrorExcused("watcher")
        \/ Go("watcher") \/ Error("watcher")
    BY <1>2 DEF Undo
  <2>3. CASE Update("watcher", Item("watcher"), FALSE) \/ Request("watcher", Item("watcher"), FALSE)
    BY <2>1, <2>3, GoOrErrorMoves DEF Update, Request, Succeeds
  <2> QED
    BY <2>1, <2>2, <2>3, GoOrErrorMoves
<1>3. CASE Mark("watcher") \/ Confirm("watcher")
  BY <1>3, GoOrErrorMoves DEF Mark, Confirm, Local, Does, At
<1>4. CASE Look
  <2>1. Running("watcher") /\ UNCHANGED <<setup, signal, edited>> /\ (Go("watcher") \/ Error("watcher"))
    BY <1>4 DEF Look, Local, Does, At
  <2> QED
    BY <2>1, GoOrErrorMoves
<1> QED
  BY <1>1, <1>2, <1>3, <1>4 DEF Operation

\* The watcher stays in its program.
LEMMA WatcherControl ==
  ASSUME TypeOK, PcOK, WatcherMoves, setup' = setup
  PROVE  ControlOK("watcher")'
<1>1. PlaceOK("watcher") /\ setup \in Setups /\ "watcher" \in Thread
  BY Place DEF TypeOK, Thread
<1>2. tries["watcher"] \in 0 .. MostTries
  BY <1>1, TriesType
<1>3. tries'["watcher"] \in 0 .. MostTries
  BY <1>2, BoundAssumption DEF WatcherMoves, NextAttempt, MostTries
<1>4. /\ pc["watcher"].stage \in 1 .. Len(Program("watcher")) /\ Len(Program("watcher")) \in Nat \ {0}
      /\ Len(setup.targets) \in Nat \ {0}
  BY <1>1 DEF PlaceOK
<1>5. ASSUME NEW s \in 1 .. Len(Program("watcher")), Comes("watcher", s, 1, 1)
      PROVE  ControlOK("watcher")'
  <2>1. 1 \in 1 .. Len(setup.targets)
    BY <1>4
  <2>2. 1 \in 1 .. Len(Program("watcher")[s].ops)
    BY <1>1, StageOps
  <2> QED
    BY <1>1, <1>3, <1>5, <2>1, <2>2, PlaceControl
<1>6. CASE Onward("watcher")
  BY <1>1, <1>3, <1>6, OnwardControl
<1>7. CASE Comes("watcher", 1, 1, 1)
  BY <1>4, <1>5, <1>7
<1>8. CASE Comes("watcher", pc["watcher"].stage, 1, 1)
  BY <1>4, <1>5, <1>8
<1> QED
  BY <1>6, <1>7, <1>8 DEF WatcherMoves, NextAttempt

\* A step of one thread, or of none.
LEMMA ThreadsControl ==
  ASSUME TypeOK, PcOK, PartsOK, setup' = setup,
         \/ MainMoves
         \/ WatcherMoves
         \/ pc' = pc /\ tries' = tries
  PROVE  /\ pc' \in [Thread -> [stage : Nat, op : Nat, at : Nat]] /\ tries' \in [Thread -> Nat]
         /\ \A t \in Thread : ControlOK(t)'
<1>1. \A t \in Thread : ControlOK(t)
  BY DEF TypeOK, PcOK, ControlOK, MostTries
<1>2. \A t \in Thread : pc'[t] = pc[t] /\ tries'[t] = tries[t] => ControlOK(t)'
  BY <1>1, StayControl
<1>3. CASE MainMoves
  <2>1. ControlOK("main")' /\ ControlOK("watcher")'
    BY <1>2, <1>3, MainControl DEF MainMoves, OneMoves, Thread
  <2> QED
    BY <1>3, <2>1 DEF MainMoves, OneMoves, Thread
<1>4. CASE WatcherMoves
  <2>1. ControlOK("main")' /\ ControlOK("watcher")'
    BY <1>2, <1>4, WatcherControl DEF WatcherMoves, OneMoves, Thread
  <2> QED
    BY <1>4, <2>1 DEF WatcherMoves, OneMoves, Thread
<1>5. CASE pc' = pc /\ tries' = tries
  BY <1>2, <1>5 DEF PcOK
<1> QED
  BY <1>3, <1>4, <1>5

\* What the goroutine of a command may be at, ...
StressStates == {"none", "starting", "running", "received"} \union Results
\* ... and the library.
LibStates == {"running", "aborting", "ok", "failed", "stopped", "aborted"}

\* The histories.
HistoryType == oomed \subseteq Targets /\ unanswered \subseteq Targets /\ excused \subseteq Targets

\* What a step makes of the data.
DataKept ==
  /\ \A t \in Thread, x \in Target : copy'[t][x] = copy[t][x] \/ copy'[t][x] = object[x]
  /\ record' \in [Target -> {"none", "injected", "reverted"}]
  /\ lib' \in LibStates
  /\ failing' \in BOOLEAN /\ watching' \in BOOLEAN /\ signal' \in BOOLEAN
  /\ signChan' \in {"none", "empty", "full"} /\ stress' \in [Target -> StressStates]
  /\ edited' \in [Target -> 0 .. MaxEdits]
  /\ HistoryType'

\* The type invariant, from its parts.
LEMMA TypeKept ==
  ASSUME IInv, IInv', TypeOK, setup' = setup, DataKept, \A t \in Thread : ControlOK(t)'
  PROVE  TypeOK'
<1> DEFINE Typed == [chaos : BOOLEAN, edits : 0 .. MaxEdits, version : Nat]
<1>1. object' \in [Target -> Typed]
  <2>1. object' \in [Target -> Object] /\ \A x \in Target : object'[x].edits = edited'[x]
    BY DEF IInv, ObjectsOK, OthersKept
  <2>2. ASSUME NEW x \in Target PROVE object'[x] \in Typed
    <3>1. object'[x] \in Object /\ object'[x].edits \in 0 .. MaxEdits
      BY <2>1 DEF DataKept
    <3> QED
      BY <3>1 DEF Object
  <2> QED
    BY <2>1, <2>2
<1>2. copy' \in [Thread -> [Target -> Typed]]
  <2>1. copy' \in [Thread -> [Target -> Object]] /\ object \in [Target -> Typed] /\ copy \in [Thread -> [Target -> Typed]]
    BY DEF IInv, ObjectsOK, TypeOK
  <2>2. ASSUME NEW t \in Thread PROVE copy'[t] \in [Target -> Typed]
    <3>1. ASSUME NEW x \in Target PROVE copy'[t][x] \in Typed
      <4> HIDE DEF Typed
      <4> QED
        BY <2>1 DEF DataKept
    <3> HIDE DEF Typed
    <3> QED
      BY <2>1, <3>1
  <2> HIDE DEF Typed
  <2> QED
    BY <2>1, <2>2
<1>3. ASSUME NEW t \in Thread
      PROVE  /\ pc'[t].stage \in DOMAIN Program(t)' /\ pc'[t].op \in DOMAIN (Stage(t)').ops
             /\ pc'[t].at \in DOMAIN setup'.targets
             /\ tries'[t] \in 0 .. IF Steps > 3 THEN Steps ELSE 3
  BY DEF ControlOK, MostTries
<1>4. setup' \in Setups
  BY DEF TypeOK
<1> QED
  BY <1>1, <1>2, <1>3, <1>4 DEF TypeOK, DataKept, HistoryType, StressStates, LibStates

\* What the operations excuse are targets of the experiment.
LEMMA ExcusedTargets ==
  ASSUME TypeOK, setup' = setup, NEW t \in Thread, NEW x \in Targets,
         \/ UNCHANGED history
         \/ ErrorExcused(t) \/ GoOrError(t) \/ Succeeds(t, x, TRUE) \/ Succeeds(t, x, FALSE)
         \/ Excuse({x}) \/ Excuse(Rest(t))
  PROVE  unanswered' \subseteq Targets' /\ excused' \subseteq Targets' /\ excused \subseteq excused'
<1>1. Targets' = Targets /\ unanswered \subseteq Targets /\ excused \subseteq Targets
  BY Fixed DEF TypeOK
<1>2. Rest(t) \subseteq Targets
  <2>1. pc[t].at \in 1 .. Len(setup.targets) /\ Len(setup.targets) \in Nat
        /\ DOMAIN setup.targets = 1 .. Len(setup.targets)
    BY Place, SetupOK DEF PlaceOK, TypeOK
  <2> QED
    BY <2>1 DEF Rest, Targets
<1>3. CASE UNCHANGED history
  BY <1>1, <1>3 DEF history
<1>4. CASE Excuse({x}) \/ Excuse(Rest(t)) \/ Excuse({})
  BY <1>1, <1>2, <1>4 DEF Excuse
<1>5. CASE ErrorExcused(t)
  BY <1>4, <1>5 DEF ErrorExcused
<1>6. CASE GoOrError(t)
  BY <1>3, <1>5, <1>6 DEF GoOrError
<1>7. CASE Succeeds(t, x, TRUE)
  BY <1>1, <1>7 DEF Succeeds, Injected, Unanswered, Excuse
<1>8. CASE Succeeds(t, x, FALSE)
  BY <1>6, <1>8 DEF Succeeds
<1> QED
  BY <1>3, <1>4, <1>5, <1>6, <1>7, <1>8

\* The histories after an operation.
LEMMA UpdateTargets ==
  ASSUME TypeOK, setup' = setup, NEW t \in Thread, NEW x \in Targets, NEW chaos \in BOOLEAN,
         Update(t, x, chaos) \/ Request(t, x, chaos)
  PROVE  unanswered' \subseteq Targets' /\ excused' \subseteq Targets' /\ excused \subseteq excused'
<1>1. chaos = TRUE \/ chaos = FALSE
  OBVIOUS
<1> QED
  BY <1>1, ExcusedTargets DEF Update, Request

\* The same of all operations.
LEMMA OperationHistory ==
  ASSUME TypeOK, NEW t \in Thread,
         Operation(t) \/ (t = "main" /\ (Apply \/ Call)) \/ (t = "watcher" /\ Look)
  PROVE  unanswered' \subseteq Targets' /\ excused' \subseteq Targets' /\ excused \subseteq excused'
<1>1. Item(t) \in Targets
  BY Place DEF PlaceOK
<1>2. CASE Get(t) \/ Mark(t) \/ Confirm(t) \/ (t = "main" /\ Call)
  BY <1>1, <1>2, ExcusedTargets DEF Get, Mark, Confirm, Call, Local, Does
<1>3. CASE t = "main" /\ Apply
  BY <1>1, <1>3, ExcusedTargets, UpdateTargets DEF Apply, Does
<1>4. CASE Undo(t)
  <2>1. setup' = setup
    BY <1>4 DEF Undo, Does
  <2>2. \/ Update(t, Item(t), FALSE) \/ Request(t, Item(t), FALSE) \/ ErrorExcused(t)
        \/ Excuse({Item(t)}) \/ Excuse(Rest(t))
    BY <1>4 DEF Undo
  <2> QED
    BY <1>1, <2>1, <2>2, ExcusedTargets, UpdateTargets
<1>5. CASE t = "watcher" /\ Look
  <2>1. /\ setup' = setup /\ Targets' = Targets
        /\ unanswered \subseteq Targets /\ excused \subseteq Targets
    BY <1>5, Fixed DEF Look, Local, Does, TypeOK
  <2>2. \/ UNCHANGED history
        \/ \E policies \in SUBSET Targets : Excuse(policies)
    BY <1>5 DEF Look
  <2> QED
    BY <2>1, <2>2 DEF Excuse, history
<1> QED
  BY <1>2, <1>3, <1>4, <1>5 DEF Operation

\* Steps that only one part of the data is about.
LEMMA RestKept ==
  ASSUME TypeOK, setup' = setup, UNCHANGED <<copy, record, failing, watching, signal, edited, execVars>>,
         lib' \in LibStates, unanswered' \subseteq Targets' /\ excused' \subseteq Targets'
  PROVE  DataKept
<1>1. Targets' = Targets
  BY Fixed
<1> QED
  BY <1>1 DEF TypeOK, DataKept, HistoryType, execVars, StressStates

\* Where the library may be after a move of main.
LEMMA LibType ==
  ASSUME TypeOK, MainMoves
  PROVE  lib' \in LibStates
  BY DEF TypeOK, MainMoves, Ends, LibStates

\* Main's operations that both threads have.
LEMMA OperationData ==
  ASSUME TypeOK, NEW t \in Thread, Operation(t) \/ (t = "main" /\ Call) \/ (t = "watcher" /\ Look), lib' \in LibStates
  PROVE  DataKept
<1>1. /\ unanswered' \subseteq Targets' /\ excused' \subseteq Targets'
      /\ Targets' = Targets /\ Item(t) \in Target
  BY OperationHistory, Fixed, Place DEF Operation, Get, Undo, Mark, Confirm, Call, Look, Local, Does, PlaceOK
<1>2. UNCHANGED <<setup, signal, edited>>
  BY DEF Operation, Get, Undo, Mark, Confirm, Call, Look, Local, Does
<1>3. CASE Get(t)
  <2>1. \A u \in Thread, x \in Target : copy'[u][x] = copy[u][x] \/ copy'[u][x] = object[x]
    <3>1. copy' = copy \/ copy' = [copy EXCEPT ![t][Item(t)] = object[Item(t)]]
      BY <1>3 DEF Get
    <3>2. CASE copy' = [copy EXCEPT ![t][Item(t)] = object[Item(t)]]
      <4>1. copy = [u \in Thread |-> copy[u]] /\ copy[t] = [x \in Target |-> copy[t][x]]
        BY DEF TypeOK
      <4> QED
        BY <3>2, <4>1
    <3> QED
      BY <3>1, <3>2
  <2>2. UNCHANGED <<record, failing, watching, execVars>>
    BY <1>3 DEF Get
  <2> QED
    BY <1>1, <1>2, <2>1, <2>2 DEF TypeOK, DataKept, HistoryType, execVars, StressStates
<1>4. CASE Undo(t) \/ Confirm(t) \/ (t = "main" /\ Call) \/ (t = "watcher" /\ Look)
  BY <1>1, <1>2, <1>4, RestKept DEF Undo, Confirm, Call, Look, Local
<1>5. CASE Mark(t)
  <2>1. UNCHANGED <<copy, failing, watching, execVars>>
    BY <1>5 DEF Mark
  <2>2. record' \in [Target -> {"none", "injected", "reverted"}]
    BY <1>1, <1>5 DEF Mark, SetTargets, TypeOK
  <2> QED
    BY <1>1, <1>2, <2>1, <2>2 DEF TypeOK, DataKept, HistoryType, execVars, StressStates
<1> QED
  BY <1>3, <1>4, <1>5 DEF Operation

\* The data after main has applied its chaos, ...
LEMMA ApplyData ==
  ASSUME TypeOK, PcOK, PartsOK, Apply
  PROVE  DataKept
<1>1. /\ unanswered' \subseteq Targets' /\ excused' \subseteq Targets' /\ lib' \in LibStates
      /\ Targets' = Targets /\ Item("main") \in Target /\ UNCHANGED <<setup, signal, edited>>
  <2>1. UNCHANGED <<setup, signal, edited>>
    BY DEF Apply, Does
  <2> QED
    BY <2>1, OperationHistory, Fixed, Place, MainStep, LibType DEF Main, Thread, PlaceOK
<1>2. UNCHANGED <<copy, record, failing, watching>>
  BY DEF Apply
<1>3. CASE UNCHANGED execVars
  BY <1>1, <1>2, <1>3, RestKept
<1>4. CASE stress' = [stress EXCEPT ![Item("main")] = "starting"] /\ UNCHANGED <<signChan, oomed>>
  BY <1>1, <1>2, <1>4 DEF TypeOK, DataKept, HistoryType, StressStates
<1> QED
  BY <1>3, <1>4 DEF Apply

\* ... after any step of main, ...
LEMMA MainData ==
  ASSUME TypeOK, PcOK, PartsOK, Main
  PROVE  DataKept
<1>1. UNCHANGED <<setup, signal, edited>> /\ lib' \in LibStates /\ Targets' = Targets
  BY MainStep, LibType, Fixed
<1>2. CASE Operation("main") \/ Call
  BY <1>1, <1>2, OperationData DEF Thread
<1>3. CASE Apply
  BY <1>3, ApplyData
<1>4. CASE Watch \/ Scaled \/ Listen
  <2>1. UNCHANGED <<copy, record, stress, oomed, history>> /\ failing' \in BOOLEAN /\ watching' \in BOOLEAN
        /\ signChan' \in {"none", "empty", "full"}
    BY <1>4 DEF Watch, Scaled, Listen, execVars, TypeOK
  <2> QED
    BY <1>1, <2>1 DEF TypeOK, DataKept, HistoryType, history, StressStates
<1>5. CASE Select \/ Verify \/ TimeIsUp
  <2>1. UNCHANGED <<copy, record, failing, watching, execVars, history>>
    BY <1>5 DEF Select, Verify, TimeIsUp, Local
  <2> QED
    BY <1>1, <2>1, RestKept DEF TypeOK, history
<1>6. CASE ReceiveSignal \/ \E x \in Target : ReceiveResult(x)
  <2>1. UNCHANGED <<copy, record, failing, watching, oomed, history>> /\ stress' \in [Target -> StressStates]
        /\ signChan' \in {"none", "empty", "full"}
    BY <1>6 DEF ReceiveSignal, ReceiveResult, TypeOK, StressStates
  <2> QED
    BY <1>1, <2>1 DEF TypeOK, DataKept, HistoryType, history
<1> QED
  BY <1>2, <1>3, <1>4, <1>5, <1>6 DEF Main

\* ... of the watcher, ...
LEMMA WatcherData ==
  ASSUME TypeOK, PcOK, Watcher
  PROVE  DataKept
<1>1. CASE Operation("watcher") \/ Look
  <2>1. lib' \in LibStates
    BY <1>1, WatcherStep DEF TypeOK, LibStates
  <2> QED
    BY <1>1, <2>1, OperationData DEF Thread
<1>2. CASE Exit
  <2>1. setup' = setup /\ Targets' = Targets
    BY <1>2, Fixed DEF Exit
  <2>2. UNCHANGED <<copy, record, failing, watching, signal, edited, execVars, history>> /\ lib' \in LibStates
    BY <1>2 DEF Exit, objectVars, LibStates
  <2> QED
    BY <2>1, <2>2, RestKept DEF history, TypeOK
<1> QED
  BY <1>1, <1>2 DEF Watcher

\* ... and of the others, which leave the threads where they are.
LEMMA EnvironmentData ==
  ASSUME TypeOK, PartsOK, Environment
  PROVE  DataKept /\ setup' = setup /\ pc' = pc /\ tries' = tries
<1>1. CASE Signal
  <2>1. setup' = setup /\ Targets' = Targets
    BY <1>1, Fixed DEF Signal
  <2> QED
    BY <1>1, <2>1 DEF Signal, threadVars, objectVars, history, TypeOK, DataKept, HistoryType, StressStates, LibStates
<1>2. ASSUME NEW x \in Target, Edit(x) PROVE DataKept /\ setup' = setup /\ pc' = pc /\ tries' = tries
  <2>1. /\ UNCHANGED <<setup, copy, record, threadVars, failing, watching, signal, execVars, history>>
        /\ Targets' = Targets
    BY <1>2, Fixed DEF Edit
  <2>2. edited' \in [Target -> 0 .. MaxEdits]
    <3>1. edited[x] \in 0 .. MaxEdits /\ edited[x] < MaxEdits /\ edited' = [edited EXCEPT ![x] = edited[x] + 1]
      BY <1>2 DEF TypeOK, Edit
    <3>2. edited[x] + 1 \in 0 .. MaxEdits
      BY <3>1, BoundAssumption
    <3> QED
      BY <3>1, <3>2 DEF TypeOK
  <2> QED
    BY <2>1, <2>2 DEF threadVars, execVars, history, TypeOK, DataKept, HistoryType, StressStates, LibStates
<1>3. ASSUME NEW x \in Target, StressStarts(x) \/ StressReturns(x)
      PROVE  DataKept /\ setup' = setup /\ pc' = pc /\ tries' = tries
  <2>1. /\ UNCHANGED <<setup, copy, edited, record, threadVars, failing, watching, signal, signChan, history>>
        /\ Targets' = Targets
    BY <1>3, Fixed DEF StressStarts, StressReturns
  <2>2. stress' \in [Target -> StressStates] /\ oomed' \subseteq Targets
    <3>1. x \in Targets
      BY <1>3 DEF StressStarts, StressReturns, PartsOK, Results
    <3>2. stress' \in [Target -> StressStates]
      <4>1. \E r \in StressStates : stress' = [stress EXCEPT ![x] = r]
        BY <1>3 DEF StressStarts, StressReturns, StressStates, Results
      <4> QED
        BY <4>1 DEF TypeOK, StressStates
    <3>3. oomed' \subseteq Targets'
      BY <1>3, <2>1, <3>1 DEF StressStarts, StressReturns, TypeOK
    <3> QED
      BY <2>1, <3>2, <3>3
  <2> QED
    BY <2>1, <2>2 DEF threadVars, history, TypeOK, DataKept, HistoryType, LibStates
<1> QED
  BY <1>1, <1>2, <1>3 DEF Environment

\* The type invariant and what it needs.
TypeIInv == IInv /\ TypeOK /\ PcOK /\ PartsOK

\* Every step is one of main, of the watcher or of neither.
LEMMA OneStep ==
  ASSUME TypeIInv, Next
  PROVE  /\ setup' = setup /\ DataKept /\ IInv'
         /\ \/ Main /\ MainMoves
            \/ (Operation("watcher") \/ Look) /\ WatcherMoves
            \/ (Exit \/ Environment) /\ pc' = pc /\ tries' = tries
<1>1. IInv'
  BY MainIInv, WatcherIInv, EnvironmentIInv DEF Next, TypeIInv
<1>2. CASE Main
  BY <1>1, <1>2, MainStep, MainData DEF TypeIInv
<1>3. CASE Operation("watcher") \/ Look
  BY <1>1, <1>3, WatcherStep, WatcherData DEF TypeIInv, Watcher
<1>4. CASE Exit
  BY <1>1, <1>4, WatcherData DEF TypeIInv, Watcher, Exit
<1>5. CASE Environment
  BY <1>1, <1>5, EnvironmentData DEF TypeIInv
<1> QED
  BY <1>2, <1>3, <1>4, <1>5 DEF Next, Watcher

\* The parts of the process after a step of main, ...
LEMMA MainParts ==
  ASSUME TypeIInv, Main, MainMoves, setup' = setup
  PROVE  PartsOK'
<1> USE DEF TypeIInv
<1>1. /\ \A kinds : Is(kinds)' = Is(kinds)
      /\ Targets' = Targets /\ signal' = signal /\ PlaceOK("main") /\ Placed(pc["main"].stage, pc["main"].op)
      /\ Op("main") = MainProgram[pc["main"].stage].ops[pc["main"].op]
  BY Fixed, MainStep, Place DEF Thread, PlaceOK, Op, Stage, Program
<1>2. (watching => Is(Watched))' /\ (signChan = "full" => signal)'
  <2>1. watching' => watching \/ Watch
    BY DEF Main, Operation, Get, Undo, Mark, Confirm, Apply, Watch, Select, Call, Verify, Scaled, Listen,
           ReceiveSignal, TimeIsUp, ReceiveResult, Local
  <2>2. Watch => Is(Watched)
    BY <1>1 DEF Watch, Does, At, Placed
  <2>3. signChan' \in {signChan, "empty"}
    BY DEF Main, Operation, Get, Undo, Mark, Confirm, Apply, Watch, Select, Call, Verify, Scaled, Listen,
           ReceiveSignal, TimeIsUp, ReceiveResult, Local, execVars
  <2> QED
    BY <1>1, <2>1, <2>2, <2>3 DEF PartsOK
<1>3. (lib = "aborting" => Is(Exec))' /\ (lib \in {"aborting", "stopped", "aborted"} => signal)'
  BY <1>1 DEF MainMoves, Ends, PartsOK, Placed
<1>4. (~(watching /\ signal) =>
         /\ pc["watcher"] = [stage |-> 1, op |-> 1, at |-> 1]
         /\ tries["watcher"] = (IF Is({"autoscaler"}) THEN Steps ELSE 3))'
  <2>1. watching => watching'
    BY DEF Main, Operation, Get, Undo, Mark, Confirm, Apply, Watch, Select, Call, Verify, Scaled, Listen,
           ReceiveSignal, TimeIsUp, ReceiveResult, Local
  <2> QED
    BY <1>1, <2>1 DEF MainMoves, OneMoves, Thread, PartsOK
<1>5. (\A x \in Target : stress[x] # "none" => Is(Exec) /\ x \in Targets)'
  <2>1. ASSUME NEW x \in Target, stress'[x] # "none", stress[x] = "none" PROVE Is(Exec) /\ x \in Targets
    <3>1. Apply /\ Is(Exec) /\ stress' = [stress EXCEPT ![Item("main")] = "starting"]
      BY <2>1 DEF Main, Operation, Get, Undo, Mark, Confirm, Apply, Watch, Select, Call, Verify, Scaled, Listen,
                  ReceiveSignal, TimeIsUp, ReceiveResult, Local, execVars, Reports, Results, TypeOK
    <3> QED
      BY <1>1, <2>1, <3>1 DEF TypeOK, PlaceOK
  <2> QED
    BY <1>1, <2>1 DEF PartsOK
<1> QED
  BY <1>2, <1>3, <1>4, <1>5 DEF PartsOK

\* ... of the watcher ...
LEMMA WatcherParts ==
  ASSUME TypeIInv, Watcher, setup' = setup
  PROVE  PartsOK'
<1> USE DEF TypeIInv
<1>1. /\ \A kinds : Is(kinds)' = Is(kinds)
      /\ Targets' = Targets
  BY Fixed
<1>2. UNCHANGED <<watching, signal, execVars>> /\ watching /\ signal
  BY DEF Watcher, Operation, Get, Undo, Mark, Confirm, Look, Exit, Local, Does, At, Running, Reverting
<1>3. lib' = lib \/ lib' = "aborted"
  BY WatcherStep DEF Watcher, Exit
<1> QED
  BY <1>1, <1>2, <1>3 DEF PartsOK, execVars

\* ... and of the others.
LEMMA EnvironmentParts ==
  ASSUME TypeIInv, Environment, setup' = setup
  PROVE  PartsOK'
<1> USE DEF TypeIInv
<1>1. /\ \A kinds : Is(kinds)' = Is(kinds)
      /\ Targets' = Targets
  BY Fixed
<1>2. UNCHANGED <<watching, lib, pc, tries>> /\ (signal => signal')
  <2>1. CASE Signal
    BY <2>1 DEF Signal, threadVars
  <2>2. CASE \E x \in Target : Edit(x) \/ StressStarts(x) \/ StressReturns(x)
    <3>1. PICK x \in Target : Edit(x) \/ StressStarts(x) \/ StressReturns(x)
      BY <2>2
    <3>2. UNCHANGED <<watching, threadVars, signal>>
      BY <3>1 DEF Edit, StressStarts, StressReturns
    <3> QED
      BY <3>2 DEF threadVars
  <2> QED
    BY <2>1, <2>2 DEF Environment
<1>3. signChan' = "full" => signal'
  BY DEF Environment, Signal, Edit, StressStarts, StressReturns, execVars, PartsOK
<1>4. \A x \in Target : stress'[x] # "none" => stress[x] # "none"
  BY DEF Environment, Signal, Edit, StressStarts, StressReturns, execVars, TypeOK
<1> QED
  BY <1>1, <1>2, <1>3, <1>4 DEF PartsOK

\* The type invariant holds of the first state ...
LEMMA InitType == Init => TypeIInv
<1> SUFFICES ASSUME Init PROVE TypeIInv
  OBVIOUS
<1>1. setup \in Setups /\ MainShape /\ WatcherProgram \in Seq(StageType) \ {<<>>}
  BY MainTable, WatcherTable DEF Init
<1>2. \A t \in Thread : Len(Program(t)) \in Nat \ {0} /\ Program(t) \in Seq(StageType)
  <2>1. MainProgram \in Seq(StageType) /\ Len(MainProgram) \in Nat \ {0}
    BY <1>1 DEF MainShape
  <2>2. Len(WatcherProgram) \in Nat \ {0}
    BY <1>1
  <2> QED
    BY <1>1, <2>1, <2>2 DEF Program
<1>3. ASSUME NEW t \in Thread
      PROVE  pc[t].stage \in DOMAIN Program(t) /\ pc[t].op \in DOMAIN Stage(t).ops
             /\ pc[t].at \in DOMAIN setup.targets /\ pc[t].at = 1
             /\ tries[t] \in 0 .. IF Steps > 3 THEN Steps ELSE 3
  <2>1. pc[t] = [stage |-> 1, op |-> 1, at |-> 1] /\ 1 \in 1 .. Len(Program(t))
    BY <1>2 DEF Init
  <2>2. 1 \in 1 .. Len(Program(t)[1].ops) /\ Program(t)[1] \in StageType
    BY <1>1, <1>2, <2>1, StageOps
  <2>3. DOMAIN Program(t)[1].ops = 1 .. Len(Program(t)[1].ops)
    BY <2>2 DEF StageType
  <2>4. 1 \in DOMAIN setup.targets
    BY <1>1, SetupOK
  <2>5. tries[t] \in 0 .. IF Steps > 3 THEN Steps ELSE 3
    BY BoundAssumption DEF Init, Thread
  <2> QED
    BY <1>2, <2>1, <2>2, <2>3, <2>4, <2>5 DEF Stage
<1>4. TypeOK
  <2> DEFINE Typed == [chaos : BOOLEAN, edits : 0 .. MaxEdits, version : Nat]
  <2>1. [chaos |-> FALSE, edits |-> 0, version |-> 0] \in Typed /\ 0 \in 0 .. MaxEdits
    BY BoundAssumption
  <2>2. object \in [Target -> Typed] /\ copy \in [Thread -> [Target -> Typed]] /\ edited \in [Target -> 0 .. MaxEdits]
    <3> HIDE DEF Typed
    <3> QED
      BY <2>1 DEF Init
  <2>3. /\ record \in [Target -> {"none", "injected", "reverted"}]
        /\ lib \in {"running", "aborting", "ok", "failed", "stopped", "aborted"}
        /\ failing \in BOOLEAN /\ watching \in BOOLEAN /\ signal \in BOOLEAN
        /\ signChan \in {"none", "empty", "full"}
        /\ stress \in [Target -> {"none", "starting", "running", "received"} \union Results]
        /\ oomed \subseteq Targets /\ unanswered \subseteq Targets /\ excused \subseteq Targets
    BY DEF Init
  <2> QED
    BY <1>1, <1>3, <2>2, <2>3 DEF TypeOK
<1>5. PcOK
  <2>1. tries \in [Thread -> Nat]
    BY BoundAssumption DEF Init, Thread
  <2> QED
    BY <1>3, <2>1 DEF Init, PcOK
<1>6. PartsOK
  BY DEF Init, PartsOK, Is, Thread
<1> QED
  BY <1>4, <1>5, <1>6, InitIInv DEF TypeIInv

\* ... and every step keeps it.
LEMMA NextType == TypeIInv /\ [Next]_vars => TypeIInv'
<1>1. ASSUME TypeIInv, Next PROVE TypeIInv'
  <2>1. /\ setup' = setup /\ DataKept /\ IInv'
        /\ pc' \in [Thread -> [stage : Nat, op : Nat, at : Nat]] /\ tries' \in [Thread -> Nat]
        /\ \A t \in Thread : ControlOK(t)'
    <3>1. /\ setup' = setup /\ DataKept /\ IInv'
          /\ MainMoves \/ WatcherMoves \/ (pc' = pc /\ tries' = tries)
      BY <1>1, OneStep
    <3> QED
      BY <1>1, <3>1, ThreadsControl DEF TypeIInv
  <2>2. TypeOK'
    BY <1>1, <2>1, TypeKept DEF TypeIInv
  <2>3. PcOK'
    BY <2>1 DEF PcOK, ControlOK
  <2>4. PartsOK'
    BY <1>1, <2>1, OneStep, MainParts, WatcherParts, EnvironmentParts DEF Watcher
  <2> QED
    BY <2>1, <2>2, <2>3, <2>4 DEF TypeIInv
<1>2. ASSUME TypeIInv, UNCHANGED vars PROVE TypeIInv'
  <2>1. setup' = setup /\ UNCHANGED <<objectVars, record, threadVars, failing, watching, signal, execVars, history>>
    BY <1>2 DEF vars
  <2>2. IInv'
    BY <1>2, <2>1, SameIInv DEF TypeIInv
  <2>3. pc' \in [Thread -> [stage : Nat, op : Nat, at : Nat]] /\ tries' \in [Thread -> Nat] /\ \A t \in Thread : ControlOK(t)'
    BY <1>2, <2>1, ThreadsControl DEF TypeIInv, threadVars
  <2>4. DataKept
    BY <1>2, <2>1, Fixed DEF TypeIInv, TypeOK, DataKept, HistoryType, objectVars, threadVars, execVars, history,
                            StressStates, LibStates
  <2>5. TypeOK' /\ PcOK'
    BY <1>2, <2>1, <2>2, <2>3, <2>4, TypeKept DEF TypeIInv, PcOK, ControlOK
  <2>6. PartsOK'
    BY <1>2, <2>1, Fixed DEF TypeIInv, PartsOK, threadVars, execVars
  <2> QED
    BY <2>2, <2>5, <2>6 DEF TypeIInv
<1> QED
  BY <1>1, <1>2

\* The type invariant, of all libraries, targets and bounds.
THEOREM TypeCorrect == Spec => []TypeOK
<1>1. Spec => []TypeIInv
  BY InitType, NextType, PTL DEF Spec
<1>2. TypeIInv => TypeOK
  BY DEF TypeIInv
<1> QED
  BY <1>1, <1>2, PTL
=============================================================================
