------------------------- MODULE HelperChaosProofs -------------------------
(***************************************************************************)
(* Proofs about HelperChaos, for any number of targets and any setups: its *)
(* type invariant, and its three safety invariants.  The inductive         *)
(* invariant has a part about one helper, which says where in its script    *)
(* chaos can be in the target and when none can come any more, and a part   *)
(* about the library, which says what has become of the helpers so far.    *)
(***************************************************************************)
EXTENDS HelperChaos, SequenceTheorems, TLAPS

----------------------------------------------------------------------------
(* The inductive invariant: one helper *)

\* The operation that comes next.
Pos(s) == IF s = <<>> THEN "end" ELSE Head(s)
op(x) == Pos(todo[x])

\* A script; that of container-kill with one round of its loop.
ContainerKillLine == <<"prepare", "strike", "verify", "while", "targeted">>
Line(kind) == IF kind = "containerKill" THEN ContainerKillLine ELSE Script(kind)

\* What may be left of a sequence of operations.
Cuts(line) == {SubSeq(line, k, Len(line)) : k \in 1 .. Len(line) + 1}

\* What may be left of a helper's script.  The stress helper goes on when its process has ended.
Suffixes(kind) ==
  Cuts(Line(kind)) \union
  (IF kind = "stress" THEN {<<"reverted", "fail">>, <<"reverted">>, <<"fail">>} ELSE {})

\* The operations up to the one that starts the chaos.
Early ==
  CASE setup.kind = "network"  -> {"prepare", "watch", "select", "inject"}
    [] setup.kind = "diskFill" -> {"prepare", "watch", "size", "select", "inject"}
    [] setup.kind = "stress"   -> {"select", "prepare", "start"}
    [] setup.kind = "dns"      -> {"prepare", "spawn"}
    [] OTHER                   -> {}

\* The target has no chaos, and none can come any more: what would inject it has been
\* passed, or finds the signal.
Settled(x) ==
  /\ chaos[x] = "none" /\ ~InFlight(x)
  /\ op(x) \in Early => setup.kind # "stress" /\ op(x) \in {"size", "select"} /\ deleted[x]

\* The pod and how the helper ended.
PodOK(x) ==
  /\ pod[x] \in {"none", "pending"} =>
       exit[x] = "none" /\ chaos[x] = "none" /\ annotation[x] = "none" /\ attempts[x] = Attempts
  /\ pod[x] = "none" => ~deleted[x]
  /\ pod[x] = "gone" => deleted[x]
  /\ pod[x] \in {"succeeded", "failed"} => exit[x] # "none"
  /\ ~setup.sidecar => /\ pod[x] = "running" => exit[x] = "none"
                       /\ pod[x] = "succeeded" => exit[x] = "ok"
                       /\ pod[x] = "failed" => exit[x] # "ok"
  /\ Up(x) \/ (todo[x] = <<>> /\ routine[x] = "none")

\* The other goroutine: which it is, from where on, and that it has had the signal.
RoutineOK(x) ==
  /\ routine[x] \in IF setup.kind = "dns" THEN {"none", "select", "starting", "running"}
                     ELSE {"none", "waiting", "reverting", "annotating", "exiting"}
  /\ setup.kind = "containerKill" => routine[x] = "none"
  /\ op(x) \in {"prepare", "watch", "start", "spawn"} => routine[x] = "none"
  /\ setup.kind = "stress" /\ op(x) = "select" => routine[x] = "none"
  /\ routine[x] \in {"reverting", "annotating", "exiting"} => deleted[x]

\* The attempts that are left, and who makes them.
AttemptsOK(x) ==
  /\ misses[x] + attempts[x] <= Attempts
  /\ routine[x] = "reverting" \/ op(x) = "kill" => attempts[x] > 0
  /\ attempts[x] # Attempts /\ exit[x] = "none" =>
       IF setup.kind = "dns" THEN op(x) \in {"kill", "reverted", "end"}
       ELSE routine[x] \in {"reverting", "annotating", "exiting"}

\* Where there is no chaos yet.
ChaosOK(x) == setup.kind = "containerKill" \/ op(x) \in Early => chaos[x] = "none"

\* Where there is no chaos any more, if the chaos is not stuck: after the revert of either
\* goroutine, which one attempt that is not a miss is enough for.
SettledOK(x) ==
  /\ misses[x] + attempts[x] < Attempts => Settled(x)
  /\ op(x) \in {"reverted", "fail"} \/ (op(x) = "end" /\ exit[x] = "none") => Settled(x)
  /\ routine[x] \in {"annotating", "exiting"} => Settled(x)
  /\ annotation[x] = "reverted" \/ exit[x] \in {"ok", "aborted"} => Settled(x)

AnnotationOK(x) ==
  op(x) \in Early \/ (op(x) = "end" /\ exit[x] \in {"none", "ok"}) => annotation[x] # "injected"

HelperOK(x) ==
  /\ todo[x] \in Suffixes(setup.kind)
  /\ PodOK(x) /\ RoutineOK(x) /\ AttemptsOK(x) /\ ChaosOK(x) /\ AnnotationOK(x)
  /\ ~Stuck(x) => SettledOK(x)

----------------------------------------------------------------------------
(* The inductive invariant: the library *)

BatchOK ==
  /\ left \subseteq Target /\ batch \subseteq Target \ left
  /\ \A x \in left : pod[x] = "none"
  /\ \A x \in batch : pod[x] # "none"
  /\ lib = "start" => left = Target
  /\ setup.sequence = "serial" => \A x, y \in batch : x = y
  /\ lib = "ok" \/ (setup.sequence = "parallel" /\ lib \in {"check", "wait", "delete", "deleting"})
       => left = {}
  /\ setup.sequence = "parallel" => batch = Target \ left

\* Serial: the helpers before the last have ended well and are deleted, whoever aborts.
SerialOK ==
  setup.sequence = "serial" /\ ~setup.sidecar =>
    /\ \A x \in Target \ (left \union batch) : exit[x] = "ok" /\ pod[x] = "gone"
    /\ lib \in {"create", "ok"} => \A x \in batch : exit[x] = "ok" /\ pod[x] = "gone"
    /\ lib = "delete" => \A x \in batch : exit[x] = "ok" \/ pod[x] = "gone"
    /\ lib = "deleting" => \A x \in batch : exit[x] = "ok"

\* Parallel, and nobody aborts.
ParallelOK ==
  setup.sequence = "parallel" /\ ~setup.sidecar /\ ~aborted =>
    /\ lib \in {"start", "create", "check", "wait"} => \A x \in Target : ~deleted[x]
    /\ lib \in {"delete", "deleting", "ok"} => \A x \in Target : exit[x] = "ok"
    /\ lib = "ok" => \A x \in Target : pod[x] = "gone"

IInv == TypeOK /\ setup \in Setups /\ (\A x \in Target : HelperOK(x)) /\ BatchOK /\ SerialOK /\ ParallelOK

----------------------------------------------------------------------------
(* The scripts *)

\* A cut of a sequence.
LEMMA CutAt ==
  ASSUME NEW S, NEW line \in Seq(S), NEW k \in 1 .. Len(line)
  PROVE  /\ SubSeq(line, k, Len(line)) # <<>>
         /\ Head(SubSeq(line, k, Len(line))) = line[k]
         /\ Tail(SubSeq(line, k, Len(line))) = SubSeq(line, k + 1, Len(line))
  BY SMTT(30)

\* The next operation is the one at the cut, and what is left after it is a cut again.
LEMMA CutStep ==
  ASSUME NEW line \in Seq(Ops), NEW s \in Cuts(line)
  PROVE  /\ s \in Seq(Ops)
         /\ s # <<>> => \E k \in 1 .. Len(line) :
              /\ Head(s) = line[k] /\ Tail(s) \in Cuts(line)
              /\ Pos(Tail(s)) = IF k = Len(line) THEN "end" ELSE line[k + 1]
<1> DEFINE n == Len(line)
           Cut(k) == SubSeq(line, k, n)
<1>1. PICK k \in 1 .. n + 1 : s = Cut(k)
  BY DEF Cuts
<1>2. n \in Nat /\ \A i \in 1 .. n + 1 : Cut(i) \in Seq(Ops) /\ Len(Cut(i)) = n + 1 - i
  OBVIOUS
<1>3. ASSUME NEW i \in 1 .. n
      PROVE  Cut(i) # <<>> /\ Head(Cut(i)) = line[i] /\ Tail(Cut(i)) = Cut(i + 1)
  BY CutAt
<1>4. Cut(n + 1) = <<>>
  OBVIOUS
<1>5. \A i \in 1 .. n + 1 : Cut(i) \in Cuts(line)
  BY DEF Cuts
<1> HIDE DEF n, Cut
<1>6. s \in Seq(Ops)
  BY <1>1, <1>2
<1>7. ASSUME s # <<>>
      PROVE  /\ k \in 1 .. n /\ Head(s) = line[k] /\ Tail(s) \in Cuts(line)
             /\ Pos(Tail(s)) = IF k = n THEN "end" ELSE line[k + 1]
  <2>1. k \in 1 .. n
    BY <1>1, <1>2, <1>4, <1>7
  <2>2. Head(s) = line[k] /\ Tail(s) = Cut(k + 1)
    BY <1>1, <1>3, <2>1
  <2>3. k + 1 \in 1 .. n + 1
    BY <1>2, <2>1
  <2>4. CASE k = n
    BY <1>4, <1>5, <2>1, <2>2, <2>3, <2>4 DEF Pos
  <2>5. CASE k # n
    <3>1. k + 1 \in 1 .. n
      BY <1>2, <2>1, <2>5
    <3>2. Cut(k + 1) # <<>> /\ Head(Cut(k + 1)) = line[k + 1]
      BY <1>3, <3>1
    <3> QED
      BY <1>5, <2>1, <2>2, <2>3, <2>5, <3>2 DEF Pos
  <2> QED
    BY <2>4, <2>5
<1> QED
  BY <1>6, <1>7 DEF n

\* Nothing may be left, or everything.
LEMMA EmptyCut ==
  ASSUME NEW line \in Seq(Ops)
  PROVE  <<>> \in Cuts(line)
<1>1. SubSeq(line, Len(line) + 1, Len(line)) = <<>>
  OBVIOUS
<1>2. Len(line) + 1 \in 1 .. Len(line) + 1
  OBVIOUS
<1> QED
  BY <1>1, <1>2 DEF Cuts

LEMMA WholeCut ==
  ASSUME NEW line \in Seq(Ops), line # <<>>
  PROVE  line \in Cuts(line)
<1>1. Len(line) \in Nat \ {0} /\ SubSeq(line, 1, Len(line)) = line
  OBVIOUS
<1> QED
  BY <1>1 DEF Cuts

\* What follows each operation of network chaos.
LEMMA FollowNetwork ==
  ASSUME NEW s \in Suffixes("network")
  PROVE  /\ s \in Seq(Ops)
         /\ s # <<>> =>
              /\ Tail(s) \in Suffixes("network")
              /\ \/ Head(s) = "prepare" /\ Pos(Tail(s)) = "watch"
                 \/ Head(s) = "watch" /\ Pos(Tail(s)) = "select"
                 \/ Head(s) = "select" /\ Pos(Tail(s)) = "inject"
                 \/ Head(s) = "inject" /\ Pos(Tail(s)) = "complete"
                 \/ Head(s) = "complete" /\ Pos(Tail(s)) = "injected"
                 \/ Head(s) = "injected" /\ Pos(Tail(s)) = "wait"
                 \/ Head(s) = "wait" /\ Pos(Tail(s)) = "revert"
                 \/ Head(s) = "revert" /\ Pos(Tail(s)) = "reverted"
                 \/ Head(s) = "reverted" /\ Pos(Tail(s)) = "end"
<1>1. Line("network") = NetworkHelper
  BY DEF Line, Script
<1>2. NetworkHelper \in Seq(Ops) /\ Len(NetworkHelper) = 9
  BY DEF NetworkHelper, Ops
<1>3. Suffixes("network") = Cuts(NetworkHelper)
  BY <1>1 DEF Suffixes
<1>4. s \in Cuts(NetworkHelper) /\ s \in Seq(Ops)
  BY <1>2, <1>3, CutStep
<1>5. ASSUME s # <<>>
      PROVE  /\ Tail(s) \in Suffixes("network")
             /\ \E k \in 1 .. 9 :
                  /\ Head(s) = NetworkHelper[k]
                  /\ Pos(Tail(s)) = IF k = 9 THEN "end" ELSE NetworkHelper[k + 1]
  BY <1>2, <1>3, <1>4, <1>5, CutStep
<1> QED
  BY <1>4, <1>5 DEF NetworkHelper

\* What follows each operation of disk-fill chaos.
LEMMA FollowDiskFill ==
  ASSUME NEW s \in Suffixes("diskFill")
  PROVE  /\ s \in Seq(Ops)
         /\ s # <<>> =>
              /\ Tail(s) \in Suffixes("diskFill")
              /\ \/ Head(s) = "prepare" /\ Pos(Tail(s)) = "watch"
                 \/ Head(s) = "watch" /\ Pos(Tail(s)) = "size"
                 \/ Head(s) = "size" /\ Pos(Tail(s)) = "select"
                 \/ Head(s) = "select" /\ Pos(Tail(s)) = "inject"
                 \/ Head(s) = "inject" /\ Pos(Tail(s)) = "complete"
                 \/ Head(s) = "complete" /\ Pos(Tail(s)) = "injected"
                 \/ Head(s) = "injected" /\ Pos(Tail(s)) = "wait"
                 \/ Head(s) = "wait" /\ Pos(Tail(s)) = "revert"
                 \/ Head(s) = "revert" /\ Pos(Tail(s)) = "reverted"
                 \/ Head(s) = "reverted" /\ Pos(Tail(s)) = "end"
<1>1. Line("diskFill") = DiskFillHelper
  BY DEF Line, Script
<1>2. DiskFillHelper \in Seq(Ops) /\ Len(DiskFillHelper) = 10
  BY DEF DiskFillHelper, Ops
<1>3. Suffixes("diskFill") = Cuts(DiskFillHelper)
  BY <1>1 DEF Suffixes
<1>4. s \in Cuts(DiskFillHelper) /\ s \in Seq(Ops)
  BY <1>2, <1>3, CutStep
<1>5. ASSUME s # <<>>
      PROVE  /\ Tail(s) \in Suffixes("diskFill")
             /\ \E k \in 1 .. 10 :
                  /\ Head(s) = DiskFillHelper[k]
                  /\ Pos(Tail(s)) = IF k = 10 THEN "end" ELSE DiskFillHelper[k + 1]
  BY <1>2, <1>3, <1>4, <1>5, CutStep
<1> QED
  BY <1>4, <1>5 DEF DiskFillHelper

\* What follows each operation of dns chaos.
LEMMA FollowDNS ==
  ASSUME NEW s \in Suffixes("dns")
  PROVE  /\ s \in Seq(Ops)
         /\ s # <<>> =>
              /\ Tail(s) \in Suffixes("dns")
              /\ \/ Head(s) = "prepare" /\ Pos(Tail(s)) = "spawn"
                 \/ Head(s) = "spawn" /\ Pos(Tail(s)) = "injected"
                 \/ Head(s) = "injected" /\ Pos(Tail(s)) = "wait"
                 \/ Head(s) = "wait" /\ Pos(Tail(s)) = "kill"
                 \/ Head(s) = "kill" /\ Pos(Tail(s)) = "reverted"
                 \/ Head(s) = "reverted" /\ Pos(Tail(s)) = "end"
<1>1. Line("dns") = DNSHelper
  BY DEF Line, Script
<1>2. DNSHelper \in Seq(Ops) /\ Len(DNSHelper) = 6
  BY DEF DNSHelper, Ops
<1>3. Suffixes("dns") = Cuts(DNSHelper)
  BY <1>1 DEF Suffixes
<1>4. s \in Cuts(DNSHelper) /\ s \in Seq(Ops)
  BY <1>2, <1>3, CutStep
<1>5. ASSUME s # <<>>
      PROVE  /\ Tail(s) \in Suffixes("dns")
             /\ \E k \in 1 .. 6 :
                  /\ Head(s) = DNSHelper[k]
                  /\ Pos(Tail(s)) = IF k = 6 THEN "end" ELSE DNSHelper[k + 1]
  BY <1>2, <1>3, <1>4, <1>5, CutStep
<1> QED
  BY <1>4, <1>5 DEF DNSHelper

\* What follows each operation of stress chaos.
LEMMA FollowStress ==
  ASSUME NEW s \in Suffixes("stress")
  PROVE  /\ s \in Seq(Ops)
         /\ s # <<>> =>
              /\ Tail(s) \in Suffixes("stress")
              /\ \/ Head(s) = "select" /\ Pos(Tail(s)) = "prepare"
                 \/ Head(s) = "prepare" /\ Pos(Tail(s)) = "start"
                 \/ Head(s) = "start" /\ Pos(Tail(s)) = "watch"
                 \/ Head(s) = "watch" /\ Pos(Tail(s)) = "join"
                 \/ Head(s) = "join" /\ Pos(Tail(s)) = "resume"
                 \/ Head(s) = "resume" /\ Pos(Tail(s)) = "injected"
                 \/ Head(s) = "injected" /\ Pos(Tail(s)) = "await"
                 \/ Head(s) = "await" /\ Pos(Tail(s)) = "end"
                 \/ Head(s) = "reverted" /\ Pos(Tail(s)) \in {"fail", "end"}
                 \/ Head(s) = "fail" /\ Pos(Tail(s)) = "end"
<1>1. Line("stress") = StressHelper
  BY DEF Line, Script
<1>2. StressHelper \in Seq(Ops) /\ Len(StressHelper) = 8
  BY DEF StressHelper, Ops
<1>3. Suffixes("stress") = Cuts(StressHelper) \union {<<"reverted", "fail">>, <<"reverted">>, <<"fail">>}
  BY <1>1 DEF Suffixes
<1>4. <<>> \in Suffixes("stress")
  BY <1>2, <1>3, EmptyCut
<1>5. CASE s \in Cuts(StressHelper)
  <2>1. s \in Seq(Ops)
    BY <1>2, <1>5, CutStep
  <2>2. ASSUME s # <<>>
        PROVE  /\ Tail(s) \in Suffixes("stress")
               /\ \E k \in 1 .. 8 :
                    /\ Head(s) = StressHelper[k]
                    /\ Pos(Tail(s)) = IF k = 8 THEN "end" ELSE StressHelper[k + 1]
    BY <1>2, <1>3, <1>5, <2>2, CutStep
  <2> QED
    BY <2>1, <2>2 DEF StressHelper
<1>6. CASE s = <<"reverted", "fail">>
  BY <1>3, <1>6 DEF Pos, Ops
<1>7. CASE s = <<"reverted">>
  BY <1>4, <1>7 DEF Pos, Ops
<1>8. CASE s = <<"fail">>
  BY <1>4, <1>8 DEF Pos, Ops
<1> QED
  BY <1>3, <1>5, <1>6, <1>7, <1>8

\* What follows each operation of container-kill, and what its loop puts before the rest.
LEMMA FollowContainerKill ==
  ASSUME NEW s \in Suffixes("containerKill")
  PROVE  /\ s \in Seq(Ops)
         /\ s # <<>> =>
              /\ Tail(s) \in Suffixes("containerKill")
              /\ \/ Head(s) = "prepare" /\ Pos(Tail(s)) = "strike"
                 \/ Head(s) = "strike" /\ Pos(Tail(s)) = "verify"
                 \/ Head(s) = "verify" /\ Pos(Tail(s)) = "while"
                 \/ /\ Head(s) = "while" /\ Pos(Tail(s)) = "targeted"
                    /\ <<"prepare", "strike", "verify">> \o s \in Suffixes("containerKill")
                    /\ Pos(<<"prepare", "strike", "verify">> \o s) = "prepare"
                 \/ Head(s) = "targeted" /\ Pos(Tail(s)) = "end"
<1>1. Suffixes("containerKill") = Cuts(ContainerKillLine)
  BY DEF Suffixes, Line
<1>2. ContainerKillLine \in Seq(Ops) /\ Len(ContainerKillLine) = 5
  BY DEF ContainerKillLine, Ops
<1>3. s \in Cuts(ContainerKillLine) /\ s \in Seq(Ops)
  BY <1>1, <1>2, CutStep
<1>4. ASSUME s # <<>>
      PROVE  /\ Tail(s) \in Suffixes("containerKill")
             /\ \E k \in 1 .. 5 :
                  /\ Head(s) = ContainerKillLine[k]
                  /\ Pos(Tail(s)) = IF k = 5 THEN "end" ELSE ContainerKillLine[k + 1]
  BY <1>1, <1>2, <1>3, <1>4, CutStep
<1>5. ASSUME s # <<>>, Head(s) = "while"
      PROVE  /\ <<"prepare", "strike", "verify">> \o s \in Suffixes("containerKill")
             /\ Pos(<<"prepare", "strike", "verify">> \o s) = "prepare"
  <2>1. PICK k \in 1 .. 6 : s = SubSeq(ContainerKillLine, k, 5)
    BY <1>2, <1>3 DEF Cuts
  <2>2. k = 4
    <3>1. SubSeq(ContainerKillLine, 6, 5) = <<>>
      BY <1>2
    <3>2. k \in 1 .. 5
      BY <1>5, <2>1, <3>1
    <3>3. Head(s) = ContainerKillLine[k]
      BY <1>2, <2>1, <3>2, CutAt
    <3> QED
      BY <1>5, <3>2, <3>3 DEF ContainerKillLine
  <2>3. Len(s) = 2 /\ s[1] = "while" /\ s[2] = "targeted"
    BY <1>2, <2>1, <2>2 DEF ContainerKillLine
  <2>4. <<"prepare", "strike", "verify">> \o s = ContainerKillLine
    <3> DEFINE round == <<"prepare", "strike", "verify">>
    <3>1. round \in Seq(Ops) /\ Len(round) = 3
      BY DEF Ops
    <3>2. round[1] = "prepare" /\ round[2] = "strike" /\ round[3] = "verify"
      OBVIOUS
    <3> HIDE DEF round
    <3>3. /\ round \o s \in Seq(Ops) /\ Len(round \o s) = Len(round) + Len(s)
          /\ \A i \in 1 .. Len(round) + Len(s) :
               (round \o s)[i] = IF i <= Len(round) THEN round[i] ELSE s[i - Len(round)]
      BY <1>3, <3>1, ConcatProperties
    <3>4. /\ Len(round \o s) = 5
          /\ \A i \in 1 .. 5 : (round \o s)[i] = ContainerKillLine[i]
      BY <2>3, <3>1, <3>2, <3>3 DEF ContainerKillLine
    <3>5. round \o s = ContainerKillLine
      BY <1>2, <3>3, <3>4, SeqEqual
    <3> QED
      BY <3>5 DEF round
  <2>5. ContainerKillLine \in Cuts(ContainerKillLine)
    BY <1>2, WholeCut, SMTT(30)
  <2>6. Pos(ContainerKillLine) = "prepare"
    BY DEF Pos, ContainerKillLine
  <2> QED
    BY <1>1, <2>4, <2>5, <2>6
<1> QED
  BY <1>3, <1>4, <1>5 DEF ContainerKillLine

\* The scripts of all kinds.
LEMMA ScriptOK ==
  ASSUME NEW kind \in Kinds
  PROVE  /\ Line(kind) \in Seq(Ops) /\ Script(kind) \in Suffixes(kind) /\ <<>> \in Suffixes(kind)
         /\ Pos(Script(kind)) = CASE kind = "stress"        -> "select"
                                  [] kind = "containerKill" -> "while"
                                  [] OTHER                  -> "prepare"
<1>1. CASE kind = "network"
  <2>1. Line(kind) = NetworkHelper /\ Script(kind) = NetworkHelper
    BY <1>1 DEF Line, Script
  <2>2. NetworkHelper \in Seq(Ops) /\ NetworkHelper # <<>> /\ Head(NetworkHelper) = "prepare"
    BY DEF NetworkHelper, Ops
  <2> QED
    BY <1>1, <2>1, <2>2, EmptyCut, WholeCut DEF Suffixes, Pos
<1>2. CASE kind = "diskFill"
  <2>1. Line(kind) = DiskFillHelper /\ Script(kind) = DiskFillHelper
    BY <1>2 DEF Line, Script
  <2>2. DiskFillHelper \in Seq(Ops) /\ DiskFillHelper # <<>> /\ Head(DiskFillHelper) = "prepare"
    BY DEF DiskFillHelper, Ops
  <2> QED
    BY <1>2, <2>1, <2>2, EmptyCut, WholeCut DEF Suffixes, Pos
<1>3. CASE kind = "dns"
  <2>1. Line(kind) = DNSHelper /\ Script(kind) = DNSHelper
    BY <1>3 DEF Line, Script
  <2>2. DNSHelper \in Seq(Ops) /\ DNSHelper # <<>> /\ Head(DNSHelper) = "prepare"
    BY DEF DNSHelper, Ops
  <2> QED
    BY <1>3, <2>1, <2>2, EmptyCut, WholeCut DEF Suffixes, Pos
<1>4. CASE kind = "stress"
  <2>1. Line(kind) = StressHelper /\ Script(kind) = StressHelper
    BY <1>4 DEF Line, Script
  <2>2. StressHelper \in Seq(Ops) /\ StressHelper # <<>> /\ Head(StressHelper) = "select"
    BY DEF StressHelper, Ops
  <2> QED
    BY <1>4, <2>1, <2>2, EmptyCut, WholeCut DEF Suffixes, Pos
<1>5. CASE kind = "containerKill"
  <2>1. Line(kind) = ContainerKillLine /\ Script(kind) = ContainerKillHelper
    BY <1>5 DEF Line, Script
  <2>2. /\ ContainerKillLine \in Seq(Ops) /\ Len(ContainerKillLine) = 5
        /\ ContainerKillHelper \in Seq(Ops) /\ Len(ContainerKillHelper) = 2
        /\ ContainerKillHelper # <<>> /\ Head(ContainerKillHelper) = "while"
    BY DEF ContainerKillLine, ContainerKillHelper, Ops
  <2>3. ContainerKillHelper \in Cuts(ContainerKillLine)
    <3> DEFINE cut == SubSeq(ContainerKillLine, 4, 5)
    <3>1. cut \in Seq(Ops) /\ Len(cut) = 2
      <4>1. \A i \in 4 .. 5 : ContainerKillLine[i] \in Ops
        BY DEF ContainerKillLine, Ops
      <4> QED
        BY <4>1, SubSeqProperties
    <3>2. \A i \in 1 .. 2 : cut[i] = ContainerKillHelper[i]
      BY <2>2 DEF ContainerKillLine, ContainerKillHelper
    <3>3. cut = ContainerKillHelper
      BY <2>2, <3>1, <3>2, SeqEqual
    <3> QED
      BY <2>2, <3>3 DEF Cuts
  <2> QED
    BY <1>5, <2>1, <2>2, <2>3, EmptyCut DEF Suffixes, Pos
<1> QED
  BY <1>1, <1>2, <1>3, <1>4, <1>5 DEF Kinds

----------------------------------------------------------------------------
(* One helper: what a step of it keeps *)

\* The operation that follows the next one, in every script.
LEMMA Follow ==
  ASSUME NEW x \in Target, HelperOK(x), setup.kind \in Kinds
  PROVE  /\ todo[x] \in Seq(Ops)
         /\ todo[x] # <<>> =>
              /\ op(x) = Head(todo[x]) /\ op(x) # "end"
              /\ Tail(todo[x]) \in Suffixes(setup.kind)
              /\ setup.kind = "network" =>
                   \/ op(x) = "prepare" /\ Pos(Tail(todo[x])) = "watch"
                   \/ op(x) = "watch" /\ Pos(Tail(todo[x])) = "select"
                   \/ op(x) = "select" /\ Pos(Tail(todo[x])) = "inject"
                   \/ op(x) = "inject" /\ Pos(Tail(todo[x])) = "complete"
                   \/ op(x) = "complete" /\ Pos(Tail(todo[x])) = "injected"
                   \/ op(x) = "injected" /\ Pos(Tail(todo[x])) = "wait"
                   \/ op(x) = "wait" /\ Pos(Tail(todo[x])) = "revert"
                   \/ op(x) = "revert" /\ Pos(Tail(todo[x])) = "reverted"
                   \/ op(x) = "reverted" /\ Pos(Tail(todo[x])) = "end"
              /\ setup.kind = "diskFill" =>
                   \/ op(x) = "prepare" /\ Pos(Tail(todo[x])) = "watch"
                   \/ op(x) = "watch" /\ Pos(Tail(todo[x])) = "size"
                   \/ op(x) = "size" /\ Pos(Tail(todo[x])) = "select"
                   \/ op(x) = "select" /\ Pos(Tail(todo[x])) = "inject"
                   \/ op(x) = "inject" /\ Pos(Tail(todo[x])) = "complete"
                   \/ op(x) = "complete" /\ Pos(Tail(todo[x])) = "injected"
                   \/ op(x) = "injected" /\ Pos(Tail(todo[x])) = "wait"
                   \/ op(x) = "wait" /\ Pos(Tail(todo[x])) = "revert"
                   \/ op(x) = "revert" /\ Pos(Tail(todo[x])) = "reverted"
                   \/ op(x) = "reverted" /\ Pos(Tail(todo[x])) = "end"
              /\ setup.kind = "dns" =>
                   \/ op(x) = "prepare" /\ Pos(Tail(todo[x])) = "spawn"
                   \/ op(x) = "spawn" /\ Pos(Tail(todo[x])) = "injected"
                   \/ op(x) = "injected" /\ Pos(Tail(todo[x])) = "wait"
                   \/ op(x) = "wait" /\ Pos(Tail(todo[x])) = "kill"
                   \/ op(x) = "kill" /\ Pos(Tail(todo[x])) = "reverted"
                   \/ op(x) = "reverted" /\ Pos(Tail(todo[x])) = "end"
              /\ setup.kind = "stress" =>
                   \/ op(x) = "select" /\ Pos(Tail(todo[x])) = "prepare"
                   \/ op(x) = "prepare" /\ Pos(Tail(todo[x])) = "start"
                   \/ op(x) = "start" /\ Pos(Tail(todo[x])) = "watch"
                   \/ op(x) = "watch" /\ Pos(Tail(todo[x])) = "join"
                   \/ op(x) = "join" /\ Pos(Tail(todo[x])) = "resume"
                   \/ op(x) = "resume" /\ Pos(Tail(todo[x])) = "injected"
                   \/ op(x) = "injected" /\ Pos(Tail(todo[x])) = "await"
                   \/ op(x) = "await" /\ Pos(Tail(todo[x])) = "end"
                   \/ op(x) = "reverted" /\ Pos(Tail(todo[x])) \in {"fail", "end"}
                   \/ op(x) = "fail" /\ Pos(Tail(todo[x])) = "end"
              /\ setup.kind = "containerKill" =>
                   \/ op(x) = "prepare" /\ Pos(Tail(todo[x])) = "strike"
                   \/ op(x) = "strike" /\ Pos(Tail(todo[x])) = "verify"
                   \/ op(x) = "verify" /\ Pos(Tail(todo[x])) = "while"
                   \/ /\ op(x) = "while" /\ Pos(Tail(todo[x])) = "targeted"
                      /\ <<"prepare", "strike", "verify">> \o todo[x] \in Suffixes("containerKill")
                      /\ Pos(<<"prepare", "strike", "verify">> \o todo[x]) = "prepare"
                   \/ op(x) = "targeted" /\ Pos(Tail(todo[x])) = "end"
<1>1. todo[x] \in Suffixes(setup.kind)
  BY DEF HelperOK
<1>2. todo[x] # <<>> => op(x) = Head(todo[x])
  BY DEF op, Pos
<1>3. CASE setup.kind = "network"
  BY <1>1, <1>2, <1>3, FollowNetwork
<1>4. CASE setup.kind = "diskFill"
  BY <1>1, <1>2, <1>4, FollowDiskFill
<1>5. CASE setup.kind = "dns"
  BY <1>1, <1>2, <1>5, FollowDNS
<1>6. CASE setup.kind = "stress"
  BY <1>1, <1>2, <1>6, FollowStress
<1>7. CASE setup.kind = "containerKill"
  BY <1>1, <1>2, <1>7, FollowContainerKill
<1> QED
  BY <1>3, <1>4, <1>5, <1>6, <1>7 DEF Kinds

\* A command in flight, told by the next operation; now and after a step.
LEMMA InFlightOp ==
  ASSUME NEW x \in Target
  PROVE  /\ InFlight(x) <=> \/ Up(x) /\ op(x) = "inject"
                            \/ routine[x] = "starting"
                            \/ routine[x] = "select" /\ ~deleted[x]
         /\ InFlight(x)' <=> \/ Up(x)' /\ op(x)' = "inject"
                             \/ routine'[x] = "starting"
                             \/ routine'[x] = "select" /\ ~deleted'[x]
  BY DEF InFlight, At, op, Pos

\* What a step leaves as it is at x.
SamePod(x) == pod'[x] = pod[x] /\ deleted'[x] = deleted[x] /\ exit'[x] = exit[x]
SameRoutine(x) == routine'[x] = routine[x] /\ attempts'[x] = attempts[x] /\ misses'[x] = misses[x]
SameTarget(x) == chaos'[x] = chaos[x] /\ annotation'[x] = annotation[x]
Same(x) == SamePod(x) /\ SameRoutine(x) /\ SameTarget(x) /\ todo'[x] = todo[x]

LEMMA SameOK ==
  ASSUME NEW x \in Target, HelperOK(x), UNCHANGED setup, Same(x)
  PROVE  HelperOK(x)'
<1>1. op(x)' = op(x) /\ Up(x)' = Up(x) /\ Early' = Early /\ (~Stuck(x)' => ~Stuck(x))
  BY DEF op, Up, Early, Stuck, SameRoutine, Same, SamePod
<1>2. Settled(x) => Settled(x)'
  BY <1>1, InFlightOp DEF Settled, Same, SamePod, SameRoutine, SameTarget
<1> QED
  BY <1>1, <1>2 DEF HelperOK, PodOK, RoutineOK, AttemptsOK, ChaosOK, SettledOK, AnnotationOK,
       Same, SamePod, SameRoutine, SameTarget

\* The kinds of chaos there are.
LEMMA KindsOK == TypeOK => setup.kind \in Kinds
  BY DEF TypeOK, SetupType

\* The counts of the attempts.
LEMMA CountsOK ==
  ASSUME TypeOK, NEW x \in Target
  PROVE  attempts[x] \in Nat /\ misses[x] \in Nat /\ Attempts = 3
<1>1. attempts[x] \in 0 .. Attempts /\ misses[x] \in 0 .. Attempts
  BY DEF TypeOK
<1>2. Attempts = 3
  BY DEF Attempts
<1> QED
  BY <1>1, <1>2

\* The process ends: well or by the abort watcher only where there is no chaos.
LEMMA ExitOK ==
  ASSUME TypeOK, NEW x \in Target, HelperOK(x), UNCHANGED setup, Up(x),
         NEW how \in Exits \ {"none"}, Exit(x, how),
         annotation'[x] = annotation[x], chaos'[x] \in {chaos[x], "none"},
         ~Stuck(x) /\ how \in {"ok", "aborted"} => chaos[x] = "none", how = "ok" => op(x) = "end"
  PROVE  HelperOK(x)'
<1>1. /\ pod[x] = "running" /\ exit[x] = "none" /\ exit'[x] = how /\ how # "none"
      /\ todo'[x] = <<>> /\ routine'[x] = "none" /\ attempts'[x] = attempts[x] /\ misses'[x] = misses[x]
      /\ deleted'[x] = deleted[x]
      /\ pod'[x] = CASE setup.sidecar -> "running" [] how = "ok" -> "succeeded" [] OTHER -> "failed"
  BY DEF TypeOK, Exit, Up, Exits
<1>2. op(x)' = "end" /\ ~Up(x)' /\ "end" \notin Early' /\ (~Stuck(x)' => ~Stuck(x))
  BY <1>1 DEF op, Pos, Up, Early, Stuck, SameRoutine
<1>3. chaos'[x] = "none" => Settled(x)'
  BY <1>1, <1>2, InFlightOp DEF Settled
<1>4. PodOK(x)' /\ RoutineOK(x)'
  BY <1>1, <1>2, KindsOK DEF PodOK, RoutineOK, TypeOK, SetupType
<1>5. AttemptsOK(x)'
  BY <1>1, <1>2 DEF AttemptsOK, HelperOK
<1>6. ChaosOK(x)' /\ AnnotationOK(x)'
  BY <1>1, <1>2 DEF ChaosOK, AnnotationOK, HelperOK
<1>7. ~Stuck(x)' => SettledOK(x)'
  BY <1>1, <1>2, <1>3 DEF SettledOK, HelperOK, Settled, Attempts
<1>8. todo'[x] \in Suffixes(setup.kind)
  BY <1>1, KindsOK, ScriptOK
<1> QED
  BY <1>4, <1>5, <1>6, <1>7, <1>8 DEF HelperOK

\* Main goes on with the next operation of its script, and nothing else changes.  Main does not
\* pass the select once the signal has come.
LEMMA GoOK ==
  ASSUME TypeOK, NEW x \in Target, HelperOK(x), UNCHANGED setup, Up(x), todo[x] # <<>>,
         todo'[x] = Tail(todo[x]), SamePod(x), SameRoutine(x), SameTarget(x),
         \/ op(x) \in {"prepare", "size", "complete", "wait", "while", "strike", "verify", "join"}
         \/ op(x) = "select" /\ ~deleted[x]
  PROVE  HelperOK(x)'
<1> USE DEF SamePod, SameRoutine, SameTarget
<1>1. setup.kind \in Kinds /\ todo'[x] \in Suffixes(setup.kind) /\ (~Stuck(x)' => ~Stuck(x))
  BY KindsOK, Follow DEF Stuck, SameRoutine
<1>2. op(x)' = Pos(Tail(todo[x]))
  BY DEF op
<1>3. /\ op(x) = "prepare" => op(x)' = CASE setup.kind = "stress"        -> "start"
                                         [] setup.kind = "dns"           -> "spawn"
                                         [] setup.kind = "containerKill" -> "strike"
                                         [] OTHER                        -> "watch"
      /\ op(x) = "size" => setup.kind = "diskFill" /\ op(x)' = "select"
      /\ op(x) = "complete" => setup.kind \in {"network", "diskFill"} /\ op(x)' = "injected"
      /\ op(x) = "wait" => /\ setup.kind \in {"network", "diskFill", "dns"}
                           /\ op(x)' = IF setup.kind = "dns" THEN "kill" ELSE "revert"
      /\ op(x) \in {"while", "strike", "verify"} =>
           setup.kind = "containerKill" /\ op(x)' \in {"targeted", "verify", "while"}
      /\ op(x) = "join" => setup.kind = "stress" /\ op(x)' = "resume"
      /\ op(x) = "select" => /\ setup.kind \in {"network", "diskFill", "stress"}
                             /\ op(x)' = IF setup.kind = "stress" THEN "prepare" ELSE "inject"
  BY <1>1, <1>2, Follow DEF Kinds
<1>4. PodOK(x)'
  BY DEF HelperOK, PodOK, Up
<1>5. RoutineOK(x)'
  BY <1>1, <1>3 DEF HelperOK, RoutineOK, Kinds
<1>6. Settled(x) => Settled(x)'
  BY <1>1, <1>3, InFlightOp DEF Settled, Up, Early, Kinds
<1>7. AttemptsOK(x)'
  BY <1>1, <1>3 DEF HelperOK, AttemptsOK, RoutineOK, Attempts, Kinds, Up
<1>8. ChaosOK(x)' /\ AnnotationOK(x)'
  BY <1>1, <1>3 DEF HelperOK, PodOK, ChaosOK, AnnotationOK, Early, Kinds
<1>9. ~Stuck(x)' => SettledOK(x)'
  BY <1>1, <1>3, <1>6 DEF HelperOK, SettledOK
<1> QED
  BY <1>1, <1>4, <1>5, <1>7, <1>8, <1>9 DEF HelperOK

\* The operation that a step of main is about, and what going on with the next one means.
LEMMA AtOp ==
  ASSUME NEW x \in Target, NEW o, At(x, o)
  PROVE  Up(x) /\ exit[x] = "none" /\ todo[x] # <<>> /\ op(x) = o
  BY DEF At, Up, op, Pos

LEMMA GoEffect ==
  ASSUME TypeOK, NEW x \in Target, Go(x)
  PROVE  todo'[x] = Tail(todo[x]) /\ op(x)' = Pos(Tail(todo[x])) /\ SamePod(x) /\ SameRoutine(x)
  BY DEF TypeOK, Go, Advance, podVars, SamePod, SameRoutine, op

\* Steps of main that may fail and leave the target alone.
LEMMA MayFailOK ==
  ASSUME TypeOK, NEW x \in Target, HelperOK(x), UNCHANGED setup,
         NEW o \in {"prepare", "complete", "strike", "verify"}, MayFail(x, o)
  PROVE  HelperOK(x)'
<1>1. /\ Up(x) /\ todo[x] # <<>> /\ op(x) = o /\ UNCHANGED targetVars
      /\ Go(x) \/ Exit(x, "failed")
  BY AtOp DEF MayFail, GoOrFail
<1>2. CASE Go(x)
  BY <1>1, <1>2, GoEffect, GoOK DEF SameTarget, targetVars
<1>3. CASE Exit(x, "failed")
  BY <1>1, <1>3, ExitOK DEF targetVars, Exits
<1> QED
  BY <1>1, <1>2, <1>3

\* select { case <-inject: os.Exit(1) }
LEMMA SelectOK ==
  ASSUME TypeOK, NEW x \in Target, HelperOK(x), UNCHANGED setup, Select(x)
  PROVE  HelperOK(x)'
<1>1. Up(x) /\ todo[x] # <<>> /\ op(x) = "select" /\ UNCHANGED targetVars
  BY AtOp DEF Select
<1>2. CASE deleted[x]
  <2>1. Exit(x, "aborted")
    BY <1>2 DEF Select
  <2>2. op(x) \in Early
    BY <1>1, KindsOK, Follow DEF Early, Kinds
  <2> QED
    BY <1>1, <2>1, <2>2, ExitOK DEF targetVars, Exits, HelperOK, ChaosOK
<1>3. CASE ~deleted[x]
  BY <1>1, <1>3, GoEffect, GoOK DEF Select, SameTarget, targetVars
<1> QED
  BY <1>2, <1>3

\* The chaos duration of main.
LEMMA WaitOK ==
  ASSUME TypeOK, NEW x \in Target, HelperOK(x), UNCHANGED setup, Wait(x)
  PROVE  HelperOK(x)'
  BY AtOp, GoEffect, GoOK DEF Wait, SameTarget, targetVars

\* The abort watcher is launched: it waits, and main is before its select or has started the chaos.
LEMMA WatchOK ==
  ASSUME TypeOK, NEW x \in Target, HelperOK(x), UNCHANGED setup, Watch(x)
  PROVE  HelperOK(x)'
<1>1. /\ Up(x) /\ todo[x] # <<>> /\ op(x) = "watch"
      /\ todo'[x] = Tail(todo[x]) /\ op(x)' = Pos(Tail(todo[x])) /\ SamePod(x) /\ SameTarget(x)
      /\ routine'[x] = "waiting" /\ attempts'[x] = attempts[x] /\ misses'[x] = misses[x]
  BY AtOp DEF TypeOK, Watch, Advance, podVars, targetVars, SamePod, SameTarget, op
<1>2. /\ setup.kind \in {"network", "diskFill", "stress"} /\ (~Stuck(x)' => ~Stuck(x))
      /\ todo'[x] \in Suffixes(setup.kind)
      /\ op(x)' = CASE setup.kind = "network"  -> "select"
                    [] setup.kind = "diskFill" -> "size"
                    [] OTHER                   -> "join"
  BY <1>1, KindsOK, Follow DEF Stuck, SameRoutine, Kinds
<1>3. routine[x] = "none"
  BY <1>1 DEF HelperOK, RoutineOK
<1>4. PodOK(x)' /\ RoutineOK(x)'
  BY <1>1, <1>2, <1>3 DEF HelperOK, PodOK, RoutineOK, SamePod, SameTarget, Up
<1>5. AttemptsOK(x)' /\ ChaosOK(x)' /\ AnnotationOK(x)'
  BY <1>1, <1>2, <1>3 DEF HelperOK, AttemptsOK, ChaosOK, AnnotationOK, Early, SamePod, SameTarget
<1>6. Settled(x) => Settled(x)'
  BY <1>1, <1>2, <1>3, InFlightOp DEF Settled, Up, Early, SamePod, SameTarget
<1>7. ~Stuck(x)' => SettledOK(x)'
  BY <1>1, <1>2, <1>6 DEF HelperOK, SettledOK, SamePod, SameTarget
<1> QED
  BY <1>2, <1>4, <1>5, <1>7 DEF HelperOK

\* The chaos is injected: nobody has taken it for settled before.
LEMMA InjectOK ==
  ASSUME TypeOK, NEW x \in Target, HelperOK(x), UNCHANGED setup, Inject(x) \/ Start(x)
  PROVE  HelperOK(x)'
<1>1. Up(x) /\ todo[x] # <<>> /\ op(x) \in {"inject", "start"} /\ exit[x] = "none"
  BY AtOp DEF Inject, Start
<1>2. CASE Exit(x, "failed") /\ UNCHANGED targetVars
  BY <1>1, <1>2, ExitOK DEF targetVars, Exits
<1>3. CASE Go(x) /\ \E c \in {"paused", "injected"} : Put(x, c)
  <2>1. /\ todo'[x] = Tail(todo[x]) /\ op(x)' = Pos(Tail(todo[x])) /\ SamePod(x) /\ SameRoutine(x)
        /\ annotation'[x] = annotation[x]
    BY <1>3, GoEffect DEF Put
  <2>2. /\ setup.kind \in {"network", "diskFill", "stress"} /\ (~Stuck(x)' => ~Stuck(x))
        /\ todo'[x] \in Suffixes(setup.kind)
        /\ op(x)' = IF setup.kind = "stress" THEN "watch" ELSE "complete"
        /\ op(x) = IF setup.kind = "stress" THEN "start" ELSE "inject"
    BY <1>1, <2>1, KindsOK, Follow DEF Stuck, SameRoutine, Kinds
  <2>3. ~Settled(x)
    BY <1>1, <2>2, InFlightOp DEF Settled, Early
  <2>4. PodOK(x)' /\ RoutineOK(x)'
    BY <1>1, <2>1, <2>2 DEF HelperOK, PodOK, RoutineOK, SamePod, SameRoutine, Up
  <2>5. AttemptsOK(x)' /\ ChaosOK(x)' /\ AnnotationOK(x)'
    BY <1>1, <2>1, <2>2 DEF HelperOK, AttemptsOK, ChaosOK, AnnotationOK, Early, SamePod, SameRoutine
  <2>6. ~Stuck(x)' => SettledOK(x)'
    BY <1>1, <2>1, <2>2, <2>3 DEF HelperOK, SettledOK, SamePod, SameRoutine
  <2> QED
    BY <2>2, <2>4, <2>5, <2>6 DEF HelperOK
<1> QED
  BY <1>2, <1>3 DEF Inject, Start

\* The stressor joins the cgroup of the target.
LEMMA JoinOK ==
  ASSUME TypeOK, NEW x \in Target, HelperOK(x), UNCHANGED setup, Join(x)
  PROVE  HelperOK(x)'
<1>1. Up(x) /\ todo[x] # <<>> /\ op(x) = "join"
  BY AtOp DEF Join
<1>2. CASE Go(x) /\ UNCHANGED targetVars
  BY <1>1, <1>2, GoEffect, GoOK DEF SameTarget, targetVars
<1>3. CASE Put(x, "none") /\ Exit(x, "failed")
  BY <1>1, <1>3, ExitOK DEF Put, Exits, TypeOK
<1> QED
  BY <1>2, <1>3 DEF Join

\* SIGCONT: the stressor goes on, unless the abort watcher has killed it.
LEMMA ResumeOK ==
  ASSUME TypeOK, NEW x \in Target, HelperOK(x), UNCHANGED setup, Resume(x)
  PROVE  HelperOK(x)'
<1>1. Up(x) /\ todo[x] # <<>> /\ op(x) = "resume" /\ exit[x] = "none"
  BY AtOp DEF Resume
<1>2. CASE Exit(x, "failed") /\ UNCHANGED targetVars
  BY <1>1, <1>2, ExitOK DEF targetVars, Exits
<1>3. CASE Go(x) /\ annotation' = annotation /\ (chaos[x] = "none" => chaos'[x] = "none")
  <2>1. todo'[x] = Tail(todo[x]) /\ op(x)' = Pos(Tail(todo[x])) /\ SamePod(x) /\ SameRoutine(x)
    BY <1>3, GoEffect
  <2>2. /\ setup.kind = "stress" /\ (~Stuck(x)' => ~Stuck(x))
        /\ todo'[x] \in Suffixes(setup.kind) /\ op(x)' = "injected"
    BY <1>1, <2>1, KindsOK, Follow DEF Stuck, SameRoutine, Kinds
  <2>3. Settled(x) => Settled(x)'
    BY <1>1, <1>3, <2>1, <2>2, InFlightOp DEF Settled, Early, Up, SamePod, SameRoutine
  <2>4. PodOK(x)' /\ RoutineOK(x)'
    BY <1>1, <1>3, <2>1, <2>2 DEF HelperOK, PodOK, RoutineOK, SamePod, SameRoutine, Up
  <2>5. AttemptsOK(x)' /\ ChaosOK(x)' /\ AnnotationOK(x)'
    BY <1>1, <1>3, <2>1, <2>2 DEF HelperOK, AttemptsOK, ChaosOK, AnnotationOK, Early, SamePod, SameRoutine
  <2>6. ~Stuck(x)' => SettledOK(x)'
    BY <1>1, <1>3, <2>1, <2>2, <2>3 DEF HelperOK, SettledOK, SamePod, SameRoutine
  <2> QED
    BY <2>2, <2>4, <2>5, <2>6 DEF HelperOK
<1> QED
  BY <1>2, <1>3 DEF Resume, GoOrFail, Put, targetVars

\* The target is annotated with what main has just done: with "reverted" when it is settled.
LEMMA AnnotateOK ==
  ASSUME TypeOK, NEW x \in Target, HelperOK(x), UNCHANGED setup, Annotate(x)
  PROVE  HelperOK(x)'
<1>1. PICK a \in Annotations :
        /\ At(x, a)
        /\ \/ Go(x) /\ annotation' = [annotation EXCEPT ![x] = a]
           \/ Exit(x, "failed") /\ UNCHANGED annotation
        /\ UNCHANGED chaos
  BY DEF Annotate
<1>2. Up(x) /\ todo[x] # <<>> /\ op(x) = a /\ exit[x] = "none"
  BY <1>1, AtOp
<1>3. CASE Exit(x, "failed") /\ UNCHANGED annotation
  BY <1>1, <1>2, <1>3, ExitOK DEF Exits
<1>4. CASE Go(x) /\ annotation' = [annotation EXCEPT ![x] = a]
  <2>1. /\ todo'[x] = Tail(todo[x]) /\ op(x)' = Pos(Tail(todo[x])) /\ SamePod(x) /\ SameRoutine(x)
        /\ annotation'[x] = a /\ chaos'[x] = chaos[x]
    BY <1>1, <1>4, GoEffect DEF TypeOK
  <2>2. /\ setup.kind \in Kinds /\ (~Stuck(x)' => ~Stuck(x)) /\ todo'[x] \in Suffixes(setup.kind)
        /\ a = "injected" => op(x)' \in {"wait", "await"} /\ setup.kind # "containerKill"
        /\ a = "reverted" => op(x)' \in {"fail", "end"} /\ setup.kind # "containerKill"
        /\ a = "targeted" => op(x)' = "end" /\ setup.kind = "containerKill"
        /\ setup.kind = "dns" /\ a = "reverted" => op(x)' = "end"
    BY <1>2, <2>1, KindsOK, Follow DEF Stuck, SameRoutine, Kinds
  <2>3. op(x)' \in {"wait", "await", "fail", "end"} /\ op(x)' \notin Early'
    BY <2>2 DEF Annotations, Early, Kinds
  <2>4. setup.kind = "containerKill" => Settled(x)'
    BY <2>1, <2>3, InFlightOp DEF Settled, HelperOK, RoutineOK, ChaosOK, SameRoutine
  <2>5. Settled(x) => Settled(x)'
    BY <1>2, <2>1, <2>3, InFlightOp DEF Settled, Up, SamePod, SameRoutine
  <2>6. PodOK(x)' /\ RoutineOK(x)'
    BY <1>2, <2>1, <2>2, <2>3 DEF HelperOK, PodOK, RoutineOK, SamePod, SameRoutine, Up
  <2>7. AttemptsOK(x)'
    BY <1>2, <2>1, <2>2, <2>3 DEF HelperOK, AttemptsOK, Annotations, SameRoutine
  <2>9. ChaosOK(x)' /\ AnnotationOK(x)'
    BY <1>2, <2>1, <2>2, <2>3 DEF HelperOK, ChaosOK, AnnotationOK, Annotations, SamePod
  <2>8. ~Stuck(x)' => SettledOK(x)'
    BY <1>2, <2>1, <2>2, <2>3, <2>4, <2>5 DEF HelperOK, SettledOK, Annotations, SamePod, SameRoutine
  <2> QED
    BY <2>2, <2>6, <2>7, <2>8, <2>9 DEF HelperOK
<1> QED
  BY <1>1, <1>3, <1>4

\* Where chaos can be taken back, it is.
LEMMA RevertEffect ==
  ASSUME TypeOK, NEW x \in Target, ~Stuck(x), RevertChaos(x)
  PROVE  chaos'[x] = "none"
  BY DEF TypeOK, Stuck, SameRoutine, RevertChaos

\* A revert does not bring chaos.
LEMMA RevertKeeps ==
  ASSUME TypeOK, NEW x \in Target, RevertChaos(x)
  PROVE  chaos'[x] \in {chaos[x], "none"}
  BY DEF TypeOK, RevertChaos

\* killnetem, or the removal of the file: main has settled the target.
LEMMA RevertOK ==
  ASSUME TypeOK, NEW x \in Target, HelperOK(x), UNCHANGED setup, Revert(x)
  PROVE  HelperOK(x)'
<1>1. Up(x) /\ todo[x] # <<>> /\ op(x) = "revert" /\ exit[x] = "none" /\ annotation'[x] = annotation[x]
  BY AtOp DEF Revert
<1>2. CASE Exit(x, "failed") /\ UNCHANGED chaos
  BY <1>1, <1>2, ExitOK DEF Exits
<1>3. CASE RevertChaos(x) /\ Go(x)
  <2>1. /\ todo'[x] = Tail(todo[x]) /\ op(x)' = Pos(Tail(todo[x])) /\ SamePod(x) /\ SameRoutine(x)
        /\ chaos'[x] \in {chaos[x], "none"}
    BY <1>3, GoEffect, RevertKeeps
  <2>2. /\ setup.kind \in {"network", "diskFill"} /\ (~Stuck(x)' => ~Stuck(x))
        /\ todo'[x] \in Suffixes(setup.kind) /\ op(x)' = "reverted"
    BY <1>1, <2>1, KindsOK, Follow DEF Stuck, SameRoutine, Kinds
  <2>3. ~Stuck(x) => Settled(x)'
    BY <1>3, <2>1, <2>2, RevertEffect, InFlightOp DEF Settled, Early, HelperOK, RoutineOK, SameRoutine
  <2>4. PodOK(x)' /\ RoutineOK(x)'
    BY <1>1, <2>1, <2>2 DEF HelperOK, PodOK, RoutineOK, SamePod, SameRoutine, Up
  <2>5. AttemptsOK(x)' /\ ChaosOK(x)' /\ AnnotationOK(x)'
    BY <1>1, <2>1, <2>2 DEF HelperOK, AttemptsOK, ChaosOK, AnnotationOK, Early, SamePod, SameRoutine
  <2>6. ~Stuck(x)' => SettledOK(x)'
    BY <2>2, <2>3 DEF SettledOK
  <2> QED
    BY <2>2, <2>4, <2>5, <2>6 DEF HelperOK
<1> QED
  BY <1>2, <1>3 DEF Revert

\* Main goes on with another script, in a target without chaos.
LEMMA ContinueOK ==
  ASSUME TypeOK, NEW x \in Target, HelperOK(x), UNCHANGED setup, Up(x),
         NEW script, Continue(x, script), script \in Suffixes(setup.kind),
         chaos'[x] = "none", annotation'[x] = annotation[x],
         \/ setup.kind = "stress" /\ op(x) = "await" /\ Pos(script) = "reverted"
         \/ setup.kind = "diskFill" /\ op(x) = "size" /\ Pos(script) = "end"
         \/ setup.kind = "containerKill" /\ Pos(script) = "prepare"
  PROVE  HelperOK(x)'
<1>1. todo'[x] = script /\ SamePod(x) /\ SameRoutine(x) /\ op(x)' = Pos(script) /\ exit[x] = "none"
  BY DEF TypeOK, Continue, podVars, SamePod, SameRoutine, op, Up
<1>2. op(x)' \notin Early' /\ (~Stuck(x)' => ~Stuck(x))
  BY <1>1 DEF Early, Stuck, SameRoutine
<1>3. Settled(x)'
  BY <1>1, <1>2, InFlightOp DEF Settled, HelperOK, RoutineOK, SameRoutine
<1>4. PodOK(x)' /\ RoutineOK(x)'
  BY <1>1 DEF HelperOK, PodOK, RoutineOK, SamePod, SameRoutine, Up
<1>5. AttemptsOK(x)' /\ ChaosOK(x)'
  BY <1>1, <1>2 DEF HelperOK, AttemptsOK, ChaosOK, SamePod, SameRoutine
<1>7. AnnotationOK(x)'
  BY <1>1, <1>2 DEF HelperOK, AnnotationOK, Early, SamePod, SameRoutine
<1>6. SettledOK(x)'
  BY <1>3 DEF SettledOK
<1> QED
  BY <1>1, <1>4, <1>5, <1>6, <1>7 DEF HelperOK

\* The stressor has ended, or is killed by main.
LEMMA AwaitOK ==
  ASSUME TypeOK, NEW x \in Target, HelperOK(x), UNCHANGED setup, Await(x)
  PROVE  HelperOK(x)'
<1>1. Up(x) /\ todo[x] # <<>> /\ op(x) = "await"
  BY AtOp DEF Await
<1>2. setup.kind = "stress"
  BY <1>1, KindsOK, Follow DEF Kinds
<1>3. /\ <<"reverted", "fail">> \in Suffixes("stress") /\ Pos(<<"reverted", "fail">>) = "reverted"
      /\ <<"reverted">> \in Suffixes("stress") /\ Pos(<<"reverted">>) = "reverted"
  BY DEF Suffixes, Pos
<1>4. CASE Put(x, "none") /\ Continue(x, <<"reverted", "fail">>)
  <2>1. chaos'[x] = "none" /\ annotation'[x] = annotation[x]
    BY <1>4 DEF Put, TypeOK
  <2> QED
    BY <1>1, <1>2, <1>3, <1>4, <2>1, ContinueOK
<1>5. CASE chaos[x] = "none" /\ UNCHANGED targetVars /\ Continue(x, <<"reverted">>)
  BY <1>1, <1>2, <1>3, <1>5, ContinueOK DEF targetVars
<1>6. CASE UNCHANGED targetVars /\ Exit(x, "failed")
  BY <1>1, <1>6, ExitOK DEF targetVars, Exits
<1> QED
  BY <1>4, <1>5, <1>6 DEF Await

\* Main ends: with an error after the stressor had to be killed, or well.
LEMMA FailOK ==
  ASSUME TypeOK, NEW x \in Target, HelperOK(x), UNCHANGED setup, Fail(x)
  PROVE  HelperOK(x)'
<1>1. Up(x)
  BY AtOp DEF Fail
<1> QED
  BY <1>1, ExitOK DEF Fail, targetVars, Exits

LEMMA FinishOK ==
  ASSUME TypeOK, NEW x \in Target, HelperOK(x), UNCHANGED setup, Finish(x)
  PROVE  HelperOK(x)'
<1>1. Up(x) /\ exit[x] = "none" /\ op(x) = "end" /\ Exit(x, "ok") /\ UNCHANGED targetVars
  BY DEF Finish, Up, op, Pos
<1>2. ~Stuck(x) => chaos[x] = "none"
  BY <1>1 DEF HelperOK, SettledOK, Settled
<1> QED
  BY <1>1, <1>2, ExitOK DEF targetVars, Exits

\* disk-fill: there may be nothing to fill.
LEMMA SizeOK ==
  ASSUME TypeOK, NEW x \in Target, HelperOK(x), UNCHANGED setup, Size(x)
  PROVE  HelperOK(x)'
<1>1. Up(x) /\ todo[x] # <<>> /\ op(x) = "size" /\ UNCHANGED targetVars
  BY AtOp DEF Size
<1>2. setup.kind = "diskFill" /\ op(x) \in Early
  BY <1>1, KindsOK, Follow DEF Kinds, Early
<1>3. CASE Go(x)
  BY <1>1, <1>3, GoEffect, GoOK DEF SameTarget, targetVars
<1>4. CASE Continue(x, <<>>)
  <2>1. <<>> \in Suffixes(setup.kind) /\ Pos(<<>>) = "end"
    BY KindsOK, ScriptOK DEF Pos
  <2>2. chaos'[x] = "none" /\ annotation'[x] = annotation[x]
    BY <1>1, <1>2 DEF HelperOK, ChaosOK, targetVars
  <2> QED
    BY <1>1, <1>2, <1>4, <2>1, <2>2, ContinueOK
<1> QED
  BY <1>3, <1>4 DEF Size

\* container-kill: the loop goes round.
LEMMA WhileOK ==
  ASSUME TypeOK, NEW x \in Target, HelperOK(x), UNCHANGED setup, While(x)
  PROVE  HelperOK(x)'
<1>1. Up(x) /\ todo[x] # <<>> /\ op(x) = "while" /\ UNCHANGED targetVars
  BY AtOp DEF While
<1> DEFINE next == <<"prepare", "strike", "verify">> \o todo[x]
<1>2. setup.kind = "containerKill" /\ next \in Suffixes(setup.kind) /\ Pos(next) = "prepare"
  BY <1>1, KindsOK, Follow DEF Kinds
<1>3. CASE Go(x)
  BY <1>1, <1>3, GoEffect, GoOK DEF SameTarget, targetVars
<1>4. CASE Continue(x, next)
  <2>1. chaos'[x] = "none" /\ annotation'[x] = annotation[x]
    BY <1>1, <1>2 DEF HelperOK, ChaosOK, targetVars
  <2> HIDE DEF next
  <2> QED
    BY <1>1, <1>2, <1>4, <2>1, ContinueOK
<1> QED
  BY <1>3, <1>4 DEF While

\* dns chaos: the goroutine that injects is launched.
LEMMA SpawnOK ==
  ASSUME TypeOK, NEW x \in Target, HelperOK(x), UNCHANGED setup, Spawn(x)
  PROVE  HelperOK(x)'
<1>1. /\ Up(x) /\ todo[x] # <<>> /\ op(x) = "spawn"
      /\ todo'[x] = Tail(todo[x]) /\ op(x)' = Pos(Tail(todo[x])) /\ SamePod(x) /\ SameTarget(x)
      /\ routine'[x] = "select" /\ attempts'[x] = attempts[x] /\ misses'[x] = misses[x]
  BY AtOp DEF TypeOK, Spawn, Advance, podVars, targetVars, SamePod, SameTarget, op
<1>2. /\ setup.kind = "dns" /\ (~Stuck(x)' => ~Stuck(x)) /\ todo'[x] \in Suffixes(setup.kind)
      /\ op(x)' = "injected" /\ ~Settled(x)
  BY <1>1, KindsOK, Follow DEF Stuck, SameRoutine, Kinds, Settled, Early
<1>3. PodOK(x)' /\ RoutineOK(x)'
  BY <1>1, <1>2 DEF HelperOK, PodOK, RoutineOK, SamePod, SameTarget, Up
<1>4. AttemptsOK(x)' /\ ChaosOK(x)' /\ AnnotationOK(x)'
  BY <1>1, <1>2 DEF HelperOK, AttemptsOK, ChaosOK, AnnotationOK, Early, SamePod, SameTarget
<1>5. ~Stuck(x)' => SettledOK(x)'
  BY <1>1, <1>2 DEF HelperOK, SettledOK, SamePod, SameTarget
<1> QED
  BY <1>2, <1>3, <1>4, <1>5 DEF HelperOK

\* An attempt to revert that has no effect comes before all is settled; if it does not leave
\* the chaos stuck, it is not the last.
LEMMA MissEffect ==
  ASSUME TypeOK, NEW x \in Target, HelperOK(x), UNCHANGED setup, Miss(x), attempts[x] > 0
  PROVE  /\ misses'[x] = misses[x] + 1 /\ chaos'[x] = chaos[x] /\ ~Settled(x)
         /\ ~Stuck(x)' => ~Stuck(x) /\ misses[x] + attempts[x] = Attempts /\ attempts[x] > 1
<1>1. misses[x] \in Nat /\ attempts[x] \in Nat /\ misses[x] + attempts[x] <= Attempts
  BY CountsOK DEF HelperOK, AttemptsOK
<1>2. misses'[x] = misses[x] + 1 /\ chaos'[x] = chaos[x]
  BY DEF Miss, TypeOK
<1>3. ~Settled(x)
  BY DEF Miss, Settled
<1>4. ASSUME ~Stuck(x)'
      PROVE  ~Stuck(x) /\ misses[x] + 1 # 3
  BY <1>1, <1>2, <1>4 DEF Stuck, Attempts
<1>5. ~Stuck(x) => ~(misses[x] + attempts[x] < Attempts)
  BY <1>3 DEF HelperOK, SettledOK
<1> QED
  BY <1>1, <1>2, <1>3, <1>4, <1>5 DEF Attempts

\* dns chaos: main settles the target by its first attempt that is not a miss.
LEMMA KillInterceptorOK ==
  ASSUME TypeOK, NEW x \in Target, HelperOK(x), UNCHANGED setup, KillInterceptor(x)
  PROVE  HelperOK(x)'
<1>1. /\ Up(x) /\ exit[x] = "none" /\ todo[x] # <<>> /\ op(x) = "kill"
      /\ routine'[x] = routine[x] /\ annotation'[x] = annotation[x]
  BY AtOp DEF KillInterceptor
<1>2. /\ setup.kind = "dns" /\ todo[x] \in Suffixes(setup.kind)
      /\ Tail(todo[x]) \in Suffixes(setup.kind) /\ Pos(Tail(todo[x])) = "reverted"
  BY <1>1, KindsOK, Follow DEF Stuck, SameRoutine, Kinds, HelperOK
<1>3. /\ attempts[x] \in Nat /\ attempts[x] > 0 /\ misses[x] \in Nat
      /\ misses[x] + attempts[x] <= Attempts /\ Attempts = 3
  BY <1>1, CountsOK DEF HelperOK, AttemptsOK
<1>4. CASE /\ routine[x] = "running"
           /\ RevertChaos(x) /\ Advance(x)
           /\ UNCHANGED <<attempts, misses>>
  <2>1. /\ todo'[x] = Tail(todo[x]) /\ op(x)' = "reverted" /\ SamePod(x) /\ SameRoutine(x)
        /\ chaos'[x] \in {chaos[x], "none"}
    BY <1>1, <1>2, <1>4, RevertKeeps DEF Advance, podVars, SamePod, SameRoutine, op, TypeOK
  <2>2. ~Stuck(x) => Settled(x)'
    BY <1>2, <1>4, <2>1, RevertEffect, InFlightOp DEF Settled, Early, SameRoutine
  <2>3. PodOK(x)' /\ RoutineOK(x)'
    BY <1>1, <1>2, <2>1 DEF HelperOK, PodOK, RoutineOK, SamePod, SameRoutine, Up
  <2>4. AttemptsOK(x)' /\ ChaosOK(x)' /\ AnnotationOK(x)'
    BY <1>1, <1>2, <2>1 DEF HelperOK, AttemptsOK, ChaosOK, AnnotationOK, Early, SamePod, SameRoutine
  <2> QED
    BY <1>2, <2>1, <2>2, <2>3, <2>4 DEF HelperOK, SettledOK, Stuck, SameRoutine
<1>5. CASE /\ \/ Miss(x)
              \/ ~InFlight(x) /\ chaos[x] = "none" /\ UNCHANGED <<chaos, misses>>
           /\ attempts' = [attempts EXCEPT ![x] = @ - 1]
           /\ IF attempts[x] = 1 THEN Advance(x) ELSE UNCHANGED <<podVars, todo>>
  <2>1. /\ SamePod(x) /\ attempts'[x] = attempts[x] - 1 /\ chaos'[x] = chaos[x]
        /\ IF attempts[x] = 1 THEN todo'[x] = Tail(todo[x]) ELSE todo'[x] = todo[x]
        /\ op(x)' = IF attempts[x] = 1 THEN "reverted" ELSE "kill"
    <3>1. chaos'[x] = chaos[x]
      BY <1>3, <1>5, MissEffect
    <3> QED
      BY <1>1, <1>2, <1>3, <1>5, <3>1 DEF Advance, podVars, SamePod, op, TypeOK
  <2>2. /\ misses'[x] + attempts'[x] <= Attempts
        /\ Miss(x) => misses'[x] + attempts'[x] = misses[x] + attempts[x] /\ ~Settled(x)
        /\ Miss(x) /\ ~Stuck(x)' => ~Stuck(x) /\ attempts[x] > 1 /\ misses[x] + attempts[x] = Attempts
    BY <1>3, <1>5, <2>1, MissEffect
  <2>3. ~Miss(x) => Settled(x)'
    BY <1>1, <1>2, <1>5, <2>1, InFlightOp DEF Settled, Early, SamePod, Up
  <2>4. PodOK(x)' /\ RoutineOK(x)'
    BY <1>1, <1>2, <2>1 DEF HelperOK, PodOK, RoutineOK, SamePod, Up
  <2>5. AttemptsOK(x)'
    BY <1>1, <1>2, <1>3, <2>1, <2>2 DEF HelperOK, AttemptsOK, RoutineOK
  <2>6. ChaosOK(x)' /\ AnnotationOK(x)'
    BY <1>1, <1>2, <2>1 DEF HelperOK, ChaosOK, AnnotationOK, Early, SamePod
  <2>7. CASE Miss(x)
    <3>1. ~Stuck(x)' => op(x)' = "kill" /\ ~(misses'[x] + attempts'[x] < Attempts)
      BY <1>2, <1>3, <2>1, <2>2, <2>7
    <3> QED
      BY <1>1, <1>2, <2>1, <2>2, <2>4, <2>5, <2>6, <2>7, <3>1 DEF HelperOK, SettledOK, SamePod
  <2>8. CASE ~Miss(x)
    BY <1>2, <2>1, <2>3, <2>4, <2>5, <2>6, <2>8 DEF HelperOK, SettledOK
  <2> QED
    BY <2>7, <2>8
<1> QED
  BY <1>4, <1>5 DEF KillInterceptor

\* The abort watcher has had the signal.
LEMMA ReceiveOK ==
  ASSUME TypeOK, NEW x \in Target, HelperOK(x), UNCHANGED setup, Receive(x)
  PROVE  HelperOK(x)'
<1>1. /\ Up(x) /\ exit[x] = "none" /\ deleted[x] /\ routine[x] = "waiting" /\ SamePod(x) /\ SameTarget(x)
      /\ routine'[x] = "reverting" /\ attempts'[x] = attempts[x] /\ misses'[x] = misses[x]
      /\ todo'[x] = todo[x] /\ op(x)' = op(x)
  BY DEF Receive, Routine, TypeOK, podVars, targetVars, SamePod, SameTarget, Up, op
<1>2. setup.kind \notin {"dns", "containerKill"} /\ (~Stuck(x)' => ~Stuck(x)) /\ Early' = Early
  BY <1>1 DEF HelperOK, RoutineOK, Stuck, SameRoutine, Early
<1>3. attempts[x] = Attempts
  BY <1>1, <1>2 DEF HelperOK, AttemptsOK
<1>4. Settled(x) => Settled(x)'
  BY <1>1, <1>2, InFlightOp DEF Settled, Up, SamePod, SameTarget
<1>5. PodOK(x)' /\ RoutineOK(x)'
  BY <1>1, <1>2 DEF HelperOK, PodOK, RoutineOK, SamePod, SameTarget, Up
<1>6. AttemptsOK(x)'
  BY <1>1, <1>2, <1>3 DEF HelperOK, AttemptsOK, Attempts
<1>7. ChaosOK(x)' /\ AnnotationOK(x)'
  BY <1>1, <1>2 DEF HelperOK, ChaosOK, AnnotationOK, SamePod, SameTarget
<1>8. ~Stuck(x)' => SettledOK(x)'
  BY <1>1, <1>2, <1>4 DEF HelperOK, SettledOK, SamePod, SameTarget
<1> QED
  BY <1>1, <1>5, <1>6, <1>7, <1>8 DEF HelperOK

\* The abort watcher tries to revert: it settles the target by its first attempt that is
\* not a miss, for main is stopped at its select or has passed the injection.
LEMMA AttemptOK ==
  ASSUME TypeOK, NEW x \in Target, HelperOK(x), UNCHANGED setup, Attempt(x)
  PROVE  HelperOK(x)'
<1>1. /\ Up(x) /\ exit[x] = "none" /\ routine[x] = "reverting" /\ SamePod(x)
      /\ annotation'[x] = annotation[x] /\ attempts'[x] = attempts[x] - 1
      /\ routine'[x] = IF attempts[x] = 1 THEN "annotating" ELSE "reverting"
      /\ todo'[x] = todo[x] /\ op(x)' = op(x)
  BY DEF Attempt, Routine, TypeOK, podVars, SamePod, Up, op
<1>2. setup.kind \notin {"dns", "containerKill"} /\ Early' = Early /\ deleted[x]
  BY <1>1 DEF HelperOK, RoutineOK, Early
<1>3. /\ attempts[x] \in Nat /\ attempts[x] > 0 /\ misses[x] \in Nat
      /\ misses[x] + attempts[x] <= Attempts /\ Attempts = 3
  BY <1>1, CountsOK DEF HelperOK, AttemptsOK
<1>4. PodOK(x)' /\ RoutineOK(x)'
  BY <1>1, <1>2 DEF HelperOK, PodOK, RoutineOK, SamePod, Up
<1>5. AnnotationOK(x)'
  BY <1>1, <1>2 DEF HelperOK, AnnotationOK, SamePod
<1>8. op(x) # "kill"
  BY <1>2, KindsOK, Follow DEF op, Pos, Kinds
<1>6. CASE Miss(x)
  <2>1. /\ chaos'[x] = chaos[x] /\ misses'[x] + attempts'[x] = misses[x] + attempts[x] /\ ~Settled(x)
        /\ ~Stuck(x)' => ~Stuck(x) /\ attempts[x] > 1 /\ misses[x] + attempts[x] = Attempts
    BY <1>1, <1>3, <1>6, MissEffect
  <2>2. AttemptsOK(x)'
    BY <1>1, <1>2, <1>3, <1>8, <2>1 DEF HelperOK, AttemptsOK
  <2>3. ChaosOK(x)'
    BY <1>1, <1>2, <2>1 DEF HelperOK, ChaosOK
  <2>4. ~Stuck(x)' => routine'[x] = "reverting" /\ ~(misses'[x] + attempts'[x] < Attempts)
    BY <1>1, <1>2, <1>3, <2>1
  <2>5. ~Stuck(x)' => SettledOK(x)'
    BY <1>1, <1>2, <2>1, <2>4 DEF HelperOK, SettledOK, SamePod
  <2> QED
    BY <1>1, <1>4, <1>5, <2>2, <2>3, <2>5 DEF HelperOK
<1>7. CASE ~InFlight(x) /\ RevertChaos(x) /\ UNCHANGED misses
  <2>1. chaos'[x] \in {chaos[x], "none"} /\ misses'[x] + attempts'[x] = misses[x] + attempts[x] - 1
    BY <1>1, <1>3, <1>7, RevertKeeps
  <2>2. AttemptsOK(x)'
    BY <1>1, <1>2, <1>3, <1>8, <2>1 DEF HelperOK, AttemptsOK
  <2>3. ChaosOK(x)'
    BY <1>1, <1>2, <2>1 DEF HelperOK, ChaosOK
  <2>4. op(x) \in Early => setup.kind # "stress" /\ op(x) \in {"size", "select"}
    BY <1>1, <1>2, <1>7, InFlightOp DEF HelperOK, RoutineOK, Early
  <2>5. ~Stuck(x) => Settled(x)'
    BY <1>1, <1>2, <1>7, <2>4, RevertEffect, InFlightOp DEF Settled, Up, SamePod
  <2>6. ~Stuck(x)' => SettledOK(x)'
    BY <1>2, <1>7, <2>5 DEF SettledOK, Stuck
  <2> QED
    BY <1>1, <1>4, <1>5, <2>2, <2>3, <2>6 DEF HelperOK
<1> QED
  BY <1>6, <1>7 DEF Attempt

\* The abort watcher annotates the target, or fails to, and exits.
LEMMA AnnotateRevertedOK ==
  ASSUME TypeOK, NEW x \in Target, HelperOK(x), UNCHANGED setup, AnnotateReverted(x)
  PROVE  HelperOK(x)'
<1>1. /\ Up(x) /\ exit[x] = "none" /\ routine[x] = "annotating" /\ SamePod(x) /\ chaos'[x] = chaos[x]
      /\ annotation'[x] \in {annotation[x], "reverted"} /\ routine'[x] = "exiting"
      /\ attempts'[x] = attempts[x] /\ misses'[x] = misses[x]
      /\ todo'[x] = todo[x] /\ op(x)' = op(x)
  BY DEF AnnotateReverted, Routine, TypeOK, podVars, SamePod, Up, op
<1>2. /\ setup.kind \notin {"dns", "containerKill"} /\ (~Stuck(x)' => ~Stuck(x)) /\ Early' = Early
      /\ deleted[x]
  BY <1>1 DEF HelperOK, RoutineOK, Stuck, SameRoutine, Early
<1>3. Settled(x) => Settled(x)'
  BY <1>1, <1>2, InFlightOp DEF Settled, Up, SamePod
<1>4. PodOK(x)' /\ RoutineOK(x)'
  BY <1>1, <1>2 DEF HelperOK, PodOK, RoutineOK, SamePod, Up
<1>5. AttemptsOK(x)' /\ ChaosOK(x)' /\ AnnotationOK(x)'
  BY <1>1, <1>2 DEF HelperOK, AttemptsOK, ChaosOK, AnnotationOK, SamePod
<1>6. ~Stuck(x)' => SettledOK(x)'
  BY <1>1, <1>2, <1>3 DEF HelperOK, SettledOK
<1> QED
  BY <1>1, <1>4, <1>5, <1>6 DEF HelperOK

LEMMA ExitAbortedOK ==
  ASSUME TypeOK, NEW x \in Target, HelperOK(x), UNCHANGED setup, ExitAborted(x)
  PROVE  HelperOK(x)'
<1>1. Up(x) /\ routine[x] = "exiting" /\ Exit(x, "aborted") /\ UNCHANGED targetVars
  BY DEF ExitAborted
<1>2. ~Stuck(x) => chaos[x] = "none"
  BY <1>1 DEF HelperOK, SettledOK, Settled
<1> QED
  BY <1>1, <1>2, ExitOK DEF targetVars, Exits

\* The injector of dns chaos finds the signal, or goes on to start the interceptor.
LEMMA SelectInjectorOK ==
  ASSUME TypeOK, NEW x \in Target, HelperOK(x), UNCHANGED setup, SelectInjector(x)
  PROVE  HelperOK(x)'
<1>1. /\ Up(x) /\ exit[x] = "none" /\ routine[x] = "select" /\ SamePod(x) /\ SameTarget(x)
      /\ routine'[x] = IF deleted[x] THEN "none" ELSE "starting"
      /\ attempts'[x] = attempts[x] /\ misses'[x] = misses[x]
      /\ todo'[x] = todo[x] /\ op(x)' = op(x)
  BY DEF SelectInjector, Routine, TypeOK, podVars, targetVars, SamePod, SameTarget, Up, op
<1>2. setup.kind = "dns" /\ (~Stuck(x)' => ~Stuck(x)) /\ Early' = Early
  BY <1>1 DEF HelperOK, RoutineOK, Stuck, SameRoutine, Early
<1>3. Settled(x) => Settled(x)'
  BY <1>1, <1>2, InFlightOp DEF Settled, Up, SamePod, SameTarget
<1>4. PodOK(x)' /\ RoutineOK(x)'
  BY <1>1, <1>2 DEF HelperOK, PodOK, RoutineOK, SamePod, SameTarget, Up
<1>5. AttemptsOK(x)' /\ ChaosOK(x)' /\ AnnotationOK(x)'
  BY <1>1, <1>2 DEF HelperOK, AttemptsOK, ChaosOK, AnnotationOK, SamePod, SameTarget
<1>6. ~Stuck(x)' => SettledOK(x)'
  BY <1>1, <1>2, <1>3 DEF HelperOK, SettledOK, SamePod, SameTarget
<1> QED
  BY <1>1, <1>4, <1>5, <1>6 DEF HelperOK

\* The interceptor starts: nobody has taken the target for settled before.
LEMMA StartInterceptorOK ==
  ASSUME TypeOK, NEW x \in Target, HelperOK(x), UNCHANGED setup, StartInterceptor(x)
  PROVE  HelperOK(x)'
<1>1. Up(x) /\ exit[x] = "none" /\ routine[x] = "starting"
  BY DEF StartInterceptor, Up
<1>2. CASE Exit(x, "failed") /\ UNCHANGED targetVars
  BY <1>1, <1>2, ExitOK DEF targetVars, Exits
<1>3. CASE Put(x, "injected") /\ Routine(x, "running") /\ UNCHANGED <<attempts, misses>>
  <2>1. /\ SamePod(x) /\ annotation'[x] = annotation[x] /\ routine'[x] = "running"
        /\ attempts'[x] = attempts[x] /\ misses'[x] = misses[x]
        /\ todo'[x] = todo[x] /\ op(x)' = op(x)
    BY <1>3 DEF Put, Routine, TypeOK, podVars, SamePod, op
  <2>2. setup.kind = "dns" /\ (~Stuck(x)' => ~Stuck(x)) /\ Early' = Early /\ ~Settled(x)
    BY <1>1, <2>1, InFlightOp DEF HelperOK, RoutineOK, Stuck, SameRoutine, Early, Settled
  <2>3. op(x) \notin Early
    BY <1>1, <2>2 DEF HelperOK, RoutineOK, Early
  <2>4. PodOK(x)' /\ RoutineOK(x)'
    BY <1>1, <2>1, <2>2 DEF HelperOK, PodOK, RoutineOK, SamePod, Up
  <2>5. AttemptsOK(x)' /\ ChaosOK(x)' /\ AnnotationOK(x)'
    BY <1>1, <2>1, <2>2, <2>3 DEF HelperOK, AttemptsOK, ChaosOK, AnnotationOK, SamePod
  <2>6. ~Stuck(x)' => SettledOK(x)'
    BY <1>1, <2>1, <2>2 DEF HelperOK, SettledOK, SamePod
  <2> QED
    BY <2>1, <2>4, <2>5, <2>6 DEF HelperOK
<1> QED
  BY <1>2, <1>3 DEF StartInterceptor

\* The interceptor has ended, and its goroutine with it.
LEMMA InterceptorEndedOK ==
  ASSUME TypeOK, NEW x \in Target, HelperOK(x), UNCHANGED setup, InterceptorEnded(x)
  PROVE  HelperOK(x)'
<1>1. Up(x) /\ exit[x] = "none" /\ routine[x] = "running" /\ SameTarget(x)
  BY DEF InterceptorEnded, Up, targetVars, SameTarget
<1>2. CASE Exit(x, "failed")
  BY <1>1, <1>2, ExitOK DEF SameTarget, Exits
<1>3. CASE Routine(x, "none") /\ UNCHANGED <<attempts, misses>>
  <2>1. /\ SamePod(x) /\ routine'[x] = "none" /\ attempts'[x] = attempts[x] /\ misses'[x] = misses[x]
        /\ todo'[x] = todo[x] /\ op(x)' = op(x)
    BY <1>3 DEF Routine, TypeOK, podVars, SamePod, op
  <2>2. setup.kind = "dns" /\ (~Stuck(x)' => ~Stuck(x)) /\ Early' = Early
    BY <1>1, <2>1 DEF HelperOK, RoutineOK, Stuck, SameRoutine, Early
  <2>3. Settled(x) => Settled(x)'
    BY <1>1, <2>1, <2>2, InFlightOp DEF Settled, Up, SamePod, SameTarget
  <2>4. PodOK(x)' /\ RoutineOK(x)'
    BY <1>1, <2>1, <2>2 DEF HelperOK, PodOK, RoutineOK, SamePod, SameTarget, Up
  <2>5. AttemptsOK(x)' /\ ChaosOK(x)' /\ AnnotationOK(x)'
    BY <1>1, <2>1, <2>2 DEF HelperOK, AttemptsOK, ChaosOK, AnnotationOK, SamePod, SameTarget
  <2>6. ~Stuck(x)' => SettledOK(x)'
    BY <1>1, <2>1, <2>2, <2>3 DEF HelperOK, SettledOK, SamePod, SameTarget
  <2> QED
    BY <2>1, <2>4, <2>5, <2>6 DEF HelperOK
<1> QED
  BY <1>2, <1>3 DEF InterceptorEnded

\* The helper starts, and main has its script before it, or nothing to do.
LEMMA PodStartsOK ==
  ASSUME TypeOK, NEW x \in Target, HelperOK(x), UNCHANGED setup, PodStarts(x)
  PROVE  HelperOK(x)'
<1>1. PICK script \in {Script(setup.kind), <<>>} : todo' = [todo EXCEPT ![x] = script]
  BY DEF PodStarts
<1>2. /\ pod[x] = "pending" /\ ~deleted[x] /\ pod'[x] = "running" /\ deleted'[x] = deleted[x]
      /\ exit'[x] = exit[x] /\ SameRoutine(x) /\ SameTarget(x)
      /\ todo'[x] = script /\ op(x)' = Pos(script)
  BY <1>1 DEF PodStarts, TypeOK, targetVars, SameRoutine, SameTarget, op
<1>3. /\ exit[x] = "none" /\ chaos[x] = "none" /\ annotation[x] = "none" /\ attempts[x] = Attempts
      /\ routine[x] = "none"
  BY <1>2 DEF HelperOK, PodOK, Up
<1>4. misses[x] + attempts[x] = Attempts
  <2>1. misses[x] \in Nat
    BY DEF TypeOK
  <2> QED
    BY <1>3, <2>1 DEF HelperOK, AttemptsOK, Attempts
<1>5. /\ setup.kind \in Kinds /\ (~Stuck(x)' => ~Stuck(x)) /\ script \in Suffixes(setup.kind)
      /\ op(x)' \in {"end", "prepare", "select", "while"}
  BY <1>1, <1>2, KindsOK, ScriptOK DEF Stuck, SameRoutine, Pos, Kinds
<1>6. op(x)' = "end" => Settled(x)'
  BY <1>2, <1>3, InFlightOp DEF Settled, Early, SameRoutine, SameTarget
<1>7. PodOK(x)' /\ RoutineOK(x)'
  BY <1>2, <1>3 DEF HelperOK, PodOK, RoutineOK, SameRoutine, SameTarget, Up
<1>8. AttemptsOK(x)' /\ ChaosOK(x)' /\ AnnotationOK(x)'
  BY <1>2, <1>3, <1>5 DEF HelperOK, AttemptsOK, ChaosOK, AnnotationOK, SameRoutine, SameTarget
<1>9. ~Stuck(x)' => SettledOK(x)'
  <2>1. ~(misses'[x] + attempts'[x] < Attempts)
    BY <1>2, <1>4 DEF SameRoutine, Attempts
  <2> QED
    BY <1>2, <1>3, <1>5, <1>6, <2>1 DEF SettledOK, SameRoutine, SameTarget
<1> QED
  BY <1>2, <1>5, <1>7, <1>8, <1>9 DEF HelperOK

\* The timeout of the chaos itself.
LEMMA ChaosExpiresOK ==
  ASSUME TypeOK, NEW x \in Target, HelperOK(x), UNCHANGED setup, ChaosExpires(x)
  PROVE  HelperOK(x)'
<1>1. /\ chaos[x] = "injected" /\ chaos'[x] = "none" /\ annotation'[x] = annotation[x]
      /\ SamePod(x) /\ SameRoutine(x) /\ todo'[x] = todo[x] /\ op(x)' = op(x)
  BY DEF ChaosExpires, Put, TypeOK, podVars, helperVars, SamePod, SameRoutine, op
<1>2. (~Stuck(x)' => ~Stuck(x)) /\ Early' = Early /\ ~Settled(x)
  BY <1>1 DEF Stuck, SameRoutine, Early, Settled
<1>3. PodOK(x)' /\ RoutineOK(x)'
  BY <1>1 DEF HelperOK, PodOK, RoutineOK, SamePod, SameRoutine, Up
<1>4. AttemptsOK(x)' /\ ChaosOK(x)' /\ AnnotationOK(x)'
  BY <1>1, <1>2 DEF HelperOK, AttemptsOK, ChaosOK, AnnotationOK, SamePod, SameRoutine
<1>5. ~Stuck(x)' => SettledOK(x)'
  BY <1>1, <1>2 DEF HelperOK, SettledOK, SamePod, SameRoutine
<1> QED
  BY <1>1, <1>3, <1>4, <1>5 DEF HelperOK

\* The kubelet kills the helper.
LEMMA SigKillOK ==
  ASSUME TypeOK, NEW x \in Target, HelperOK(x), UNCHANGED setup, SigKill(x)
  PROVE  HelperOK(x)'
  BY ExitOK DEF SigKill, targetVars, Exits

\* The pod is created, deleted or gone, and the process does not notice.
LEMMA QuietOK ==
  ASSUME TypeOK, NEW x \in Target, HelperOK(x), UNCHANGED <<setup, exit, helperVars, targetVars>>,
         deleted[x] => deleted'[x], Up(x)' <=> Up(x),
         pod'[x] \in {"none", "pending"} => pod[x] \in {"none", "pending"},
         pod'[x] = "none" => ~deleted'[x], pod'[x] = "gone" => deleted'[x],
         pod'[x] \in {"running", "succeeded", "failed"} => pod'[x] = pod[x]
  PROVE  HelperOK(x)'
<1>1. /\ exit'[x] = exit[x] /\ SameRoutine(x) /\ SameTarget(x)
      /\ todo'[x] = todo[x] /\ op(x)' = op(x)
      /\ (~Stuck(x)' => ~Stuck(x)) /\ Early' = Early
  BY DEF helperVars, targetVars, SameRoutine, SameTarget, op, Stuck, Early
<1>2. Settled(x) => Settled(x)'
  BY <1>1, InFlightOp DEF Settled, SameRoutine, SameTarget
<1>3. PodOK(x)'
  BY <1>1 DEF HelperOK, PodOK, SameRoutine, SameTarget
<1>4. RoutineOK(x)' /\ AttemptsOK(x)' /\ ChaosOK(x)' /\ AnnotationOK(x)'
  BY <1>1 DEF HelperOK, RoutineOK, AttemptsOK, ChaosOK, AnnotationOK, SameRoutine, SameTarget
<1>5. ~Stuck(x)' => SettledOK(x)'
  BY <1>1, <1>2 DEF HelperOK, SettledOK, SameRoutine, SameTarget
<1> QED
  BY <1>1, <1>3, <1>4, <1>5 DEF HelperOK

LEMMA PodGoneOK ==
  ASSUME TypeOK, NEW x \in Target, HelperOK(x), UNCHANGED setup, PodGone(x)
  PROVE  HelperOK(x)'
<1>1. pod'[x] = "gone" /\ deleted'[x] /\ exit'[x] = exit[x]
  BY DEF PodGone, TypeOK
<1>2. ~Up(x) /\ ~Up(x)'
  BY <1>1 DEF PodGone, Up
<1> QED
  BY <1>1, <1>2, QuietOK DEF PodGone

\* Every step of a helper keeps what holds of it.
LEMMA HelperStepOK ==
  ASSUME TypeOK, NEW x \in Target, HelperOK(x), UNCHANGED setup, Helper(x)
  PROVE  HelperOK(x)'
<1>1. CASE Prepare(x) \/ Complete(x) \/ Strike(x) \/ Verify(x)
  BY <1>1, MayFailOK DEF Prepare, Complete, Strike, Verify
<1>2. CASE Watch(x) \/ Select(x) \/ Inject(x) \/ Start(x) \/ Annotate(x) \/ Wait(x) \/ Revert(x)
  BY <1>2, WatchOK, SelectOK, InjectOK, AnnotateOK, WaitOK, RevertOK
<1>3. CASE Finish(x) \/ Join(x) \/ Resume(x) \/ Await(x) \/ Fail(x) \/ Size(x) \/ While(x)
  BY <1>3, FinishOK, JoinOK, ResumeOK, AwaitOK, FailOK, SizeOK, WhileOK
<1>4. CASE Spawn(x) \/ KillInterceptor(x)
  BY <1>4, SpawnOK, KillInterceptorOK
<1>5. CASE AbortWatcher(x)
  BY <1>5, ReceiveOK, AttemptOK, AnnotateRevertedOK, ExitAbortedOK DEF AbortWatcher
<1>6. CASE Injector(x)
  BY <1>6, SelectInjectorOK, StartInterceptorOK, InterceptorEndedOK DEF Injector
<1>7. CASE PodStarts(x) \/ ChaosExpires(x) \/ SigKill(x) \/ PodGone(x)
  BY <1>7, PodStartsOK, ChaosExpiresOK, SigKillOK, PodGoneOK
<1> QED
  BY <1>1, <1>2, <1>3, <1>4, <1>5, <1>6, <1>7 DEF Helper, Main

----------------------------------------------------------------------------
(* One helper: what a step of it leaves to the others *)

HelperTypes ==
  /\ pod \in [Target -> Phases]
  /\ deleted \in [Target -> BOOLEAN]
  /\ exit \in [Target -> Exits]
  /\ todo \in [Target -> Seq(Ops)]
  /\ routine \in [Target -> {"none", "waiting", "reverting", "annotating", "exiting",
                             "select", "starting", "running"}]
  /\ attempts \in [Target -> 0..Attempts]
  /\ misses \in [Target -> 0..Attempts]

\* The pods of the others stay as they are; that of x is not undeleted, and its end is final.
Moves(x) ==
  /\ HelperTypes'
  /\ \A y \in Target \ {x} : SamePod(y) /\ SameRoutine(y) /\ todo'[y] = todo[y]
  /\ deleted' = deleted
  /\ exit[x] # "none" => exit'[x] = exit[x]
  /\ pod'[x] = "none" <=> pod[x] = "none"
  /\ pod[x] = "gone" => pod'[x] = "gone"

\* So do the targets of the others.
Touches(x) ==
  /\ chaos' \in [Target -> {"none", "paused", "injected"}]
  /\ annotation' \in [Target -> Annotations \union {"none"}]
  /\ \A y \in Target \ {x} : SameTarget(y)

LEMMA ExitMoves ==
  ASSUME TypeOK, NEW x \in Target, Up(x), NEW how \in Exits \ {"none"}, Exit(x, how)
  PROVE  Moves(x)
<1>1. <<>> \in Seq(Ops)
  OBVIOUS
<1>2. HelperTypes'
  BY <1>1 DEF TypeOK, Exit, HelperTypes, Phases
<1> QED
  BY <1>2 DEF TypeOK, Exit, Moves, SamePod, SameRoutine, Up

\* Main goes on in its script or in another one.
LEMMA ScriptMoves ==
  ASSUME TypeOK, NEW x \in Target, NEW script \in Seq(Ops), todo' = [todo EXCEPT ![x] = script],
         UNCHANGED podVars,
         NEW r \in {"none", "waiting", "reverting", "annotating", "exiting",
                    "select", "starting", "running"},
         routine' \in {routine, [routine EXCEPT ![x] = r]}, UNCHANGED <<attempts, misses>>
  PROVE  Moves(x)
<1>1. HelperTypes'
  BY ZenonT(40) DEF TypeOK, HelperTypes, podVars
<1> QED
  BY <1>1 DEF TypeOK, Moves, SamePod, SameRoutine, podVars

LEMMA GoMoves ==
  ASSUME TypeOK, NEW x \in Target, HelperOK(x), todo[x] # <<>>, Go(x)
  PROVE  Moves(x)
<1>1. Tail(todo[x]) \in Seq(Ops)
  BY DEF TypeOK
<1> QED
  BY <1>1, ScriptMoves DEF Go, Advance

\* The other goroutine goes on, or an attempt is made.
LEMMA RoutineMoves ==
  ASSUME TypeOK, NEW x \in Target, UNCHANGED podVars,
         NEW script \in Seq(Ops), todo' \in {todo, [todo EXCEPT ![x] = script]},
         NEW r \in {"none", "waiting", "reverting", "annotating", "exiting",
                    "select", "starting", "running"},
         routine' \in {routine, [routine EXCEPT ![x] = r]},
         NEW n \in 0 .. Attempts, attempts' \in {attempts, [attempts EXCEPT ![x] = n]},
         NEW m \in 0 .. Attempts, misses' \in {misses, [misses EXCEPT ![x] = m]}
  PROVE  Moves(x)
<1>1. todo' \in [Target -> Seq(Ops)] /\ \A y \in Target \ {x} : todo'[y] = todo[y]
  <2>1. todo \in [Target -> Seq(Ops)]
    BY DEF TypeOK
  <2>2. CASE todo' = todo
    BY <2>1, <2>2
  <2>3. CASE todo' = [todo EXCEPT ![x] = script]
    BY <2>1, <2>3
  <2> QED
    BY <2>2, <2>3
<1>3. attempts' \in [Target -> 0 .. Attempts] /\ \A y \in Target \ {x} : attempts'[y] = attempts[y]
  <2>1. attempts \in [Target -> 0 .. Attempts]
    BY DEF TypeOK
  <2>2. CASE attempts' = attempts
    BY <2>1, <2>2
  <2>3. CASE attempts' = [attempts EXCEPT ![x] = n]
    BY <2>1, <2>3
  <2> QED
    BY <2>2, <2>3
<1>4. misses' \in [Target -> 0 .. Attempts] /\ \A y \in Target \ {x} : misses'[y] = misses[y]
  <2>1. misses \in [Target -> 0 .. Attempts]
    BY DEF TypeOK
  <2>2. CASE misses' = misses
    BY <2>1, <2>2
  <2>3. CASE misses' = [misses EXCEPT ![x] = m]
    BY <2>1, <2>3
  <2> QED
    BY <2>2, <2>3
<1>2. /\ routine' \in [Target -> {"none", "waiting", "reverting", "annotating", "exiting",
                                  "select", "starting", "running"}]
      /\ \A y \in Target \ {x} : routine'[y] = routine[y]
  <2>2. CASE routine' = routine
    BY <2>2 DEF TypeOK
  <2>3. CASE routine' = [routine EXCEPT ![x] = r]
    BY <2>3 DEF TypeOK
  <2> QED
    BY <2>2, <2>3
<1>5. HelperTypes'
  BY <1>1, <1>2, <1>3, <1>4 DEF TypeOK, HelperTypes, podVars
<1> QED
  BY <1>1, <1>2, <1>3, <1>4, <1>5 DEF Moves, SamePod, SameRoutine, podVars, TypeOK

LEMMA MissMoves ==
  ASSUME TypeOK, NEW x \in Target, HelperOK(x), attempts[x] > 0, Miss(x)
  PROVE  misses[x] + 1 \in 0 .. Attempts /\ misses' = [misses EXCEPT ![x] = misses[x] + 1]
<1>1. misses[x] + 1 \in 0 .. Attempts
  BY CountsOK DEF HelperOK, AttemptsOK
<1> QED
  BY <1>1 DEF Miss, TypeOK

LEMMA AttemptMoves ==
  ASSUME TypeOK, NEW x \in Target, HelperOK(x), Attempt(x) \/ KillInterceptor(x)
  PROVE  Moves(x)
<1>1. todo[x] \in Seq(Ops) /\ (todo[x] # <<>> => Tail(todo[x]) \in Seq(Ops))
  BY DEF TypeOK
<1>2. misses[x] \in 0 .. Attempts /\ attempts[x] \in 0 .. Attempts
  BY DEF TypeOK
<1>6. attempts[x] > 0
  BY AtOp DEF Attempt, KillInterceptor, HelperOK, AttemptsOK
<1>3. \E m \in 0 .. Attempts : misses' \in {misses, [misses EXCEPT ![x] = m]}
  BY <1>2, <1>6, MissMoves DEF Attempt, KillInterceptor
<1>4. CASE Attempt(x)
  <2>1. attempts[x] - 1 \in 0 .. Attempts
    BY <1>2, <1>4 DEF Attempt, HelperOK, AttemptsOK, Attempts
  <2>2. /\ UNCHANGED <<podVars, todo>>
        /\ routine' = [routine EXCEPT ![x] = IF attempts[x] = 1 THEN "annotating" ELSE "reverting"]
        /\ attempts' = [attempts EXCEPT ![x] = attempts[x] - 1]
    BY <1>4 DEF Attempt, Routine
  <2> QED
    BY <1>1, <1>3, <2>1, <2>2, RoutineMoves
<1>5. CASE KillInterceptor(x)
  <2>1. todo[x] # <<>> /\ op(x) = "kill"
    BY <1>5, AtOp DEF KillInterceptor
  <2>2. attempts[x] - 1 \in 0 .. Attempts
    BY <1>2, <2>1 DEF HelperOK, AttemptsOK, Attempts
  <2>3. /\ UNCHANGED <<podVars, routine>>
        /\ todo' \in {todo, [todo EXCEPT ![x] = Tail(todo[x])]}
        /\ attempts' \in {attempts, [attempts EXCEPT ![x] = attempts[x] - 1]}
    BY <1>5 DEF KillInterceptor, Advance
  <2> QED
    BY <1>1, <1>3, <2>1, <2>2, <2>3, RoutineMoves
<1> QED
  BY <1>4, <1>5

LEMMA MainMoves ==
  ASSUME TypeOK, NEW x \in Target, HelperOK(x), Main(x)
  PROVE  Moves(x)
<1>1. todo[x] \in Seq(Ops) /\ (todo[x] # <<>> => Tail(todo[x]) \in Seq(Ops))
  BY DEF TypeOK
<1>2. ASSUME Go(x) \/ (\E how \in Exits \ {"none"} : Exit(x, how)), Up(x),
             (\E how \in Exits \ {"none"} : Exit(x, how)) \/ todo[x] # <<>>
      PROVE  Moves(x)
  BY <1>2, GoMoves, ExitMoves
<1>3. CASE Prepare(x) \/ Complete(x) \/ Strike(x) \/ Verify(x)
  BY <1>2, <1>3, AtOp DEF Prepare, Complete, Strike, Verify, MayFail, GoOrFail, Exits
<1>4. CASE Select(x) \/ Inject(x) \/ Start(x) \/ Join(x) \/ Wait(x) \/ Revert(x)
  BY <1>2, <1>4, AtOp DEF Select, Inject, Start, Join, Wait, Revert, Exits
<1>5. CASE Annotate(x) \/ Resume(x) \/ Fail(x) \/ Finish(x)
  BY <1>2, <1>5, AtOp DEF Annotate, Resume, Fail, Finish, GoOrFail, Exits
<1>6. CASE Watch(x) \/ Spawn(x)
  <2>1. todo[x] # <<>> /\ Advance(x) /\ UNCHANGED <<attempts, misses>>
        /\ \E r \in {"waiting", "select"} : routine' = [routine EXCEPT ![x] = r]
    BY <1>6, AtOp DEF Watch, Spawn
  <2> QED
    BY <1>1, <2>1, ScriptMoves DEF Advance
<1>7. ASSUME NEW script \in Seq(Ops), Continue(x, script)
      PROVE  Moves(x)
  BY <1>7, ScriptMoves DEF Continue
<1>8. CASE Await(x)
  <2>1. <<"reverted", "fail">> \in Seq(Ops) /\ <<"reverted">> \in Seq(Ops)
    BY DEF Ops
  <2>2. \/ Continue(x, <<"reverted", "fail">>) \/ Continue(x, <<"reverted">>)
        \/ Up(x) /\ Exit(x, "failed")
    BY <1>8, AtOp DEF Await
  <2> QED
    BY <1>7, <2>1, <2>2, ExitMoves DEF Exits
<1>9. CASE Size(x)
  <2>1. Up(x) /\ todo[x] # <<>> /\ (Go(x) \/ Continue(x, <<>>)) /\ <<>> \in Seq(Ops)
    BY <1>9, AtOp DEF Size
  <2> QED
    BY <1>2, <1>7, <2>1
<1>10. CASE While(x)
  <2>1. <<"prepare", "strike", "verify">> \o todo[x] \in Seq(Ops)
    <3>1. <<"prepare", "strike", "verify">> \in Seq(Ops)
      BY DEF Ops
    <3> QED
      BY <1>1, <3>1
  <2>2. Go(x) \/ Continue(x, <<"prepare", "strike", "verify">> \o todo[x])
    BY <1>10 DEF While
  <2> QED
    BY <1>2, <1>7, <1>10, <2>1, <2>2, AtOp DEF While
<1>11. CASE KillInterceptor(x)
  BY <1>11, AttemptMoves
<1> QED
  BY <1>3, <1>4, <1>5, <1>6, <1>8, <1>9, <1>10, <1>11 DEF Main

LEMMA HelperMoves ==
  ASSUME TypeOK, NEW x \in Target, HelperOK(x), setup.kind \in Kinds, Helper(x)
  PROVE  Moves(x)
<1>1. todo[x] \in Seq(Ops) /\ misses[x] \in 0 .. Attempts /\ attempts[x] \in 0 .. Attempts
  BY DEF TypeOK
<1>2. CASE Receive(x) \/ AnnotateReverted(x)
  BY <1>1, <1>2, RoutineMoves DEF Receive, AnnotateReverted, Routine
<1>3. CASE ExitAborted(x) \/ SigKill(x)
  BY <1>3, ExitMoves DEF ExitAborted, SigKill, Exits
<1>4. CASE SelectInjector(x)
  <2>1. UNCHANGED <<podVars, todo, attempts, misses>>
        /\ routine' = [routine EXCEPT ![x] = IF deleted[x] THEN "none" ELSE "starting"]
    BY <1>4 DEF SelectInjector, Routine
  <2> QED
    BY <1>1, <2>1, RoutineMoves
<1>5. CASE StartInterceptor(x) \/ InterceptorEnded(x)
  <2>1. CASE Up(x) /\ Exit(x, "failed")
    BY <2>1, ExitMoves DEF Exits
  <2>2. CASE UNCHANGED <<attempts, misses>> /\ (Routine(x, "running") \/ Routine(x, "none"))
    BY <1>1, <2>2, RoutineMoves DEF Routine
  <2> QED
    BY <1>5, <2>1, <2>2 DEF StartInterceptor, InterceptorEnded
<1>6. CASE ChaosExpires(x)
  <2>1. UNCHANGED <<podVars, todo, routine, attempts, misses>>
    BY <1>6 DEF ChaosExpires, helperVars
  <2> QED
    BY <1>1, <2>1, RoutineMoves
<1>7. CASE PodStarts(x)
  <2>1. PICK script \in {Script(setup.kind), <<>>} : todo' = [todo EXCEPT ![x] = script]
    BY <1>7 DEF PodStarts
  <2>2. script \in Seq(Ops)
    <3>1. script \in Suffixes(setup.kind)
      BY <2>1, ScriptOK
    <3> QED
      BY <3>1, FollowNetwork, FollowDiskFill, FollowDNS, FollowStress, FollowContainerKill DEF Kinds
  <2>3. HelperTypes'
    BY <1>7, <2>1, <2>2 DEF PodStarts, TypeOK, HelperTypes, Phases
  <2> QED
    BY <1>7, <2>1, <2>2, <2>3 DEF PodStarts, TypeOK, Moves, SamePod, SameRoutine
<1>8. CASE PodGone(x)
  <2>1. HelperTypes'
    BY <1>8 DEF PodGone, helperVars, TypeOK, HelperTypes, Phases
  <2>2. pod[x] # "none"
    BY <1>8 DEF PodGone, HelperOK, PodOK
  <2> QED
    BY <1>8, <2>1, <2>2 DEF PodGone, helperVars, TypeOK, Moves, SamePod, SameRoutine
<1> QED
  BY <1>2, <1>3, <1>4, <1>5, <1>6, <1>7, <1>8, MainMoves, AttemptMoves
     DEF Helper, AbortWatcher, Injector

\* What each step does to the target of x: nothing, or it puts chaos or an annotation there.
LEMMA HelperTouches ==
  ASSUME TypeOK, NEW x \in Target, Helper(x)
  PROVE  Touches(x)
<1>1. ASSUME NEW c \in {"none", "paused", "injected"}, chaos' \in {chaos, [chaos EXCEPT ![x] = c]},
             NEW a \in Annotations, annotation' \in {annotation, [annotation EXCEPT ![x] = a]}
      PROVE  Touches(x)
  <2>1. chaos' \in [Target -> {"none", "paused", "injected"}]
    BY <1>1 DEF TypeOK
  <2>2. annotation' \in [Target -> Annotations \union {"none"}]
    BY <1>1 DEF TypeOK
  <2>3. \A y \in Target \ {x} : SameTarget(y)
    BY <1>1 DEF TypeOK, SameTarget
  <2> QED
    BY <2>1, <2>2, <2>3 DEF Touches
<1>2. "injected" \in Annotations /\ "reverted" \in Annotations
  BY DEF Annotations
<1>3. CASE UNCHANGED targetVars
  BY <1>1, <1>2, <1>3 DEF targetVars
<1>4. CASE \E c \in {"none", "paused", "injected"} : Put(x, c)
  BY <1>1, <1>2, <1>4 DEF Put
<1>5. CASE RevertChaos(x) /\ UNCHANGED annotation
  BY <1>1, <1>2, <1>5 DEF RevertChaos
<1>6. CASE Miss(x) /\ UNCHANGED annotation
  BY <1>1, <1>2, <1>6 DEF Miss
<1>7. CASE Annotate(x) \/ AnnotateReverted(x)
  BY <1>1, <1>2, <1>7 DEF Annotate, AnnotateReverted
<1>8. CASE Main(x)
  BY <1>3, <1>4, <1>5, <1>6, <1>7, <1>8
     DEF Main, Prepare, Complete, Strike, Verify, MayFail, Watch, Select, Inject, Start, Join, Resume,
         Wait, Revert, Await, Fail, Size, While, Spawn, KillInterceptor, Finish, targetVars
<1>9. CASE AbortWatcher(x) \/ Injector(x)
  BY <1>3, <1>4, <1>5, <1>6, <1>7, <1>9
     DEF AbortWatcher, Injector, Receive, Attempt, ExitAborted, SelectInjector, StartInterceptor,
         InterceptorEnded, targetVars
<1>10. CASE PodStarts(x) \/ ChaosExpires(x) \/ SigKill(x) \/ PodGone(x)
  BY <1>3, <1>4, <1>10 DEF PodStarts, ChaosExpires, SigKill, PodGone, targetVars
<1> QED
  BY <1>8, <1>9, <1>10 DEF Helper

----------------------------------------------------------------------------
(* The library *)

\* The library, the operator and the end of the process leave the helpers to themselves.
LEMMA LibKeepsHelpers ==
  ASSUME TypeOK, BatchOK, UNCHANGED setup, NEW y \in Target, HelperOK(y), Lib \/ Abort \/ LibExits
  PROVE  HelperOK(y)'
<1>1. CASE UNCHANGED <<podVars, helperVars, targetVars>>
  BY <1>1, SameOK DEF podVars, helperVars, targetVars, Same, SamePod, SameRoutine, SameTarget
<1>2. ASSUME NEW pods \in SUBSET Target, Delete(pods), \A x \in pods : pod[x] # "none",
             UNCHANGED <<pod, exit, helperVars, targetVars>>
      PROVE  HelperOK(y)'
  <2>1. deleted'[y] = (deleted[y] \/ y \in pods)
    BY <1>2 DEF Delete
  <2>2. pod[y] = "none" => ~deleted'[y]
    BY <1>2, <2>1 DEF HelperOK, PodOK
  <2>3. pod[y] = "gone" => deleted'[y]
    BY <2>1 DEF HelperOK, PodOK
  <2>4. Up(y)' <=> Up(y)
    BY <1>2 DEF Up
  <2> QED
    BY <1>2, <2>1, <2>2, <2>3, <2>4, QuietOK
<1>3. CASE \E x \in Target : Create(x)
  <2>1. PICK x \in Target : Create(x)
    BY <1>3
  <2>2. x \in left /\ pod[x] = "none" /\ pod' \in {pod, [pod EXCEPT ![x] = "pending"]}
        /\ UNCHANGED <<deleted, exit, helperVars, targetVars>>
    BY <2>1 DEF Create, BatchOK
  <2>3. pod'[y] = pod[y] \/ (pod[y] = "none" /\ pod'[y] = "pending")
    BY <2>2 DEF TypeOK
  <2>4. /\ pod[y] = "none" => ~deleted[y]
        /\ pod[y] = "gone" => deleted[y]
    BY DEF HelperOK, PodOK
  <2>5. Up(y)' <=> Up(y)
    BY <2>2, <2>3 DEF Up
  <2> QED
    BY <2>2, <2>3, <2>4, <2>5, QuietOK
<1>4. CASE DeleteHelpers \/ Cleanup
  <2>1. CASE Delete(Present)
    <3>1. Present \in SUBSET Target /\ \A x \in Present : pod[x] # "none"
      BY DEF Present, BatchOK
    <3> QED
      BY <1>2, <1>4, <2>1, <3>1 DEF DeleteHelpers, Cleanup
  <2>2. CASE UNCHANGED deleted
    BY <1>1, <1>4, <2>2 DEF DeleteHelpers, Cleanup, podVars
  <2> QED
    BY <1>4, <2>1, <2>2 DEF DeleteHelpers, Cleanup
<1>5. CASE Abort
  BY <1>2, <1>5 DEF Abort
<1>6. CASE StartLib \/ Created \/ CheckHelperStatus \/ WaitForCompletion \/ HelpersDeleted
           \/ CleanedUp \/ LibExits
  BY <1>1, <1>6 DEF StartLib, Created, CheckHelperStatus, WaitForCompletion, HelpersDeleted,
                    CleanedUp, LibExits
<1> QED
  BY <1>3, <1>4, <1>5, <1>6 DEF Lib

LEMMA LibTypes ==
  ASSUME TypeOK, UNCHANGED setup, Lib \/ Abort \/ LibExits
  PROVE  TypeOK'
<1>1. ASSUME UNCHANGED <<podVars, helperVars, targetVars, left, batch>>, aborted' \in BOOLEAN,
             lib' \in LibStates
      PROVE  TypeOK'
  BY <1>1 DEF TypeOK, podVars, helperVars, targetVars
<1>2. ASSUME NEW pods, Delete(pods) \/ UNCHANGED deleted, UNCHANGED <<pod, exit, helperVars, targetVars>>,
             UNCHANGED <<left, batch>>, aborted' \in BOOLEAN, lib' \in LibStates
      PROVE  TypeOK'
  <2>1. deleted' \in [Target -> BOOLEAN]
    BY <1>2 DEF Delete, TypeOK
  <2> QED
    BY <1>2, <2>1 DEF TypeOK, helperVars, targetVars
<1>3. CASE \E x \in Target : Create(x)
  <2>1. PICK x \in Target : Create(x)
    BY <1>3
  <2>2. CASE Goto("failed") /\ UNCHANGED pod
    BY <1>1, <2>1, <2>2, <1>3 DEF Create, Goto, podVars, LibStates, Lib, Abort, LibExits, TypeOK
  <2>3. CASE /\ pod' = [pod EXCEPT ![x] = "pending"]
             /\ left' = left \ {x}
             /\ IF setup.sequence = "serial"
                THEN batch' = {x} /\ lib' = "check"
                ELSE batch' = batch \union {x} /\ UNCHANGED lib
    <3>1. pod' \in [Target -> Phases] /\ left' \subseteq Target /\ batch' \subseteq Target
          /\ lib' \in LibStates
      BY <2>3 DEF TypeOK, Phases, LibStates
    <3>2. UNCHANGED <<deleted, exit, helperVars, targetVars>> /\ aborted' \in BOOLEAN
      BY <2>1 DEF Create, TypeOK, Lib, Abort, LibExits
    <3> QED
      BY <3>1, <3>2 DEF TypeOK, helperVars, targetVars
  <2> QED
    BY <2>1, <2>2, <2>3 DEF Create
<1>4. CASE DeleteHelpers \/ Cleanup \/ Abort
  BY <1>2, <1>4 DEF DeleteHelpers, Cleanup, Abort, Goto, LibStates, TypeOK, Lib, LibExits
<1>5. CASE StartLib \/ Created \/ CheckHelperStatus \/ WaitForCompletion \/ HelpersDeleted
           \/ CleanedUp \/ LibExits
  BY <1>1, <1>5 DEF StartLib, Created, CheckHelperStatus, WaitForCompletion, HelpersDeleted,
                    CleanedUp, LibExits, Goto, LibStates, TypeOK, Lib, Abort
<1> QED
  BY <1>3, <1>4, <1>5 DEF Lib

LEMMA BatchKept ==
  ASSUME TypeOK, BatchOK, UNCHANGED setup, Lib \/ Abort \/ LibExits
  PROVE  BatchOK'
<1>1. setup.sequence \in {"serial", "parallel"}
  BY DEF TypeOK, SetupType
<1>2. CASE \E x \in Target : Create(x)
  <2>1. PICK x \in Target : Create(x)
    BY <1>2
  <2>2. CASE Goto("failed") /\ UNCHANGED pod
    BY <2>2 DEF BatchOK, Goto
  <2>3. CASE /\ pod' = [pod EXCEPT ![x] = "pending"]
             /\ left' = left \ {x}
             /\ IF setup.sequence = "serial"
                THEN batch' = {x} /\ lib' = "check"
                ELSE batch' = batch \union {x} /\ UNCHANGED lib
    <3>1. x \in left /\ x \notin batch /\ lib = "create"
      BY <2>1 DEF Create, BatchOK
    <3>2. \A y \in Target : y # x => pod'[y] = pod[y]
      BY <2>3 DEF TypeOK
    <3>3. pod'[x] = "pending"
      BY <2>3 DEF TypeOK
    <3>4. CASE setup.sequence = "serial"
      BY <2>3, <3>1, <3>2, <3>3, <3>4 DEF BatchOK
    <3>5. CASE setup.sequence = "parallel"
      BY <2>3, <3>1, <3>2, <3>3, <3>5 DEF BatchOK
    <3> QED
      BY <1>1, <3>4, <3>5
  <2> QED
    BY <2>1, <2>2, <2>3 DEF Create
<1>3. ASSUME UNCHANGED <<pod, left, batch>>, lib # "start" => lib' # "start", lib = "start" => lib' # "start",
             lib' = "ok" \/ (setup.sequence = "parallel" /\ lib' \in {"check", "wait", "delete", "deleting"})
               => left = {}
      PROVE  BatchOK'
  BY <1>3 DEF BatchOK
<1>4. CASE Abort
  BY <1>4 DEF Abort, BatchOK
<1>5. CASE StartLib \/ Created \/ CleanedUp \/ LibExits
  BY <1>3, <1>5 DEF StartLib, Created, CleanedUp, LibExits, Goto, podVars
<1>6. CASE CheckHelperStatus \/ WaitForCompletion
  BY <1>3, <1>6 DEF CheckHelperStatus, WaitForCompletion, Goto, podVars, BatchOK
<1>7. CASE DeleteHelpers \/ HelpersDeleted \/ Cleanup
  BY <1>1, <1>3, <1>7 DEF DeleteHelpers, HelpersDeleted, Cleanup, Goto, podVars, BatchOK
<1> QED
  BY <1>2, <1>4, <1>5, <1>6, <1>7 DEF Lib

\* A helper that has completed and has not failed is gone or has ended well.
LEMMA CompletedWell ==
  ASSUME NEW x \in Target, HelperOK(x), ~setup.sidecar, TypeOK,
         pod[x] # "gone" => Completed(x) /\ pod[x] # "failed"
  PROVE  exit[x] = "ok" \/ pod[x] = "gone"
<1>1. pod[x] \in {"none", "pending", "running", "succeeded", "failed", "gone"}
  BY DEF TypeOK, Phases
<1> QED
  BY <1>1 DEF Completed, HelperOK, PodOK

LEMMA SerialKept ==
  ASSUME TypeOK, BatchOK, SerialOK, \A x \in Target : HelperOK(x), UNCHANGED setup,
         Lib \/ Abort \/ LibExits
  PROVE  SerialOK'
<1>0. SUFFICES ASSUME setup.sequence = "serial", ~setup.sidecar
               PROVE  SerialOK'
  BY DEF SerialOK
<1> DEFINE Well(x) == exit[x] = "ok" /\ pod[x] = "gone"
<1>1. /\ \A x \in Target \ (left \union batch) : Well(x)
      /\ lib \in {"create", "ok"} => \A x \in batch : Well(x)
      /\ lib = "delete" => \A x \in batch : exit[x] = "ok" \/ pod[x] = "gone"
      /\ lib = "deleting" => \A x \in batch : exit[x] = "ok"
  BY <1>0 DEF SerialOK
<1>2. CASE \E x \in Target : Create(x)
  <2>1. PICK x \in Target : Create(x)
    BY <1>2
  <2>2. CASE Goto("failed") /\ UNCHANGED pod
    BY <1>1, <2>1, <2>2 DEF SerialOK, Goto, Create
  <2>3. CASE /\ pod' = [pod EXCEPT ![x] = "pending"]
             /\ left' = left \ {x}
             /\ batch' = {x} /\ lib' = "check"
    <3>1. x \in left /\ lib = "create" /\ exit' = exit
      BY <2>1 DEF Create
    <3>2. \A y \in Target : y # x => pod'[y] = pod[y]
      BY <2>3 DEF TypeOK
    <3>3. \A y \in Target \ (left' \union batch') : y # x /\ Well(y)
      BY <1>1, <2>3, <3>1
    <3> QED
      BY <2>3, <3>1, <3>2, <3>3 DEF SerialOK
  <2> QED
    BY <1>0, <2>1, <2>2, <2>3 DEF Create
<1>3. ASSUME UNCHANGED <<pod, exit, left, batch>>,
             lib' \in {"create", "ok"} => \A x \in batch : Well(x),
             lib' = "delete" => \A x \in batch : exit[x] = "ok" \/ pod[x] = "gone",
             lib' = "deleting" => \A x \in batch : exit[x] = "ok"
      PROVE  SerialOK'
  BY <1>1, <1>3 DEF SerialOK
<1>4. CASE Abort
  BY <1>1, <1>3, <1>4 DEF Abort
<1>5. CASE StartLib
  <2>1. lib' \in {"create", "failed"} /\ batch = {} /\ UNCHANGED <<pod, exit, left, batch>>
    BY <1>5 DEF StartLib, Goto, podVars, BatchOK
  <2> QED
    BY <1>3, <2>1
<1>6. CASE Created
  BY <1>0, <1>1, <1>3, <1>6 DEF Created, Goto, podVars
<1>7. CASE CheckHelperStatus \/ Cleanup \/ CleanedUp \/ LibExits
  BY <1>3, <1>7 DEF CheckHelperStatus, Cleanup, CleanedUp, LibExits, Goto, podVars
<1>8. CASE WaitForCompletion
  <2>1. UNCHANGED <<pod, exit, left, batch>> /\ lib' \in {"delete", "cleanup"}
    BY <1>8 DEF WaitForCompletion, Goto, podVars
  <2>2. lib' = "delete" => \A x \in batch : pod[x] # "gone" => Completed(x) /\ pod[x] # "failed"
    BY <1>8 DEF WaitForCompletion, Goto, Failed, Present
  <2>3. lib' = "delete" => \A x \in batch : exit[x] = "ok" \/ pod[x] = "gone"
    BY <1>0, <2>2, CompletedWell DEF BatchOK
  <2> QED
    BY <1>3, <2>1, <2>3
<1>9. CASE DeleteHelpers
  <2>1. UNCHANGED <<pod, exit, left, batch>> /\ lib' \in {"deleting", "failed"} /\ lib = "delete"
    BY <1>9 DEF DeleteHelpers, Goto
  <2>2. lib' = "deleting" => \E x \in batch : pod[x] # "gone"
    BY <1>0, <1>9 DEF DeleteHelpers, Goto, NotFound, Present
  <2>3. lib' = "deleting" => \A x \in batch : exit[x] = "ok"
    BY <1>0, <1>1, <2>1, <2>2 DEF BatchOK
  <2> QED
    BY <1>3, <2>1, <2>3
<1>10. CASE HelpersDeleted
  <2>1. UNCHANGED <<pod, exit, left, batch>> /\ lib' \in {"create", "failed"} /\ lib = "deleting"
    BY <1>0, <1>10 DEF HelpersDeleted, Goto, podVars
  <2>2. lib' = "create" => \A x \in batch : pod[x] = "gone"
    BY <1>10 DEF HelpersDeleted, Goto, Present
  <2> QED
    BY <1>1, <1>3, <2>1, <2>2
<1> QED
  BY <1>2, <1>4, <1>5, <1>6, <1>7, <1>8, <1>9, <1>10 DEF Lib

LEMMA ParallelKept ==
  ASSUME TypeOK, BatchOK, ParallelOK, \A x \in Target : HelperOK(x), UNCHANGED setup,
         Lib \/ Abort \/ LibExits
  PROVE  ParallelOK'
<1>0. SUFFICES ASSUME setup.sequence = "parallel", ~setup.sidecar, ~aborted'
               PROVE  ParallelOK'
  BY DEF ParallelOK
<1>1. Lib /\ ~aborted
  BY <1>0 DEF Lib, Abort, LibExits
<1>2. /\ lib \in {"start", "create", "check", "wait"} => \A x \in Target : ~deleted[x]
      /\ lib \in {"delete", "deleting", "ok"} => \A x \in Target : exit[x] = "ok"
      /\ lib = "ok" => \A x \in Target : pod[x] = "gone"
      /\ lib \in {"check", "wait", "delete", "deleting"} => batch = Target
  BY <1>0, <1>1 DEF ParallelOK, BatchOK
<1>3. CASE StartLib \/ Created \/ CheckHelperStatus \/ Cleanup \/ CleanedUp
  BY <1>0, <1>2, <1>3 DEF StartLib, Created, CheckHelperStatus, Cleanup, CleanedUp, Goto, podVars,
                          ParallelOK
<1>4. CASE \E x \in Target : Create(x)
  <2>1. lib = "create" /\ lib' \in {"create", "failed"} /\ UNCHANGED <<deleted, exit>>
    BY <1>0, <1>4 DEF Create, Goto
  <2> QED
    BY <1>2, <2>1 DEF ParallelOK
<1>5. CASE WaitForCompletion
  <2>1. UNCHANGED <<pod, deleted, exit>> /\ lib' \in {"delete", "cleanup"} /\ lib = "wait"
    BY <1>5 DEF WaitForCompletion, Goto, podVars
  <2>2. lib' = "delete" => \A x \in batch : pod[x] # "gone" => Completed(x) /\ pod[x] # "failed"
    BY <1>5 DEF WaitForCompletion, Goto, Failed, Present
  <2>3. lib' = "delete" => \A x \in Target : exit[x] = "ok" \/ pod[x] = "gone"
    BY <1>0, <1>2, <2>1, <2>2, CompletedWell
  <2>4. \A x \in Target : pod[x] # "gone"
    BY <1>2, <2>1 DEF HelperOK, PodOK
  <2> QED
    BY <2>1, <2>3, <2>4 DEF ParallelOK
<1>6. CASE DeleteHelpers
  <2>1. exit' = exit /\ lib' \in {"deleting", "failed"} /\ lib = "delete"
    BY <1>6 DEF DeleteHelpers, Goto
  <2> QED
    BY <1>2, <2>1 DEF ParallelOK
<1>7. CASE HelpersDeleted
  <2>1. UNCHANGED <<pod, exit>> /\ lib' \in {"ok", "failed"} /\ lib = "deleting"
    BY <1>0, <1>7 DEF HelpersDeleted, Goto, podVars
  <2>2. lib' = "ok" => \A x \in Target : pod[x] = "gone"
    BY <1>2, <1>7, <2>1 DEF HelpersDeleted, Goto, Present
  <2> QED
    BY <1>2, <2>1, <2>2 DEF ParallelOK
<1> QED
  BY <1>1, <1>3, <1>4, <1>5, <1>6, <1>7 DEF Lib

----------------------------------------------------------------------------
(* The invariant *)

LEMMA InitOK == Init => IInv
<1> SUFFICES ASSUME Init PROVE IInv
  OBVIOUS
<1> USE DEF Init, HelperInit
<1>1. setup \in Setups /\ setup \in SetupType /\ setup.kind \in Kinds
  BY SetupAssumption DEF SetupType
<1>2. TypeOK
  <2>1. <<>> \in Seq(Ops) /\ Attempts \in 0 .. Attempts /\ 0 \in 0 .. Attempts
    BY DEF Attempts
  <2> QED
    BY <1>1, <2>1 DEF TypeOK, Phases, Exits, LibStates
<1>3. ASSUME NEW x \in Target
      PROVE  HelperOK(x)
  <2>1. op(x) = "end" /\ ~Up(x) /\ Settled(x)
    BY DEF op, Pos, Up, Settled, InFlight, At, Early
  <2>2. todo[x] \in Suffixes(setup.kind)
    BY <1>1, ScriptOK
  <2>3. PodOK(x) /\ RoutineOK(x)
    BY <2>1 DEF PodOK, RoutineOK
  <2>4. AttemptsOK(x) /\ ChaosOK(x) /\ AnnotationOK(x)
    BY <2>1 DEF AttemptsOK, ChaosOK, AnnotationOK, Attempts
  <2> QED
    BY <2>1, <2>2, <2>3, <2>4 DEF HelperOK, SettledOK
<1>4. BatchOK /\ SerialOK /\ ParallelOK
  BY DEF BatchOK, SerialOK, ParallelOK
<1> QED
  BY <1>1, <1>2, <1>3, <1>4 DEF IInv

LEMMA StepOK == IInv /\ [Next]_vars => IInv'
<1> SUFFICES ASSUME IInv, [Next]_vars PROVE IInv'
  OBVIOUS
<1>1. TypeOK /\ setup \in Setups /\ (\A x \in Target : HelperOK(x)) /\ BatchOK /\ SerialOK /\ ParallelOK
  BY DEF IInv
<1>2. CASE UNCHANGED vars
  <2>1. \A x \in Target : HelperOK(x)'
    BY <1>1, <1>2, SameOK DEF vars, podVars, helperVars, targetVars, Same, SamePod, SameRoutine, SameTarget
  <2>2. TypeOK' /\ BatchOK' /\ SerialOK' /\ ParallelOK'
    BY <1>1, <1>2 DEF vars, podVars, helperVars, targetVars, libVars, TypeOK, BatchOK, SerialOK, ParallelOK
  <2> QED
    BY <1>1, <1>2, <2>1, <2>2 DEF IInv, vars
<1>3. CASE (Lib \/ Abort \/ LibExits) /\ UNCHANGED setup
  BY <1>1, <1>3, LibKeepsHelpers, LibTypes, BatchKept, SerialKept, ParallelKept DEF IInv
<1>4. CASE \E x \in Target : Helper(x) /\ UNCHANGED <<setup, libVars>>
  <2>1. PICK x \in Target : Helper(x) /\ UNCHANGED <<setup, libVars>>
    BY <1>4
  <2>2. Moves(x) /\ Touches(x) /\ HelperOK(x)'
    BY <1>1, <2>1, KindsOK, HelperMoves, HelperTouches, HelperStepOK
  <2>3. \A y \in Target : HelperOK(y)'
    BY <1>1, <2>1, <2>2, SameOK DEF Moves, Touches, Same
  <2>4. TypeOK'
    BY <1>1, <2>1, <2>2 DEF Moves, HelperTypes, Touches, TypeOK, libVars
  <2>5. \A y \in Target : /\ deleted'[y] = deleted[y] /\ (exit[y] = "ok" => exit'[y] = "ok")
                          /\ pod'[y] = "none" <=> pod[y] = "none"
                          /\ pod[y] = "gone" => pod'[y] = "gone"
    BY <2>2 DEF Moves, SamePod
  <2>6. BatchOK'
    BY <1>1, <2>1, <2>5 DEF BatchOK, libVars
  <2>7. SerialOK'
    BY <1>1, <2>1, <2>5 DEF SerialOK, BatchOK, libVars
  <2>8. ParallelOK'
    BY <1>1, <2>1, <2>5 DEF ParallelOK, libVars
  <2> QED
    BY <1>1, <2>1, <2>3, <2>4, <2>6, <2>7, <2>8 DEF IInv
<1> QED
  BY <1>2, <1>3, <1>4 DEF Next

\* The inductive invariant holds in every state.
THEOREM Invariance == Spec => []IInv
  BY InitOK, StepOK, PTL DEF Spec

\* The type invariant.
THEOREM TypeCorrect == Spec => []TypeOK
<1>1. IInv => TypeOK
  BY DEF IInv
<1> QED
  BY <1>1, Invariance, PTL

----------------------------------------------------------------------------
(* The safety invariants *)

\* "reverted" in the ChaosResult, and a helper that ended well or by its abort watcher, mean that
\* its target has no chaos or is stuck (network chaos on an interface that is not eth0, three failed
\* attempts of the revert): for any number of targets, whenever the signal comes.
THEOREM RevertReal == Spec => []RevertIsReal
<1>1. IInv => RevertIsReal
  BY DEF IInv, HelperOK, SettledOK, Settled, RevertIsReal
<1> QED
  BY <1>1, Invariance, PTL

\* The success of a library that nobody aborted: every helper has ended well and is deleted,
\* no target is said to have chaos, and none has it unless it is stuck.
THEOREM SuccessComplete == Spec => []SuccessIsComplete
<1>1. IInv => SuccessIsComplete
  <2> SUFFICES ASSUME IInv, lib = "ok", ~aborted, ~setup.sidecar, NEW x \in Target
               PROVE  /\ exit[x] = "ok" /\ pod[x] = "gone" /\ annotation[x] # "injected"
                      /\ chaos[x] = "none" \/ Stuck(x)
    BY DEF SuccessIsComplete
  <2>1. exit[x] = "ok" /\ pod[x] = "gone"
    <3>1. setup.sequence \in {"serial", "parallel"} /\ left = {}
      BY DEF IInv, BatchOK, TypeOK, SetupType
    <3> QED
      BY <3>1 DEF IInv, SerialOK, ParallelOK
  <2>2. HelperOK(x)
    BY DEF IInv
  <2>3. op(x) = "end"
    BY <2>1, <2>2 DEF HelperOK, PodOK, Up, op, Pos
  <2> QED
    BY <2>1, <2>2, <2>3 DEF HelperOK, SettledOK, Settled, AnnotationOK
<1> QED
  BY <1>1, Invariance, PTL

\* Serial chaos is in one target at a time, whatever fails: the helpers before the last have
\* ended well, and where that left chaos in the target it is stuck.
THEOREM OneAtATime == Spec => []OneByOne
<1>1. IInv => OneByOne
  <2> SUFFICES ASSUME IInv, setup.sequence = "serial", ~setup.sidecar, NEW x \in Target, NEW y \in Target,
                      chaos[x] = "injected", chaos[y] = "injected", x # y
               PROVE  \E z \in {x, y} : Stuck(z) /\ exit[z] = "ok"
    BY DEF OneByOne
  <2>1. ASSUME NEW z \in Target, chaos[z] = "injected", z \notin batch
        PROVE  Stuck(z) /\ exit[z] = "ok"
    <3>1. HelperOK(z)
      BY DEF IInv
    <3>2. z \notin left
      BY <2>1, <3>1 DEF IInv, BatchOK, HelperOK, PodOK
    <3>3. exit[z] = "ok"
      BY <2>1, <3>2 DEF IInv, SerialOK
    <3> QED
      BY <2>1, <3>1, <3>3 DEF HelperOK, SettledOK, Settled
  <2>2. x \notin batch \/ y \notin batch
    BY DEF IInv, BatchOK
  <2> QED
    BY <2>1, <2>2
<1> QED
  BY <1>1, Invariance, PTL

=============================================================================
