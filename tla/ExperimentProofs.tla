-------------------------- MODULE ExperimentProofs --------------------------
(***************************************************************************)
(* Proofs about Experiment, for any of its scripts and any probes: its     *)
(* type invariant.  What an operation may do depends on what the script    *)
(* has left, so the scripts come first: each of them, put together of its  *)
(* parts, has its operations in the order of their ranks, and keeps it     *)
(* while it is executed and when it fails.                                 *)
(***************************************************************************)
EXTENDS Experiment, SequenceTheorems, TLAPS

----------------------------------------------------------------------------
(* What a script may have left *)

\* The operations that matter, in the order of the scripts.
Rank(o) ==
  CASE o.op = "initProbes"                           -> 1
    [] o.op = "update" /\ o.arg = "SOT"              -> 2
    [] o.op = "watch"                                -> 3
    [] o.op = "probes" /\ o.arg = "PreChaos"         -> 4
    [] o.op = "chaos"                                -> 5
    [] o.op = "pass"                                 -> 6
    [] o.op = "probes" /\ o.arg = "PostChaos"        -> 7
    [] o.op = "complete"                             -> 8
    [] o.op = "update" /\ o.arg = "EOT"              -> 9
    [] o.op = "setResultEvent" /\ o.arg # "Awaited"  -> 10
    [] OTHER                                         -> 0

\* The operations that may follow the last ChaosResult.
TailOps == {"setResultEvent", "generateEvents", "setEngineEvent"}

\* Each of them comes once, and no check comes after the last ChaosResult.
Precedes(a, b) ==
  /\ Rank(a) > 0 /\ Rank(b) > 0 => Rank(a) < Rank(b)
  /\ Rank(a) >= 9 => b.op \in TailOps

Ordered(s) == \A j, k \in DOMAIN s : j < k => Precedes(s[j], s[k])

Has(s, r) == \E k \in DOMAIN s : Rank(s[k]) = r

\* An operation of a script: lax is that of azure-instance-stop, which goes on after an error
\* at its start and at its end; failing is one that RecordAfterFailure or a failed check leaves.
Planned(o, lax, failing) ==
  \/ o.op = "initProbes" /\ ~failing /\ o.onError = (IF lax THEN "ignore" ELSE "return")
  \/ o.op = "update" /\ o.arg = "SOT" /\ ~failing /\ o.onError = "record"
  \/ o.op = "update" /\ o.arg = "EOT"
       /\ o.onError = (IF lax \/ failing THEN "ignore" ELSE "return")
  \/ o.op = "setResultEvent" /\ o.onError = "ignore"
       /\ o.arg \in (IF failing THEN {"Fail"} ELSE {"Awaited", "byVerdict", "Summary"})
  \/ o.op \in {"generateEvents", "setEngineEvent"} /\ o.onError = "ignore"
  \/ o.op = "watch" /\ ~failing /\ o.arg \in {"exit", "stay"} /\ o.onError = "ignore"
  \/ o.op = "check" /\ ~failing /\ o.onError \in {"record", "event", "warn", "complete", "update"}
  \/ o.op = "probes" /\ ~failing /\ o.arg \in {"PreChaos", "PostChaos"} /\ o.onError = "event"
  \/ o.op = "chaos" /\ ~failing /\ o.onError = "record"
  \/ o.op = "pass" /\ ~failing /\ o.onError = "ignore"
  \/ o.op = "complete" /\ failing /\ o.arg = "Fail" /\ o.onError = "ignore"

\* The script is not failing, or not that of azure-instance-stop.
No == FALSE

PlannedSeq(s, lax, failing) ==
  /\ s \in Seq(Ops) /\ Ordered(s)
  /\ \A k \in DOMAIN s : Planned(s[k], lax, failing)

\* What comes before has what comes after it.
FollowedUp(s) ==
  /\ (\E k \in DOMAIN s : s[k].op \notin TailOps) => Has(s, 9)
  /\ Has(s, 1) => Has(s, 4) /\ Has(s, 7)

----------------------------------------------------------------------------
(* Scripts are put together of parts *)

\* A part of a script, with ranks from lo to hi.
Part(s, lo, hi, lax, failing) ==
  /\ PlannedSeq(s, lax, failing)
  /\ \A k \in DOMAIN s : /\ Rank(s[k]) = 0 \/ (lo <= Rank(s[k]) /\ Rank(s[k]) <= hi)
                         /\ lo > 9 => s[k].op \in TailOps

LEMMA RankNat == \A o : Rank(o) \in 0 .. 10
  BY DEF Rank

\* An operation of a part precedes one of the next.
LEMMA CrossPrecedes ==
  ASSUME NEW a, NEW b, NEW mid \in Nat,
         Rank(a) = 0 \/ Rank(a) <= mid, Rank(b) = 0 \/ mid + 1 <= Rank(b),
         mid + 1 > 9 => b.op \in TailOps
  PROVE  Precedes(a, b)
<1>1. Rank(a) \in 0 .. 10 /\ Rank(b) \in 0 .. 10
  BY RankNat
<1> QED
  BY <1>1 DEF Precedes

\* An operation of a later part has a place in the whole.
LEMMA LaterFits ==
  ASSUME NEW b, NEW lo \in Nat, NEW mid \in Nat, NEW hi \in Nat, lo <= mid + 1,
         Rank(b) = 0 \/ (mid + 1 <= Rank(b) /\ Rank(b) <= hi),
         mid + 1 > 9 => b.op \in TailOps
  PROVE  /\ Rank(b) = 0 \/ (lo <= Rank(b) /\ Rank(b) <= hi)
         /\ lo > 9 => b.op \in TailOps
<1>1. Rank(b) \in 0 .. 10
  BY RankNat
<1> QED
  BY <1>1

LEMMA Join ==
  ASSUME NEW s, NEW t, NEW lo \in Nat, NEW mid \in Nat, NEW hi \in Nat,
         NEW lax, NEW failing,
         Part(s, lo, mid, lax, failing), Part(t, mid + 1, hi, lax, failing),
         lo <= mid + 1, mid <= hi
  PROVE  Part(s \o t, lo, hi, lax, failing)
<1>1. s \in Seq(Ops) /\ t \in Seq(Ops)
  BY DEF Part, PlannedSeq
<1>2. /\ s \o t \in Seq(Ops) /\ Len(s) \in Nat /\ Len(t) \in Nat
      /\ DOMAIN s = 1 .. Len(s) /\ DOMAIN t = 1 .. Len(t)
      /\ DOMAIN (s \o t) = 1 .. Len(s) + Len(t)
      /\ \A i \in 1 .. Len(s) + Len(t) : (s \o t)[i] = IF i <= Len(s) THEN s[i] ELSE t[i - Len(s)]
  BY <1>1, ConcatProperties, LenProperties
<1>3. ASSUME NEW k \in DOMAIN (s \o t)
      PROVE  /\ Planned((s \o t)[k], lax, failing)
             /\ Rank((s \o t)[k]) = 0 \/ (lo <= Rank((s \o t)[k]) /\ Rank((s \o t)[k]) <= hi)
             /\ lo > 9 => (s \o t)[k].op \in TailOps
  <2>1. CASE k \in DOMAIN s
    <3>1. (s \o t)[k] = s[k]
      BY <1>2, <2>1
    <3> QED
      BY <2>1, <3>1, RankNat DEF Part, PlannedSeq
  <2>2. CASE k \notin DOMAIN s
    <3>1. (s \o t)[k] = t[k - Len(s)] /\ k - Len(s) \in DOMAIN t
      BY <1>2, <2>2
    <3> DEFINE b == t[k - Len(s)]
    <3>2. /\ Rank(b) = 0 \/ (mid + 1 <= Rank(b) /\ Rank(b) <= hi)
          /\ mid + 1 > 9 => b.op \in TailOps
          /\ Planned(b, lax, failing)
      BY <3>1 DEF Part, PlannedSeq
    <3>3. /\ Rank(b) = 0 \/ (lo <= Rank(b) /\ Rank(b) <= hi)
          /\ lo > 9 => b.op \in TailOps
      BY <3>2, LaterFits
    <3> QED
      BY <3>1, <3>2, <3>3
  <2> QED
    BY <2>1, <2>2
<1>4. ASSUME NEW j \in DOMAIN (s \o t), NEW k \in DOMAIN (s \o t), j < k
      PROVE  Precedes((s \o t)[j], (s \o t)[k])
  <2>1. CASE k \in DOMAIN s
    <3>1. (s \o t)[k] = s[k] /\ (s \o t)[j] = s[j] /\ j \in DOMAIN s
      BY <1>2, <1>4, <2>1
    <3> QED
      BY <1>4, <2>1, <3>1 DEF Part, PlannedSeq, Ordered
  <2>2. CASE j \notin DOMAIN s
    <3>1. /\ (s \o t)[k] = t[k - Len(s)] /\ k - Len(s) \in DOMAIN t
          /\ (s \o t)[j] = t[j - Len(s)] /\ j - Len(s) \in DOMAIN t
          /\ j - Len(s) < k - Len(s)
      BY <1>2, <1>4, <2>2
    <3> QED
      BY <3>1 DEF Part, PlannedSeq, Ordered
  <2>3. CASE j \in DOMAIN s /\ k \notin DOMAIN s
    <3>1. /\ (s \o t)[k] = t[k - Len(s)] /\ k - Len(s) \in DOMAIN t
          /\ (s \o t)[j] = s[j]
      BY <1>2, <1>4, <2>3
    <3> DEFINE a == s[j]
    <3> DEFINE b == t[k - Len(s)]
    <3>2. /\ Rank(a) = 0 \/ Rank(a) <= mid
          /\ Rank(b) = 0 \/ mid + 1 <= Rank(b)
          /\ mid + 1 > 9 => b.op \in TailOps
      BY <2>3, <3>1 DEF Part
    <3>3. Precedes(a, b)
      BY <3>2, CrossPrecedes
    <3> QED
      BY <3>1, <3>3
  <2> QED
    BY <2>1, <2>2, <2>3
<1> QED
  BY <1>2, <1>3, <1>4 DEF Part, PlannedSeq, Ordered

\* A wider part.
LEMMA Widen ==
  ASSUME NEW s, NEW lo \in Nat, NEW hi \in Nat, NEW lo2 \in Nat, NEW hi2 \in Nat,
         NEW lax, NEW failing, Part(s, lo, hi, lax, failing),
         lo2 <= lo, hi <= hi2, lo2 <= 9 \/ lo > 9
  PROVE  Part(s, lo2, hi2, lax, failing)
  BY RankNat DEF Part

\* What two parts have.
LEMMA HasJoin ==
  ASSUME NEW s \in Seq(Ops), NEW t \in Seq(Ops), NEW r
  PROVE  Has(s \o t, r) <=> Has(s, r) \/ Has(t, r)
<1>2. /\ s \o t \in Seq(Ops) /\ Len(s) \in Nat /\ Len(t) \in Nat
      /\ DOMAIN s = 1 .. Len(s) /\ DOMAIN t = 1 .. Len(t)
      /\ DOMAIN (s \o t) = 1 .. Len(s) + Len(t)
      /\ \A i \in 1 .. Len(s) + Len(t) : (s \o t)[i] = IF i <= Len(s) THEN s[i] ELSE t[i - Len(s)]
  BY ConcatProperties, LenProperties
<1>3. ASSUME NEW k \in DOMAIN s
      PROVE  k \in DOMAIN (s \o t) /\ (s \o t)[k] = s[k]
  BY <1>2
<1>4. ASSUME NEW k \in DOMAIN t
      PROVE  k + Len(s) \in DOMAIN (s \o t) /\ (s \o t)[k + Len(s)] = t[k]
  BY <1>2
<1>5. ASSUME NEW k \in DOMAIN (s \o t), k \notin DOMAIN s
      PROVE  k - Len(s) \in DOMAIN t /\ (s \o t)[k] = t[k - Len(s)]
  BY <1>2, <1>5
<1> QED
  BY <1>3, <1>4, <1>5 DEF Has

\* One operation is a part, ...
LEMMA OnePart ==
  ASSUME NEW o \in Ops, NEW lax, NEW failing, NEW lo \in Nat, NEW hi \in Nat,
         Planned(o, lax, failing),
         Rank(o) = 0 \/ (lo <= Rank(o) /\ Rank(o) <= hi),
         lo > 9 => o.op \in TailOps
  PROVE  Part(<<o>>, lo, hi, lax, failing) /\ \A r : Has(<<o>>, r) <=> r = Rank(o)
<1>1. <<o>> \in Seq(Ops) /\ DOMAIN <<o>> = {1} /\ <<o>>[1] = o
  OBVIOUS
<1> QED
  BY <1>1 DEF Part, PlannedSeq, Ordered, Has

\* ... in the place of its rank, ...
LEMMA RankPart ==
  ASSUME NEW o \in Ops, NEW lax, NEW failing, Planned(o, lax, failing)
  PROVE  /\ Part(<<o>>, Rank(o), Rank(o), lax, failing)
         /\ \A r : Has(<<o>>, r) <=> r = Rank(o)
<1>1. Rank(o) \in Nat /\ Rank(o) <= Rank(o)
  BY RankNat
<1>2. Rank(o) > 9 => o.op \in TailOps
  BY DEF Rank, TailOps
<1> QED
  BY <1>1, <1>2, OnePart

\* ... or, if it has none and may come last, anywhere.
LEMMA TailPart ==
  ASSUME NEW o \in Ops, NEW lax, NEW failing, NEW lo \in Nat, NEW hi \in Nat,
         Planned(o, lax, failing), Rank(o) = 0, o.op \in TailOps
  PROVE  Part(<<o>>, lo, hi, lax, failing)
  BY OnePart

\* No operation is a part of any place.
LEMMA NoPart ==
  ASSUME NEW lax, NEW failing, NEW lo \in Nat, NEW hi \in Nat
  PROVE  Part(<<>>, lo, hi, lax, failing) /\ \A r : ~Has(<<>>, r)
<1>1. <<>> \in Seq(Ops) /\ DOMAIN <<>> = {}
  OBVIOUS
<1> QED
  BY <1>1 DEF Part, PlannedSeq, Ordered, Has

\* What a part cannot have.
LEMMA PartLacks ==
  ASSUME NEW s, NEW lo \in Nat, NEW hi \in Nat, NEW lax, NEW failing,
         Part(s, lo, hi, lax, failing), NEW r \in Nat \ {0}, r < lo \/ r > hi
  PROVE  ~Has(s, r)
<1> SUFFICES ASSUME NEW k \in DOMAIN s, Rank(s[k]) = r PROVE FALSE
  BY DEF Has
<1>1. r = 0 \/ (lo <= r /\ r <= hi)
  BY DEF Part
<1> QED
  BY <1>1

\* Operations without a rank, wherever they stand before the last ChaosResult.
Quiet(s, lax) == \A lo \in 1 .. 8 : Part(s, lo + 1, lo, lax, No)

\* Quiet parts make a quiet part.
LEMMA QuietJoin ==
  ASSUME NEW lax, NEW s, NEW t, Quiet(s, lax), Quiet(t, lax)
  PROVE  Quiet(s \o t, lax)
<1> SUFFICES ASSUME NEW lo \in 1 .. 8 PROVE Part(s \o t, lo + 1, lo, lax, No)
  BY DEF Quiet
<1>1. Part(s, lo + 1, lo, lax, No) /\ Part(t, lo + 1, lo, lax, No)
  BY DEF Quiet
<1>2. lo \in Nat /\ lo + 1 \in Nat /\ lo + 1 <= lo + 1 /\ lo <= lo
  OBVIOUS
<1> QED
  BY <1>1, <1>2, Join, Zenon

\* An operation without a rank is quiet.
LEMMA QuietOp ==
  ASSUME NEW o \in Ops, NEW lax, Planned(o, lax, No), Rank(o) = 0
  PROVE  Quiet(<<o>>, lax)
<1> SUFFICES ASSUME NEW lo \in 1 .. 8 PROVE Part(<<o>>, lo + 1, lo, lax, No)
  BY DEF Quiet
<1>1. lo + 1 \in Nat /\ lo \in Nat /\ ~(lo + 1 > 9)
  OBVIOUS
<1> QED
  BY <1>1, OnePart

\* The checks, the first event and the events in the chaosengine are quiet.
LEMMA QuietChecks ==
  ASSUME NEW lax
  PROVE  /\ \A h \in {"record", "event", "warn", "complete", "update"} : Quiet(Check(h), lax)
         /\ Quiet(AUT, lax) /\ Quiet(ResultEvent("Awaited"), lax) /\ Quiet(EngineEvent, lax)
<1>1. ASSUME NEW h \in {"record", "event", "warn", "complete", "update"}
      PROVE  Quiet(Check(h), lax)
  <2> DEFINE o == [op |-> "check", arg |-> "", onError |-> h]
  <2>1. o \in Ops /\ Planned(o, lax, No) /\ Rank(o) = 0
    BY DEF Ops, OpNames, Args, Handlers, Planned, Rank, No
  <2>2. Check(h) = <<o>>
    BY DEF Check, Op
  <2> HIDE DEF o
  <2> QED
    BY <2>1, <2>2, QuietOp
<1>2. Quiet(ResultEvent("Awaited"), lax)
  <2> DEFINE o1 == [op |-> "setResultEvent", arg |-> "Awaited", onError |-> "ignore"]
  <2> DEFINE o2 == [op |-> "generateEvents", arg |-> "", onError |-> "ignore"]
  <2>1. o1 \in Ops /\ Planned(o1, lax, No) /\ Rank(o1) = 0
    BY DEF Ops, OpNames, Args, Handlers, Reasons, Planned, Rank, No
  <2>2. o2 \in Ops /\ Planned(o2, lax, No) /\ Rank(o2) = 0
    BY DEF Ops, OpNames, Args, Handlers, Planned, Rank, No
  <2>3. ResultEvent("Awaited") = <<o1>> \o <<o2>>
    BY DEF ResultEvent, Op
  <2> HIDE DEF o1, o2
  <2> QED
    BY <2>1, <2>2, <2>3, QuietOp, QuietJoin
<1>3. Quiet(EngineEvent, lax)
  <2> DEFINE o == [op |-> "setEngineEvent", arg |-> "", onError |-> "ignore"]
  <2>1. o \in Ops /\ Planned(o, lax, No) /\ Rank(o) = 0
    BY DEF Ops, OpNames, Args, Handlers, Planned, Rank, No
  <2>2. EngineEvent = <<o>>
    BY DEF EngineEvent, Op
  <2> HIDE DEF o
  <2> QED
    BY <2>1, <2>2, QuietOp
<1> QED
  BY <1>1, <1>2, <1>3, QuietJoin DEF AUT

\* A part of rank r, which has it if the run belongs to a chaosengine.
Probed(s, r, lax) == Part(s, r, r, lax, No) /\ (HasEngine => Has(s, r))

\* The checks that come after the probes, and before them.
LEMMA ProbedJoin ==
  ASSUME NEW lax, NEW r \in {4, 7}, NEW s, NEW t, Quiet(s, lax), Probed(t, r, lax)
  PROVE  Probed(s \o t, r, lax) /\ Probed(t \o s, r, lax)
<1>1. /\ Part(s, r, r - 1, lax, No) /\ Part(s, r + 1, r, lax, No)
      /\ Part(t, r, r, lax, No)
  <2>1. r - 1 \in 1 .. 8 /\ r \in 1 .. 8 /\ (r - 1) + 1 = r
    OBVIOUS
  <2> QED
    BY <2>1 DEF Quiet, Probed
<1>2. /\ r \in Nat /\ r - 1 \in Nat /\ r + 1 \in Nat /\ (r - 1) + 1 = r
      /\ r <= r /\ r - 1 <= r /\ r <= r + 1
  OBVIOUS
<1>3. Part(s \o t, r, r, lax, No)
  BY <1>1, <1>2, Join, Zenon
<1>4. Part(t \o s, r, r, lax, No)
  BY <1>1, <1>2, Join, Zenon
<1>5. s \in Seq(Ops) /\ t \in Seq(Ops)
  BY <1>1 DEF Part, PlannedSeq
<1> QED
  BY <1>3, <1>4, <1>5, HasJoin DEF Probed

LEMMA ProbesProbed ==
  ASSUME NEW lax
  PROVE  Probed(Probes("PreChaos"), 4, lax) /\ Probed(Probes("PostChaos"), 7, lax)
<1>1. ASSUME NEW ph \in {"PreChaos", "PostChaos"}, NEW r \in {4, 7}, (r = 4) <=> (ph = "PreChaos")
      PROVE  Probed(Probes(ph), r, lax)
  <2>1. CASE ~HasEngine
    <3>1. Probes(ph) = <<>> /\ r \in Nat
      BY <2>1 DEF Probes, IfEngine
    <3> QED
      BY <2>1, <3>1, NoPart DEF Probed
  <2>2. CASE HasEngine
    <3> DEFINE o == [op |-> "probes", arg |-> ph, onError |-> "event"]
    <3>1. o \in Ops /\ Planned(o, lax, No) /\ Rank(o) = r
      BY <1>1 DEF Ops, OpNames, Args, Handlers, Planned, Rank, No
    <3>2. Op("probes", ph, "event") = <<o>>
      BY DEF Op
    <3> HIDE DEF o
    <3>3. /\ Part(Op("probes", ph, "event"), r, r, lax, No)
          /\ Has(Op("probes", ph, "event"), r)
      BY <3>1, <3>2, RankPart
    <3>4. Probed(Op("probes", ph, "event"), r, lax)
      BY <3>3 DEF Probed
    <3> QED
      BY <2>2, <3>4, QuietChecks, ProbedJoin DEF Probes, IfEngine
  <2> QED
    BY <2>1, <2>2
<1> QED
  BY <1>1

\* Two parts, one after the other, and what they have.
LEMMA Grows ==
  ASSUME NEW lax, NEW failing, NEW s, NEW t, NEW lo \in Nat, NEW mid \in Nat,
         NEW next \in Nat, NEW hi \in Nat,
         Part(s, lo, mid, lax, failing), Part(t, next, hi, lax, failing),
         next = mid + 1, lo <= next, mid <= hi
  PROVE  /\ Part(s \o t, lo, hi, lax, failing)
         /\ \A r : Has(s \o t, r) <=> Has(s, r) \/ Has(t, r)
<1>1. s \in Seq(Ops) /\ t \in Seq(Ops)
  BY DEF Part, PlannedSeq
<1> QED
  BY <1>1, Join, HasJoin

\* The operations at the start of a script.
LEMMA StartPart ==
  ASSUME NEW lax \in BOOLEAN, NEW h, h = (IF lax THEN "ignore" ELSE "return")
  PROVE  /\ Part(IfEngine(InitProbes(h)) \o Update("SOT", "record"), 1, 2, lax, No)
         /\ Has(IfEngine(InitProbes(h)) \o Update("SOT", "record"), 2)
         /\ (Has(IfEngine(InitProbes(h)) \o Update("SOT", "record"), 1) <=> HasEngine)
<1> DEFINE o1 == [op |-> "initProbes", arg |-> "", onError |-> h]
<1> DEFINE o2 == [op |-> "update", arg |-> "SOT", onError |-> "record"]
<1>1. o1 \in Ops /\ Planned(o1, lax, No) /\ Rank(o1) = 1
  BY DEF Ops, OpNames, Args, Handlers, Planned, Rank, No
<1>2. o2 \in Ops /\ Planned(o2, lax, No) /\ Rank(o2) = 2
  BY DEF Ops, OpNames, Args, Handlers, Planned, Rank, No
<1>3. InitProbes(h) = <<o1>> /\ Update("SOT", "record") = <<o2>>
  BY DEF InitProbes, Update, Op
<1> HIDE DEF o1, o2
<1>4. Part(InitProbes(h), 1, 1, lax, No) /\ \A r : Has(InitProbes(h), r) <=> r = 1
  BY <1>1, <1>3, RankPart
<1>5. Part(Update("SOT", "record"), 2, 2, lax, No) /\ \A r : Has(Update("SOT", "record"), r) <=> r = 2
  BY <1>2, <1>3, RankPart
<1>6. Part(IfEngine(InitProbes(h)), 1, 1, lax, No) /\ (Has(IfEngine(InitProbes(h)), 1) <=> HasEngine)
  BY <1>4, NoPart DEF IfEngine
<1>7. 2 = 1 + 1 /\ 1 <= 2 /\ 1 \in Nat /\ 2 \in Nat /\ 1 # 2
  OBVIOUS
<1> QED
  BY <1>5, <1>6, <1>7, Grows, Zenon

\* The watcher, the chaos and the verdict.
LEMMA MiddleParts ==
  ASSUME NEW lax, NEW own
  PROVE  /\ \A kind \in {"exit", "stay"} : Part(Watch(kind), 3, 3, lax, No)
         /\ Part(Chaos(own), 5, 5, lax, No) /\ Has(Chaos(own), 5)
         /\ Part(Pass, 6, 6, lax, No) /\ Has(Pass, 6)
<1>1. ASSUME NEW kind \in {"exit", "stay"}
      PROVE  Part(Watch(kind), 3, 3, lax, No)
  <2> DEFINE o == [op |-> "watch", arg |-> kind, onError |-> "ignore"]
  <2>1. o \in Ops /\ Planned(o, lax, No) /\ Rank(o) = 3
    BY DEF Ops, OpNames, Args, Handlers, Planned, Rank, No
  <2>2. Watch(kind) = <<o>>
    BY DEF Watch, Op
  <2> HIDE DEF o
  <2> QED
    BY <2>1, <2>2, RankPart
<1>2. Part(Chaos(own), 5, 5, lax, No) /\ Has(Chaos(own), 5)
  <2> DEFINE o == [op |-> "chaos", arg |-> IF own THEN "exit" ELSE "stay", onError |-> "record"]
  <2>1. o \in Ops /\ Planned(o, lax, No) /\ Rank(o) = 5
    BY DEF Ops, OpNames, Args, Handlers, Planned, Rank, No
  <2>2. Chaos(own) = <<o>>
    BY DEF Chaos, Op
  <2> HIDE DEF o
  <2> QED
    BY <2>1, <2>2, RankPart
<1>3. Part(Pass, 6, 6, lax, No) /\ Has(Pass, 6)
  <2> DEFINE o == [op |-> "pass", arg |-> "", onError |-> "ignore"]
  <2>1. o \in Ops /\ Planned(o, lax, No) /\ Rank(o) = 6
    BY DEF Ops, OpNames, Args, Handlers, Planned, Rank, No
  <2>2. Pass = <<o>>
    BY DEF Pass, Op
  <2> HIDE DEF o
  <2> QED
    BY <2>1, <2>2, RankPart
<1> QED
  BY <1>1, <1>2, <1>3

\* The operations at the end of a script.
LEMMA FinishPart ==
  ASSUME NEW lax \in BOOLEAN, NEW failing \in BOOLEAN
  PROVE  /\ \A h : h = (IF lax \/ failing THEN "ignore" ELSE "return") =>
                Part(Update("EOT", h), 9, 9, lax, failing) /\ Has(Update("EOT", h), 9)
         /\ \A lo, hi \in Nat : /\ Part(IfEngine(EngineEvent), lo, hi, lax, failing)
                                /\ Part(EngineEvent, lo, hi, lax, failing)
         /\ \A reason \in IF failing THEN {"Fail"} ELSE {"byVerdict", "Summary"} :
                Part(ResultEvent(reason), 10, 10, lax, failing)
<1>1. ASSUME NEW h, h = (IF lax \/ failing THEN "ignore" ELSE "return")
      PROVE  Part(Update("EOT", h), 9, 9, lax, failing) /\ Has(Update("EOT", h), 9)
  <2> DEFINE o == [op |-> "update", arg |-> "EOT", onError |-> h]
  <2>1. o \in Ops /\ Planned(o, lax, failing) /\ Rank(o) = 9
    BY <1>1 DEF Ops, OpNames, Args, Handlers, Planned, Rank, No
  <2>2. Update("EOT", h) = <<o>>
    BY DEF Update, Op
  <2> HIDE DEF o
  <2> QED
    BY <2>1, <2>2, RankPart
<1>2. ASSUME NEW lo \in Nat, NEW hi \in Nat
      PROVE  /\ Part(IfEngine(EngineEvent), lo, hi, lax, failing)
             /\ Part(EngineEvent, lo, hi, lax, failing)
  <2> DEFINE o == [op |-> "setEngineEvent", arg |-> "", onError |-> "ignore"]
  <2>1. o \in Ops /\ Planned(o, lax, failing) /\ Rank(o) = 0 /\ o.op \in TailOps
    BY DEF Ops, OpNames, Args, Handlers, Planned, Rank, TailOps
  <2>2. EngineEvent = <<o>>
    BY DEF EngineEvent, Op
  <2> HIDE DEF o
  <2> QED
    BY <2>1, <2>2, TailPart, NoPart DEF IfEngine
<1>3. ASSUME NEW reason \in IF failing THEN {"Fail"} ELSE {"byVerdict", "Summary"}
      PROVE  Part(ResultEvent(reason), 10, 10, lax, failing)
  <2> DEFINE o1 == [op |-> "setResultEvent", arg |-> reason, onError |-> "ignore"]
  <2> DEFINE o2 == [op |-> "generateEvents", arg |-> "", onError |-> "ignore"]
  <2>1. o1 \in Ops /\ Planned(o1, lax, failing) /\ Rank(o1) = 10
    BY DEF Ops, OpNames, Args, Handlers, Reasons, Planned, Rank, No
  <2>2. o2 \in Ops /\ Planned(o2, lax, failing) /\ Rank(o2) = 0 /\ o2.op \in TailOps
    BY DEF Ops, OpNames, Args, Handlers, Planned, Rank, TailOps
  <2>3. ResultEvent(reason) = <<o1>> \o <<o2>>
    BY DEF ResultEvent, Op
  <2> HIDE DEF o1, o2
  <2>4. 10 \in Nat /\ 11 \in Nat /\ 11 = 10 + 1 /\ 10 <= 11 /\ 10 <= 10
    OBVIOUS
  <2>5. Part(<<o1>>, 10, 10, lax, failing) /\ Part(<<o2>>, 11, 10, lax, failing)
    BY <2>1, <2>2, <2>4, RankPart, TailPart
  <2> DEFINE s == <<o1>>
  <2> DEFINE t == <<o2>>
  <2>6. Part(s, 10, 10, lax, failing) /\ Part(t, 11, 10, lax, failing)
    BY <2>5
  <2> HIDE DEF s, t
  <2>7. Part(s \o t, 10, 10, lax, failing)
    BY <2>4, <2>6, Grows
  <2> QED
    BY <2>3, <2>7 DEF s, t
<1> QED
  BY <1>1, <1>2, <1>3

\* What a whole script has.
Scripted(s, lax) ==
  /\ Part(s, 1, 11, lax, No)
  /\ \A r \in {2, 5, 6, 9} : Has(s, r)
  /\ HasEngine => \A r \in {1, 4, 7} : Has(s, r)
  /\ Has(s, 1) => HasEngine

\* The chaos between its checks and probes.
LEMMA BodyPart ==
  ASSUME NEW lax, NEW own, NEW pre, NEW post, Probed(pre, 4, lax), Probed(post, 7, lax)
  PROVE  /\ Part(Body(own, pre, post), 3, 8, lax, No)
         /\ Has(Body(own, pre, post), 5) /\ Has(Body(own, pre, post), 6)
         /\ HasEngine => Has(Body(own, pre, post), 4) /\ Has(Body(own, pre, post), 7)
<1> DEFINE w == Watch(IF own THEN "stay" ELSE "exit")
<1> DEFINE c == Chaos(own)
<1> DEFINE p == Pass
<1>1. Part(w, 3, 3, lax, No)
  BY MiddleParts
<1>2. Part(pre, 4, 4, lax, No) /\ Part(post, 7, 7, lax, No)
  BY DEF Probed
<1>3. Part(c, 5, 5, lax, No) /\ Has(c, 5) /\ Part(p, 6, 6, lax, No) /\ Has(p, 6)
  BY MiddleParts
<1>4. Part(post, 7, 8, lax, No)
  BY <1>2, Widen
<1>5. Body(own, pre, post) = (((w \o pre) \o c) \o p) \o post
  BY DEF Body
<1> HIDE DEF w, c, p
<1> DEFINE s2 == w \o pre
<1>6. Part(s2, 3, 4, lax, No) /\ \A r : Has(s2, r) <=> Has(w, r) \/ Has(pre, r)
  BY <1>1, <1>2, Grows
<1> HIDE DEF s2
<1> DEFINE s3 == s2 \o c
<1>7. Part(s3, 3, 5, lax, No) /\ \A r : Has(s3, r) <=> Has(s2, r) \/ Has(c, r)
  BY <1>3, <1>6, Grows
<1> HIDE DEF s3
<1> DEFINE s4 == s3 \o p
<1>8. Part(s4, 3, 6, lax, No) /\ \A r : Has(s4, r) <=> Has(s3, r) \/ Has(p, r)
  BY <1>3, <1>7, Grows
<1> HIDE DEF s4
<1> DEFINE s5 == s4 \o post
<1>9. Part(s5, 3, 8, lax, No) /\ \A r : Has(s5, r) <=> Has(s4, r) \/ Has(post, r)
  BY <1>4, <1>8, Grows
<1> HIDE DEF s5
<1>10. Body(own, pre, post) = s5
  BY <1>5 DEF s2, s3, s4, s5
<1> QED
  BY <1>3, <1>6, <1>7, <1>8, <1>9, <1>10 DEF Probed

\* A script up to the verdict has its start, the chaos and the probes.
Begun(s, hi, lax) ==
  /\ Part(s, 1, hi, lax, No)
  /\ \A r \in {2, 5, 6} : Has(s, r)
  /\ HasEngine => \A r \in {1, 4, 7} : Has(s, r)
  /\ Has(s, 1) => HasEngine

LEMMA BegunByBody ==
  ASSUME NEW lax, NEW first, NEW body,
         Part(first, 1, 2, lax, No), Has(first, 2), Has(first, 1) <=> HasEngine,
         Part(body, 3, 8, lax, No), Has(body, 5), Has(body, 6),
         HasEngine => Has(body, 4) /\ Has(body, 7)
  PROVE  Begun(first \o body, 8, lax)
<1>1. ~Has(body, 1)
  BY PartLacks
<1> DEFINE s == first \o body
<1>2. Part(s, 1, 8, lax, No) /\ \A r : Has(s, r) <=> Has(first, r) \/ Has(body, r)
  BY Grows
<1> HIDE DEF s
<1>3. Begun(s, 8, lax)
  BY <1>1, <1>2 DEF Begun
<1> QED
  BY <1>3 DEF s

\* With an end it is a whole script.
LEMMA WholeScript ==
  ASSUME NEW lax, NEW s, NEW last, Begun(s, 8, lax), Part(last, 9, 11, lax, No), Has(last, 9)
  PROVE  Scripted(s \o last, lax)
<1>1. ~Has(last, 1)
  BY PartLacks
<1> DEFINE t == s \o last
<1>2. Part(s, 1, 8, lax, No)
  BY DEF Begun
<1>3. Part(t, 1, 11, lax, No) /\ \A r : Has(t, r) <=> Has(s, r) \/ Has(last, r)
  BY <1>2, Grows
<1> HIDE DEF t
<1>4. Scripted(t, lax)
  BY <1>1, <1>3 DEF Scripted, Begun
<1> QED
  BY <1>4 DEF t

LEMMA NoFacts ==
  /\ No \in BOOLEAN /\ "return" = (IF No THEN "ignore" ELSE "return")
  /\ "return" = (IF No \/ No THEN "ignore" ELSE "return")
  /\ "byVerdict" \in IF No THEN {"Fail"} ELSE {"byVerdict", "Summary"}
  /\ "Summary" \in IF No THEN {"Fail"} ELSE {"byVerdict", "Summary"}
  /\ 9 \in Nat /\ 10 \in Nat /\ 11 \in Nat
  BY DEF No

LEMMA StartOK ==
  /\ Part(Start, 1, 2, No, No) /\ Has(Start, 2) /\ (Has(Start, 1) <=> HasEngine)
<1> DEFINE a == IfEngine(InitProbes("return")) \o Update("SOT", "record")
<1>1. Part(a, 1, 2, No, No) /\ Has(a, 2) /\ (Has(a, 1) <=> HasEngine)
  BY NoFacts, StartPart, Zenon
<1> DEFINE e == ResultEvent("Awaited")
<1>2. Part(e, 3, 2, No, No)
  BY QuietChecks DEF Quiet
<1>3. ~Has(e, 1)
  BY <1>2, PartLacks
<1>4. Start = a \o e
  BY DEF Start
<1> HIDE DEF a, e
<1>5. Part(a \o e, 1, 2, No, No) /\ \A r : Has(a \o e, r) <=> Has(a, r) \/ Has(e, r)
  BY <1>1, <1>2, Grows
<1> QED
  BY <1>1, <1>3, <1>4, <1>5, Zenon

LEMMA FinishOK ==
  Part(Finish, 9, 11, No, No) /\ Has(Finish, 9)
<1> DEFINE u == Update("EOT", "return")
<1> DEFINE e == ResultEvent("byVerdict")
<1> DEFINE n == IfEngine(EngineEvent)
<1>1. /\ Part(u, 9, 9, No, No) /\ Has(u, 9) /\ Part(e, 10, 10, No, No)
      /\ Part(n, 11, 11, No, No)
  BY NoFacts, FinishPart, Zenon
<1>2. Finish = (u \o e) \o n
  BY DEF Finish
<1> HIDE DEF u, e, n
<1> DEFINE s == u \o e
<1>3. Part(s, 9, 10, No, No) /\ Has(s, 9)
  BY <1>1, Grows
<1> HIDE DEF s
<1>4. Part(s \o n, 9, 11, No, No) /\ Has(s \o n, 9)
  BY <1>1, <1>3, Grows
<1> QED
  BY <1>2, <1>4 DEF s

\* The scripts with a start, a body and an end of the usual kind.
LEMMA ScriptOK ==
  ASSUME NEW own, NEW pre, NEW post, Probed(pre, 4, No), Probed(post, 7, No)
  PROVE  Scripted(Script(own, pre, post), No)
<1>1. Script(own, pre, post) = Start \o Body(own, pre, post) \o Finish
  BY DEF Script
<1> QED
  BY <1>1, StartOK, FinishOK, BodyPart, BegunByBody, WholeScript, Zenon

\* The checks and probes of the scripts.
LEMMA CheckedProbes ==
  ASSUME NEW lax, NEW r \in {4, 7}, NEW ph, ph = (IF r = 4 THEN "PreChaos" ELSE "PostChaos")
  PROVE  \A h1, h2, h3 \in {"record", "event", "warn", "complete", "update"} :
           /\ Probed(Check(h1) \o Probes(ph), r, lax)
           /\ Probed(Check(h1) \o Check(h2) \o Probes(ph), r, lax)
           /\ Probed(AUT \o Probes(ph), r, lax)
           /\ Probed(AUT \o Check(h1) \o Probes(ph), r, lax)
           /\ Probed(AUT \o Check(h1) \o Check(h2) \o Probes(ph), r, lax)
           /\ Probed(Check(h1) \o AUT \o Probes(ph), r, lax)
           /\ Probed(Check(h1) \o Check(h2) \o AUT \o Probes(ph), r, lax)
<1> SUFFICES ASSUME NEW h1 \in {"record", "event", "warn", "complete", "update"},
                    NEW h2 \in {"record", "event", "warn", "complete", "update"}
             PROVE  /\ Probed(Check(h1) \o Probes(ph), r, lax)
                    /\ Probed(Check(h1) \o Check(h2) \o Probes(ph), r, lax)
                    /\ Probed(AUT \o Probes(ph), r, lax)
                    /\ Probed(AUT \o Check(h1) \o Probes(ph), r, lax)
                    /\ Probed(AUT \o Check(h1) \o Check(h2) \o Probes(ph), r, lax)
                    /\ Probed(Check(h1) \o AUT \o Probes(ph), r, lax)
                    /\ Probed(Check(h1) \o Check(h2) \o AUT \o Probes(ph), r, lax)
  OBVIOUS
<1>1. Probed(Probes(ph), r, lax)
  BY ProbesProbed
<1>2. Quiet(Check(h1), lax) /\ Quiet(Check(h2), lax) /\ Quiet(AUT, lax)
  BY QuietChecks
<1>3. /\ Quiet(Check(h1) \o Check(h2), lax) /\ Quiet(AUT \o Check(h1), lax)
      /\ Quiet(Check(h1) \o AUT, lax)
  BY <1>2, QuietJoin
<1>4. Quiet(AUT \o Check(h1) \o Check(h2), lax) /\ Quiet(Check(h1) \o Check(h2) \o AUT, lax)
  BY <1>2, <1>3, QuietJoin
<1> QED
  BY <1>1, <1>2, <1>3, <1>4, ProbedJoin

LEMMA Associative ==
  ASSUME NEW a \in Seq(Ops), NEW b \in Seq(Ops), NEW c \in Seq(Ops)
  PROVE  (a \o b) \o c = a \o (b \o c)
  BY ConcatAssociative

\* An end in three parts.
LEMMA LastPart ==
  ASSUME NEW lax, NEW u, NEW z, Part(u, 9, 9, lax, No), Has(u, 9), Part(z, 10, 11, lax, No)
  PROVE  Part(u \o z, 9, 11, lax, No) /\ Has(u \o z, 9)
  BY Grows

LEMMA LastInThree ==
  ASSUME NEW lax, NEW s, NEW u, NEW x \in Seq(Ops), NEW y \in Seq(Ops), Begun(s, 8, lax),
         Part(u, 9, 9, lax, No), Has(u, 9), Part(x \o y, 10, 11, lax, No)
  PROVE  Scripted(s \o u \o x \o y, lax)
<1>1. s \in Seq(Ops) /\ u \in Seq(Ops)
  BY DEF Part, PlannedSeq, Begun
<1> DEFINE xy == x \o y
<1>2. xy \in Seq(Ops)
  BY DEF Part, PlannedSeq
<1>3. s \o u \in Seq(Ops)
  BY <1>1, ConcatProperties
<1>4. Part(xy, 10, 11, lax, No)
  OBVIOUS
<1>5. ((s \o u) \o x) \o y = (s \o u) \o xy
  BY <1>3, Associative, Zenon
<1> HIDE DEF xy
<1> DEFINE last == u \o xy
<1>6. Part(last, 9, 11, lax, No) /\ Has(last, 9)
  BY <1>4, LastPart, Zenon
<1>7. (s \o u) \o xy = s \o last
  BY <1>1, <1>2, Associative, Zenon
<1> HIDE DEF last
<1>8. Scripted(s \o last, lax)
  BY <1>6, WholeScript
<1> QED
  BY <1>5, <1>7, <1>8

\* What goes on after the start.
LEMMA GoesOn ==
  ASSUME NEW lax, NEW s, NEW t, NEW mid \in Nat, NEW next \in Nat, NEW hi \in Nat,
         Part(s, 1, mid, lax, No), Part(t, next, hi, lax, No),
         next = mid + 1, 2 <= next, mid <= hi
  PROVE  /\ Part(s \o t, 1, hi, lax, No)
         /\ Has(s \o t, 1) <=> Has(s, 1)
         /\ \A r : Has(s, r) \/ Has(t, r) => Has(s \o t, r)
<1>1. ~Has(t, 1)
  BY PartLacks
<1>2. Part(s \o t, 1, hi, lax, No) /\ \A r : Has(s \o t, r) <=> Has(s, r) \/ Has(t, r)
  BY Grows
<1> QED
  BY <1>1, <1>2, Zenon

\* Every script but that of azure-instance-stop, ...
LEMMA ScriptsOfMain ==
  ASSUME NEW s \in Main, s # <<>>, s # AzureInstanceStop
  PROVE  Scripted(s, No)
<1>1. /\ 4 \in {4, 7} /\ 7 \in {4, 7}
      /\ "PreChaos" = (IF 4 = 4 THEN "PreChaos" ELSE "PostChaos")
      /\ "PostChaos" = (IF 7 = 4 THEN "PreChaos" ELSE "PostChaos")
  OBVIOUS
<1> DEFINE H == {"record", "event", "warn", "complete", "update"}
<1>2. \A h \in H : Quiet(Check(h), No)
  BY QuietChecks
<1>3. Quiet(AUT, No) /\ Quiet(Check("record"), No)
  BY QuietChecks
<1>4. ASSUME NEW own PROVE Scripted(PodScript(own), No)
  <2>1. /\ Probed(Check("event") \o Probes("PreChaos"), 4, No)
        /\ Probed(Check("event") \o Probes("PostChaos"), 7, No)
    BY <1>1, CheckedProbes
  <2> QED
    BY <2>1, ScriptOK DEF PodScript
<1>5. ASSUME NEW own PROVE Scripted(NodeScript(own), No)
  <2>1. /\ Probed(NodeChecks, 4, No) /\ Probed(NodeWarnings, 7, No)
    BY <1>1, CheckedProbes DEF NodeChecks, NodeWarnings
  <2> QED
    BY <2>1, ScriptOK DEF NodeScript
<1>6. Scripted(DiskFill, No)
  <2>1. /\ Probed(Check("event") \o Check("record") \o Probes("PreChaos"), 4, No)
        /\ Probed(Check("event") \o Check("record") \o Probes("PostChaos"), 7, No)
    BY <1>1, CheckedProbes
  <2> QED
    BY <2>1, ScriptOK DEF DiskFill
<1>7. Scripted(PodAutoscaler, No)
  <2>1. /\ Probed(Check("complete") \o Probes("PreChaos"), 4, No)
        /\ Probed(Check("update") \o Probes("PostChaos"), 7, No)
    BY <1>1, CheckedProbes
  <2> QED
    BY <2>1, ScriptOK DEF PodAutoscaler
<1>8. Scripted(RedfishNodeRestart, No)
  <2>1. /\ Probed(AUT \o Check("record") \o Check("record") \o Probes("PreChaos"), 4, No)
        /\ Probed(AUT \o Check("record") \o Check("record") \o Probes("PostChaos"), 7, No)
    BY <1>1, CheckedProbes
  <2> QED
    BY <2>1, ScriptOK DEF RedfishNodeRestart
<1>9. Scripted(CasssandraPodDelete, No)
  <2>1. /\ Probed(Check("event") \o Check("record") \o Probes("PreChaos"), 4, No)
        /\ Probed(Check("event") \o Check("record") \o Probes("PostChaos"), 7, No)
    BY <1>1, CheckedProbes
  <2>2. /\ Probed(Check("event") \o Check("record") \o Probes("PreChaos") \o Check("record"), 4, No)
        /\ Probed(Check("event") \o Check("record") \o Probes("PostChaos") \o Check("record"), 7, No)
    BY <1>1, <1>3, <2>1, ProbedJoin
  <2>3. Probed(Check("event") \o Check("record") \o Probes("PostChaos") \o Check("record")
                 \o Check("record"), 7, No)
    BY <1>1, <1>3, <2>2, ProbedJoin
  <2> QED
    BY <2>2, <2>3, ScriptOK DEF CasssandraPodDelete
<1>10. Scripted(AWSSSMChaosByID, No)
  <2>1. /\ Probed(AUT \o Probes("PreChaos"), 4, No)
        /\ Probed(Check("record") \o AUT \o Probes("PostChaos"), 7, No)
    BY <1>1, CheckedProbes
  <2>2. Probed(AUT \o Probes("PreChaos") \o Check("record"), 4, No)
    BY <1>1, <1>3, <2>1, ProbedJoin
  <2>3. Probed(AUT \o Probes("PreChaos") \o Check("record") \o Check("record"), 4, No)
    BY <1>1, <1>3, <2>2, ProbedJoin
  <2> QED
    BY <2>1, <2>3, ScriptOK DEF AWSSSMChaosByID
<1>11. Scripted(AWSSSMChaosByTag, No)
  <2>1. /\ Probed(AUT \o Check("record") \o Probes("PreChaos"), 4, No)
        /\ Probed(Check("record") \o AUT \o Probes("PostChaos"), 7, No)
    BY <1>1, CheckedProbes
  <2> QED
    BY <2>1, ScriptOK DEF AWSSSMChaosByTag
<1>12. Scripted(EC2TerminateByID, No)
  <2>1. /\ Probed(Check("record") \o AUT \o Probes("PreChaos"), 4, No)
        /\ Probed(Check("record") \o Check("record") \o AUT \o Probes("PostChaos"), 7, No)
    BY <1>1, CheckedProbes
  <2>2. Probed(Check("record") \o AUT \o Probes("PreChaos") \o Check("record"), 4, No)
    BY <1>1, <1>3, <2>1, ProbedJoin
  <2> QED
    BY <2>1, <2>2, ScriptOK DEF EC2TerminateByID
<1>13. Scripted(EBSLossByID, No)
  <2>1. /\ Probed(Check("record") \o Probes("PreChaos"), 4, No)
        /\ Probed(AUT \o Check("record") \o Probes("PostChaos"), 7, No)
    BY <1>1, CheckedProbes
  <2>2. Probed(Check("record") \o Probes("PreChaos") \o AUT, 4, No)
    BY <1>1, <1>3, <2>1, ProbedJoin
  <2> QED
    BY <2>1, <2>2, ScriptOK DEF EBSLossByID
<1>14. Scripted(EBSLossByTag, No)
  <2>1. /\ Probed(AUT \o Probes("PreChaos"), 4, No)
        /\ Probed(AUT \o Check("record") \o Probes("PostChaos"), 7, No)
    BY <1>1, CheckedProbes
  <2>2. Probed(AUT \o Probes("PreChaos") \o Check("record"), 4, No)
    BY <1>1, <1>3, <2>1, ProbedJoin
  <2> QED
    BY <2>1, <2>2, ScriptOK DEF EBSLossByTag
<1>15. Scripted(AzureDiskLoss, No)
  <2>1. /\ Probed(AUT \o Check("record") \o Check("record") \o Probes("PreChaos"), 4, No)
        /\ Probed(AUT \o Check("record") \o Probes("PostChaos"), 7, No)
    BY <1>1, CheckedProbes
  <2> QED
    BY <2>1, ScriptOK DEF AzureDiskLoss
<1>16. Scripted(NodeRestart, No)
  <2> DEFINE a == IfEngine(InitProbes("return")) \o Update("SOT", "record")
  <2> DEFINE b == Body(FALSE, NodeChecks, NodeWarnings)
  <2> DEFINE u == Update("EOT", "return")
  <2> DEFINE n == IfEngine(EngineEvent)
  <2> DEFINE e == ResultEvent("Summary")
  <2>1. Part(a, 1, 2, No, No) /\ Has(a, 2) /\ (Has(a, 1) <=> HasEngine)
    BY NoFacts, StartPart, Zenon
  <2>2. /\ Part(b, 3, 8, No, No) /\ Has(b, 5) /\ Has(b, 6)
        /\ HasEngine => Has(b, 4) /\ Has(b, 7)
    <3>1. /\ Probed(NodeChecks, 4, No) /\ Probed(NodeWarnings, 7, No)
      BY <1>1, CheckedProbes DEF NodeChecks, NodeWarnings
    <3> QED
      BY <3>1, BodyPart, Zenon
  <2>3. /\ Part(u, 9, 9, No, No) /\ Has(u, 9) /\ Part(n, 10, 9, No, No) /\ Part(e, 10, 10, No, No)
    BY NoFacts, FinishPart, Zenon
  <2>4. Part(e, 10, 11, No, No)
    BY <2>3, Widen
  <2>5. NodeRestart = ((((a \o b) \o u) \o n) \o e)
    BY DEF NodeRestart
  <2> HIDE DEF a, b, u, n, e
  <2>6. Begun(a \o b, 8, No)
    BY <2>1, <2>2, BegunByBody, Zenon
  <2>7. Part(n \o e, 10, 11, No, No)
    BY <2>3, <2>4, Grows
  <2>8. n \in Seq(Ops) /\ e \in Seq(Ops)
    BY <2>3 DEF Part, PlannedSeq
  <2> QED
    BY <2>3, <2>5, <2>6, <2>7, <2>8, LastInThree
<1>17. Scripted(KafkaBrokerPodFailure, No)
  <2> DEFINE c == Check("record")
  <2> DEFINE e == Check("event")
  <2> DEFINE p == Probes("PreChaos")
  <2> DEFINE q == Probes("PostChaos")
  <2> DEFINE x == Chaos(FALSE)
  <2>1. Quiet(c, No) /\ Quiet(e, No)
    BY <1>2
  <2>2. \A t \in {c, e} : /\ Part(t, 3, 2, No, No) /\ Part(t, 5, 4, No, No)
                          /\ Part(t, 7, 6, No, No) /\ Part(t, 8, 7, No, No)
    BY <2>1 DEF Quiet
  <2>3. /\ Part(p, 4, 4, No, No) /\ (HasEngine => Has(p, 4))
        /\ Part(q, 7, 7, No, No) /\ (HasEngine => Has(q, 7))
    BY ProbesProbed DEF Probed
  <2>4. Part(p, 3, 4, No, No) /\ Part(q, 7, 8, No, No)
    BY <2>3, Widen
  <2>5. Part(x, 5, 5, No, No) /\ Has(x, 5) /\ Part(Pass, 6, 6, No, No) /\ Has(Pass, 6)
    BY MiddleParts
  <2>6. KafkaBrokerPodFailure
          = Start \o e \o p \o c \o x \o Pass \o e \o q \o c \o c \o Finish
    BY DEF KafkaBrokerPodFailure
  <2> HIDE DEF c, e, p, q, x
  <2> DEFINE a1 == Start \o e
  <2> DEFINE a2 == a1 \o p
  <2> DEFINE a3 == a2 \o c
  <2> DEFINE a4 == a3 \o x
  <2> DEFINE a5 == a4 \o Pass
  <2> DEFINE a6 == a5 \o e
  <2> DEFINE a7 == a6 \o q
  <2> DEFINE a8 == a7 \o c
  <2> DEFINE a9 == a8 \o c
  <2>7. Part(a1, 1, 2, No, No) /\ Has(a1, 2) /\ (Has(a1, 1) <=> HasEngine)
    BY <2>2, StartOK, GoesOn
  <2> HIDE DEF a1
  <2>8. /\ Part(a2, 1, 4, No, No) /\ Has(a2, 2) /\ (Has(a2, 1) <=> Has(a1, 1))
        /\ HasEngine => Has(a2, 4)
    BY <2>3, <2>4, <2>7, GoesOn
  <2> HIDE DEF a2
  <2>9. /\ Part(a3, 1, 4, No, No) /\ (Has(a3, 1) <=> Has(a2, 1))
        /\ \A r : Has(a2, r) => Has(a3, r)
    BY <2>2, <2>8, GoesOn
  <2> HIDE DEF a3
  <2>10. /\ Part(a4, 1, 5, No, No) /\ (Has(a4, 1) <=> Has(a3, 1)) /\ Has(a4, 5)
         /\ \A r : Has(a3, r) => Has(a4, r)
    BY <2>5, <2>9, GoesOn
  <2> HIDE DEF a4
  <2>11. /\ Part(a5, 1, 6, No, No) /\ (Has(a5, 1) <=> Has(a4, 1)) /\ Has(a5, 6)
         /\ \A r : Has(a4, r) => Has(a5, r)
    BY <2>5, <2>10, GoesOn
  <2> HIDE DEF a5
  <2>12. /\ Part(a6, 1, 6, No, No) /\ (Has(a6, 1) <=> Has(a5, 1))
         /\ \A r : Has(a5, r) => Has(a6, r)
    BY <2>2, <2>11, GoesOn
  <2> HIDE DEF a6
  <2>13. /\ Part(a7, 1, 7, No, No) /\ (Has(a7, 1) <=> Has(a6, 1)) /\ (HasEngine => Has(a7, 7))
         /\ \A r : Has(a6, r) => Has(a7, r)
    BY <2>3, <2>12, GoesOn
  <2> HIDE DEF a7
  <2>14. /\ Part(a8, 1, 7, No, No) /\ (Has(a8, 1) <=> Has(a7, 1))
         /\ \A r : Has(a7, r) => Has(a8, r)
    BY <2>2, <2>13, GoesOn
  <2> HIDE DEF a8
  <2>15. /\ Part(a9, 1, 7, No, No) /\ (Has(a9, 1) <=> Has(a8, 1))
         /\ \A r : Has(a8, r) => Has(a9, r)
    BY <2>2, <2>14, GoesOn
  <2> HIDE DEF a9
  <2>16. Part(a9, 1, 8, No, No)
    BY <2>15, Widen
  <2>17. Begun(a9, 8, No)
    BY <2>7, <2>8, <2>9, <2>10, <2>11, <2>12, <2>13, <2>14, <2>15, <2>16 DEF Begun
  <2>18. KafkaBrokerPodFailure = a9 \o Finish
    BY <2>6 DEF a1, a2, a3, a4, a5, a6, a7, a8, a9
  <2> QED
    BY <2>17, <2>18, FinishOK, WholeScript
<1> HIDE DEF H
<1>18. \/ \E own \in BOOLEAN : s = PodScript(own) \/ s = NodeScript(own)
       \/ s \in {DiskFill, PodAutoscaler, RedfishNodeRestart, CasssandraPodDelete, AWSSSMChaosByID,
                 AWSSSMChaosByTag, EC2TerminateByID, EBSLossByID, EBSLossByTag, AzureDiskLoss,
                 NodeRestart, KafkaBrokerPodFailure}
  BY Zenon DEF Main, ContainerKill, PodCPUHog, PodDelete, PodDNSError, PodDNSSpoof, PodIOStress,
     PodMemoryHog, PodNetworkCorruption, PodNetworkDuplication, PodNetworkLatency,
     PodNetworkLoss, PodCPUHogExec, PodFioStress, PodMemoryHogExec, PodNetworkPartition,
     DockerServiceKill, KubeletServiceKill, NodeCPUHog, NodeIOStress, NodeMemoryHog, NodeDrain,
     NodeTaint, EC2TerminateByTag, VMInstanceStop, VMDiskLoss, VMPoweroff
<1> QED
  BY <1>4, <1>5, <1>6, <1>7, <1>8, <1>9, <1>10, <1>11, <1>12, <1>13, <1>14, <1>15, <1>16,
     <1>17, <1>18, Zenon

\* ... which goes on after an error at its start and at its end.
Yes == TRUE

LEMMA AzureScript == Scripted(AzureInstanceStop, Yes)
<1> DEFINE a == IfEngine(InitProbes("ignore")) \o Update("SOT", "record")
<1> DEFINE pre == AUT \o Check("record") \o ResultEvent("Awaited") \o Probes("PreChaos")
                    \o Check("record")
<1> DEFINE post == Check("record") \o AUT \o Probes("PostChaos")
<1> DEFINE b == Body(TRUE, pre, post)
<1> DEFINE u == Update("EOT", "ignore")
<1> DEFINE e == ResultEvent("byVerdict")
<1> DEFINE n == IfEngine(EngineEvent)
<1>0. /\ Yes \in BOOLEAN /\ No \in BOOLEAN /\ "ignore" = (IF Yes THEN "ignore" ELSE "return")
      /\ "ignore" = (IF Yes \/ No THEN "ignore" ELSE "return")
  BY DEF Yes, No
<1>1. Part(a, 1, 2, Yes, No) /\ Has(a, 2) /\ (Has(a, 1) <=> HasEngine)
  BY <1>0, StartPart, Zenon
<1>2. Probed(pre, 4, Yes)
  <2>1. /\ Quiet(AUT, Yes) /\ Quiet(Check("record"), Yes) /\ Quiet(ResultEvent("Awaited"), Yes)
        /\ Probed(Probes("PreChaos"), 4, Yes) /\ 4 \in {4, 7}
    BY QuietChecks, ProbesProbed
  <2>2. Quiet(AUT \o Check("record"), Yes)
    BY <2>1, QuietJoin
  <2>3. Quiet(AUT \o Check("record") \o ResultEvent("Awaited"), Yes)
    BY <2>1, <2>2, QuietJoin
  <2>4. Probed(AUT \o Check("record") \o ResultEvent("Awaited") \o Probes("PreChaos"), 4, Yes)
    BY <2>1, <2>3, ProbedJoin
  <2> QED
    BY <2>1, <2>4, ProbedJoin
<1>3. Probed(post, 7, Yes)
  <2>1. 7 \in {4, 7} /\ "PostChaos" = (IF 7 = 4 THEN "PreChaos" ELSE "PostChaos")
    OBVIOUS
  <2> QED
    BY <2>1, CheckedProbes
<1>4. /\ Part(b, 3, 8, Yes, No) /\ Has(b, 5) /\ Has(b, 6)
      /\ HasEngine => Has(b, 4) /\ Has(b, 7)
  <2> HIDE DEF pre, post
  <2> QED
    BY <1>2, <1>3, BodyPart, Zenon
<1>5. /\ Part(u, 9, 9, Yes, No) /\ Has(u, 9) /\ Part(e, 10, 10, Yes, No) /\ Part(n, 11, 11, Yes, No)
  BY <1>0, NoFacts, FinishPart, Zenon
<1>6. AzureInstanceStop = ((((a \o b) \o u) \o e) \o n)
  BY DEF AzureInstanceStop
<1> HIDE DEF a, b, u, e, n
<1>7. Begun(a \o b, 8, Yes)
  BY <1>1, <1>4, BegunByBody, Zenon
<1>8. Part(e \o n, 10, 11, Yes, No)
  BY <1>5, Grows
<1>9. n \in Seq(Ops) /\ e \in Seq(Ops)
  BY <1>5 DEF Part, PlannedSeq
<1> QED
  BY <1>5, <1>6, <1>7, <1>8, <1>9, LastInThree

----------------------------------------------------------------------------
(* The types of ChaosResult and of Probe.  They are proved again here,     *)
(* because a theorem of ChaosResultProofs or ProbeProofs cannot be cited   *)
(* of the instances R and P.                                               *)

\* Replacing every awaited status keeps the details well typed
\* (R!SetProbeVerdictAfterFailure).
LEMMA AfterFailureTypeOK ==
  ASSUME NEW details \in [DOMAIN probes -> R!ProbeDetails]
  PROVE  R!SetProbeVerdictAfterFailure(details) \in [DOMAIN probes -> R!ProbeDetails]
  BY DEF R!SetProbeVerdictAfterFailure, R!ProbeDetails, R!Statuses

\* InitializeProbesInChaosResultDetails yields well typed details.
LEMMA InitialDetailsTypeOK ==
  ASSUME NEW list \in Seq(R!ProbeAttributes)
  PROVE  R!InitialProbeDetails(list) \in [DOMAIN list -> R!ProbeDetails]
  BY DEF R!InitialProbeDetails, R!SetProbeInitialStatus, R!ProbeDetails, R!ProbePhases,
         R!Statuses, R!Errors

\* The status map that a write sends is well typed.
LEMMA ProbeStatusTypeOK ==
  ASSUME R!DetailsTypeOK
  PROVE  R!ProbeStatusNow \in [DOMAIN probes -> [R!StatusKeys -> R!Statuses]]
  BY DEF R!ProbeStatusNow, R!DetailsTypeOK, R!ProbeDetails

\* A resource that does not exist is a well typed one.
LEMMA NoResultTypeOK == R!NoResult \in R!Results
  BY DEF R!NoResult, R!Results, R!ResultPhases, R!Verdicts, R!AwaitedScore

\* A call that has returned is well typed.
LEMMA IdleTypeOK ==
  ASSUME NEW ret \in R!Errors
  PROVE  R!IdleCall(ret) \in R!Calls
  BY NoResultTypeOK DEF R!IdleCall, R!Calls, R!CallPCs

\* The probe score is an integer: it divides by the number of probes only
\* where there are some (R!PatchChaosResult).
LEMMA ScoreTypeOK ==
  ASSUME R!DetailsTypeOK
  PROVE  R!ProbeScore \in Int
<1>1. Len(probes) \in Nat
  BY ProbeListsAssumption DEF R!DetailsTypeOK
<1>2. CASE Len(probes) = 0
  BY <1>2 DEF R!ProbeScore
<1>3. CASE Len(probes) # 0
  BY <1>1, <1>3 DEF R!ProbeScore, R!DetailsTypeOK
<1> QED
  BY <1>2, <1>3

\* What the annotations report is a set of targets with a status.
LEMMA ReportsTypeOK ==
  ASSUME NEW r \in R!Results
  PROVE  R!Reports(r) \subseteq Target \X ChaosStatus
  BY DEF R!Reports, R!Results

\* A resource with another score is still one.
LEMMA RescoredTypeOK ==
  ASSUME NEW r \in R!Results, NEW score \in Int
  PROVE  [r EXCEPT !.score = score] \in R!Results
  BY DEF R!Results

\* A step of a call keeps the types of the resource and of the calls.
LEMMA ResultStepTypeOK ==
  ASSUME R!TypeOK, NEW t \in Thread,
         R!ChaosResultStep(t) \/ \E s \in {"SOT", "EOT"} : R!CallChaosResult(t, s)
  PROVE  R!TypeOK'
<1> USE DEF R!TypeOK
<1>0. /\ R!Nil \in R!Errors /\ R!Err \in R!Errors
      /\ R!IdleCall(R!Nil) \in R!Calls /\ R!IdleCall(R!Err) \in R!Calls
  BY IdleTypeOK DEF R!Errors
<1>1. ASSUME NEW s \in {"SOT", "EOT"}, R!CallChaosResult(t, s)
      PROVE  R!TypeOK'
  <2>1. [R!IdleCall(R!Nil) EXCEPT !.pc = "get", !.state = s] \in R!Calls
    BY <1>0 DEF R!Calls, R!CallPCs
  <2> QED
    BY <1>1, <2>1 DEF R!CallChaosResult, R!detailVars, R!DetailsTypeOK
<1>2. ASSUME R!GetResult(t)
      PROVE  R!TypeOK'
  <2>1. [call[t] EXCEPT !.pc = "labels", !.res = cr] \in R!Calls
    BY DEF R!Calls, R!CallPCs
  <2> QED
    BY <1>0, <1>2, <2>1 DEF R!GetResult, R!Return, R!detailVars, R!DetailsTypeOK
<1>3. ASSUME R!FetchLabels(t)
      PROVE  R!TypeOK'
  <2>1. \A pc \in R!CallPCs : [call[t] EXCEPT !.pc = pc] \in R!Calls
    BY DEF R!Calls
  <2>2. call' \in [Thread -> R!Calls]
    BY <1>0, <1>3, <2>1 DEF R!FetchLabels, R!Return, R!Step, R!CallPCs
  <2> QED
    BY <1>3, <2>2 DEF R!FetchLabels, R!DetailsTypeOK, R!ResultPhases
<1>4. ASSUME R!CreateResult(t)
      PROVE  R!TypeOK'
  <2>1. [call[t] EXCEPT !.pc = "reget"] \in R!Calls
    BY DEF R!Calls, R!CallPCs
  <2>2. call' \in [Thread -> R!Calls]
    BY <1>0, <1>4, <2>1 DEF R!CreateResult, R!Return, R!Step
  <2>3. cr.rv + 1 \in Nat
    BY DEF R!Results
  <2>4. [R!NoResult EXCEPT !.exists = TRUE, !.rv = cr.rv + 1, !.phase = phase,
                         !.verdict = verdict] \in R!Results
    BY <2>3, NoResultTypeOK DEF R!Results, R!DetailsTypeOK
  <2> QED
    BY <1>4, <2>2, <2>4, ProbeStatusTypeOK DEF R!CreateResult, R!detailVars, R!DetailsTypeOK
<1>5. ASSUME R!RegetResult(t)
      PROVE  R!TypeOK'
  <2>1. [call[t] EXCEPT !.pc = "status", !.res = cr] \in R!Calls
    BY DEF R!Calls, R!CallPCs
  <2> QED
    BY <1>0, <1>5, <2>1 DEF R!RegetResult, R!Return, R!detailVars, R!DetailsTypeOK
<1>6. ASSUME R!GetChaosStatus(t)
      PROVE  R!TypeOK'
  <2>1. [call[t] EXCEPT !.pc = "fill"] \in R!Calls
    BY DEF R!Calls, R!CallPCs
  <2>2. call' \in [Thread -> R!Calls]
    BY <1>0, <1>6, <2>1 DEF R!GetChaosStatus, R!Return, R!Step
  <2>3. targets' \subseteq Target \X ChaosStatus
    BY <1>6, ReportsTypeOK DEF R!GetChaosStatus
  <2> QED
    BY <1>6, <2>2, <2>3 DEF R!GetChaosStatus, R!detailVars, R!DetailsTypeOK
<1>7. ASSUME R!FillResult(t)
      PROVE  R!TypeOK'
  <2>1. R!Filled(call[t].res) \in R!Results
    BY DEF R!Filled, R!Calls, R!Results, R!DetailsTypeOK
  <2>2. [call[t] EXCEPT !.pc = "score", !.res = R!Filled(call[t].res),
                        !.allPassed = R!GetProbeStatus] \in R!Calls
    BY <2>1 DEF R!Calls, R!CallPCs, R!GetProbeStatus
  <2> QED
    BY <1>7, <2>2 DEF R!FillResult, R!detailVars, R!DetailsTypeOK
<1>8. ASSUME R!ScoreResult(t)
      PROVE  R!TypeOK'
  <2> DEFINE c == call[t]
  <2>1. c \in R!Calls /\ c.res \in R!Results
    BY DEF R!Calls
  <2>2. R!Judged(c) \in R!Verdicts
    BY DEF R!Judged, R!Verdicts, R!DetailsTypeOK
  <2>3. R!Scored(c) \in R!Results
    <3> DEFINE v == IF c.allPassed THEN c.res.verdict ELSE "Fail"
    <3> DEFINE s == CASE R!Judged(c) = "Pass" -> 100
                      [] R!Judged(c) \in {"Fail", "Stopped"} -> R!ProbeScore
                      [] OTHER -> c.res.score
    <3> DEFINE r == [o \in R!Outcome |-> IF o = R!Judged(c) THEN c.res.runs[o] + 1
                                       ELSE c.res.runs[o]]
    <3>1. v \in R!Verdicts
      BY <2>1 DEF R!Results, R!Verdicts
    <3>2. s \in Int
      BY <2>1, ScoreTypeOK DEF R!Results
    <3>3. r \in [R!Outcome -> Nat]
      BY <2>1 DEF R!Results
    <3>4. R!Scored(c) = [c.res EXCEPT !.verdict = v, !.score = s, !.runs = r]
      BY DEF R!Scored
    <3> HIDE DEF v, s, r
    <3> QED
      BY <2>1, <3>1, <3>2, <3>3, <3>4 DEF R!Results
  <2>4. [c EXCEPT !.pc = "update", !.res = R!Scored(c)] \in R!Calls
    BY <2>1, <2>3 DEF R!Calls, R!CallPCs
  <2>5. [c.res EXCEPT !.score = R!AwaitedScore] \in R!Results
    <3>1. R!AwaitedScore \in Int
      BY DEF R!AwaitedScore
    <3> HIDE DEF c
    <3> QED
      BY <2>1, <3>1, RescoredTypeOK
  <2>6. [c EXCEPT !.pc = "update", !.res.score = R!AwaitedScore] \in R!Calls
    BY <2>1, <2>5 DEF R!Calls, R!CallPCs
  <2>7. call' \in [Thread -> R!Calls]
    BY <1>8, <2>4, <2>6 DEF R!ScoreResult
  <2>8. R!DetailsTypeOK'
    BY <1>8, <2>2, AfterFailureTypeOK DEF R!ScoreResult, R!DetailsTypeOK
  <2> QED
    BY <1>8, <2>7, <2>8 DEF R!ScoreResult
<1>9. ASSUME R!UpdateResult(t)
      PROVE  R!TypeOK'
  <2>1. cr.rv + 1 \in Nat
    BY DEF R!Results
  <2>2. [call[t].res EXCEPT !.rv = cr.rv + 1] \in R!Results
    BY <2>1 DEF R!Calls, R!Results
  <2> QED
    BY <1>0, <1>9, <2>2, ProbeStatusTypeOK
       DEF R!UpdateResult, R!Return, R!detailVars, R!DetailsTypeOK
<1> QED
  BY <1>1, <1>2, <1>3, <1>4, <1>5, <1>6, <1>7, <1>8, <1>9
     DEF R!ChaosResultStep, R!PatchChaosResult

\* Main is at a probe unless it is between two of them.
RunOK == run.pc \notin {"idle", "fetch", "next"} => run.idx \in DOMAIN probes

\* The activation of RunProbes stays well typed, at a probe.
Runs(n) == [phase : P!Phases \union {"none"}, pc : P!RunPCs, strict : BOOLEAN,
            idx : 1 .. n + 1, local : P!Errors,
            then : {"assign", "deletePod"}, failed : BOOLEAN, ret : P!Errors]
RunTyped ==
  /\ run' \in Runs(Len(probes))
  /\ run'.pc \notin {"idle", "fetch", "next"} => run'.idx \in DOMAIN probes

LEMMA ProbesTyped ==
  ASSUME P!TypeOK
  PROVE  /\ Len(probes) \in Nat /\ DOMAIN probes = 1 .. Len(probes)
         /\ \A i \in DOMAIN probes : /\ i \in Nat /\ i > 0
                                     /\ probes[i].mode \in P!Modes /\ probes[i].type \in P!ProbeTypes
                                     /\ probes[i].source \in BOOLEAN /\ probes[i].stopOnFailure \in BOOLEAN
<1>1. P!ProbeAttributes = ProbeAttributes
  BY DEF P!ProbeAttributes, ProbeAttributes, P!ProbeTypes, ProbeTypes, P!Modes, Modes,
         P!ForegroundModes, ForegroundModes, P!BackgroundModes, BackgroundModes
<1>2. probes \in Seq(P!ProbeAttributes)
  BY <1>1, ProbeListsAssumption DEF P!TypeOK, P!DetailsTypeOK
<1> QED
  BY <1>2 DEF P!ProbeAttributes

\* Goto and Return.
LEMMA GotoTyped ==
  ASSUME P!TypeOK, RunOK, NEW pc \in P!RunPCs, P!Goto(pc), run.idx \in DOMAIN probes \/ pc = "next"
  PROVE  RunTyped
  BY DEF P!TypeOK, P!Goto, RunTyped, Runs

LEMMA LocalTyped ==
  ASSUME P!TypeOK, RunOK, NEW pc \in P!RunPCs, NEW e \in P!Errors, NEW then \in {"assign", "deletePod"},
         run.idx \in DOMAIN probes,
         \/ run' = [run EXCEPT !.pc = pc, !.local = e]
         \/ run' = [run EXCEPT !.local = e, !.then = then, !.pc = pc]
  PROVE  RunTyped
  BY DEF P!TypeOK, RunTyped, Runs

LEMMA IdleTyped ==
  ASSUME P!TypeOK, NEW ph \in P!Phases \union {"none"}, NEW pc \in {"idle", "fetch"}, NEW e \in P!Errors,
         run' = P!Idle(ph, e) \/ run' = [P!Idle(ph, e) EXCEPT !.pc = pc]
  PROVE  RunTyped
<1>1. Len(probes) \in Nat
  BY ProbesTyped
<1>2. 1 \in 1 .. Len(probes) + 1
  BY <1>1
<1>3. /\ \A p \in P!RunPCs : [P!Idle(ph, e) EXCEPT !.pc = p] \in Runs(Len(probes))
      /\ P!Idle(ph, e) \in Runs(Len(probes))
  BY <1>2 DEF Runs, P!RunPCs, P!Idle, P!Errors
<1>4. P!Idle(ph, e).pc = "idle" /\ [P!Idle(ph, e) EXCEPT !.pc = pc].pc = pc
  BY DEF P!Idle
<1>5. pc \in P!RunPCs /\ "idle" \in P!RunPCs
  BY DEF P!RunPCs
<1> QED
  BY <1>3, <1>4, <1>5 DEF RunTyped

LEMMA NextTyped ==
  ASSUME P!TypeOK, NEW idx \in 1 .. Len(probes) + 1, NEW strict \in BOOLEAN, NEW missed \in BOOLEAN,
         \/ run' = [run EXCEPT !.pc = "next", !.strict = strict]
         \/ run.pc = "next" /\ run' = [run EXCEPT !.idx = idx]
         \/ run.pc = "next" /\ run' = [run EXCEPT !.strict = TRUE, !.idx = idx]
         \/ run' = [run EXCEPT !.pc = "next", !.idx = idx, !.local = P!Nil,
                               !.then = "assign", !.failed = missed]
  PROVE  RunTyped
  BY DEF P!TypeOK, RunTyped, Runs, P!RunPCs, P!Errors

LEMMA KeepTyped ==
  ASSUME P!TypeOK, RunOK, run.idx \in DOMAIN probes, NEW e \in P!Errors,
         NEW then \in {"assign", "deletePod"}, P!Keep(e, then)
  PROVE  RunTyped
<1>1. (IF ~P!ReturnsOwnErr THEN "keep" ELSE IF e = P!Nil THEN then ELSE "assign") \in P!RunPCs
  BY DEF P!RunPCs
<1> QED
  BY <1>1, LocalTyped DEF P!Keep

LEMMA MarkTyped ==
  ASSUME P!TypeOK, NEW i \in DOMAIN probes, NEW e \in P!Errors, NEW ph,
         P!MarkedVerdictInEnd(i, e, ph)
  PROVE  probeDetails' \in [DOMAIN probes -> P!ProbeDetails] /\ passedProbeCount' \in Nat
<1> DEFINE v == IF e = P!Nil THEN "Passed" ELSE "Failed"
           key == IF probes[i].mode \in P!ForegroundModes THEN ph ELSE probes[i].mode
           d == probeDetails[i]
           new == [d EXCEPT !.phase = v, !.status[key] = v]
<1>1. v \in P!ProbePhases /\ v \in P!Statuses
  BY DEF P!ProbePhases, P!Statuses
<1>2. probeDetails' = [probeDetails EXCEPT ![i].phase = v, ![i].status[key] = v]
  BY Zenon DEF P!MarkedVerdictInEnd, P!SetProbeVerdict
<1>3. d \in P!ProbeDetails /\ probeDetails \in [DOMAIN probes -> P!ProbeDetails]
      /\ passedProbeCount \in Nat
  BY DEF P!TypeOK, P!DetailsTypeOK
<1>4. new \in P!ProbeDetails
  BY <1>1, <1>3 DEF P!ProbeDetails
<1>5. probeDetails' = [probeDetails EXCEPT ![i] = new]
  BY <1>2, <1>3 DEF P!ProbeDetails
<1>6. passedProbeCount' = passedProbeCount \/ passedProbeCount' = passedProbeCount + 1
  BY DEF P!MarkedVerdictInEnd
<1> HIDE DEF new
<1> QED
  BY <1>3, <1>4, <1>5, <1>6

LEMMA StoreTyped ==
  ASSUME P!TypeOK, NEW t \in {P!Main} \union DOMAIN probes, NEW e \in P!Errors, P!Store(t, e)
  PROVE  err' \in P!Errors /\ wrote' \in [{P!Main} \union DOMAIN probes -> P!Errors]
  BY DEF P!TypeOK, P!Store

LEMMA LoadTyped ==
  ASSUME P!TypeOK, NEW t, P!Load(t)
  PROVE  raced' \in BOOLEAN
  BY DEF P!TypeOK, P!Load

\* What remains well typed if a step types what it changes.
LEMMA StepTyped ==
  ASSUME P!TypeOK, RunOK, RunTyped, UNCHANGED <<probes, verdict, phase>>,
         probeDetails' \in [DOMAIN probes -> P!ProbeDetails], passedProbeCount' \in Nat,
         poller' \in [DOMAIN probes -> P!PollerStates], probePod' \in [DOMAIN probes -> P!PodStates],
         engineState' \in {"active", "stop"},
         lastEval' \in [DOMAIN probes -> P!Errors \union {"none"}],
         err' \in P!Errors, wrote' \in [{P!Main} \union DOMAIN probes -> P!Errors], raced' \in BOOLEAN
  PROVE  P!TypeOK' /\ RunOK'
  BY DEF P!TypeOK, P!DetailsTypeOK, RunTyped, Runs, RunOK

\* A handler starts, leaves to a goroutine or judges the probe that main is at.
LEMMA HandlerTyped ==
  ASSUME P!TypeOK, RunOK, NEW modes, run.idx \in DOMAIN probes,
         P!Evaluate(modes) \/ P!Launch(modes) \/ P!CheckRecorded(modes) \/ P!NothingToDo(modes)
  PROVE  P!TypeOK' /\ RunOK' /\ UNCHANGED <<probes, verdict, phase>>
<1>0. {"createPod", "trigger", "assign", "mark"} \subseteq P!RunPCs /\ "trigger" \in P!PollerStates
  BY DEF P!RunPCs, P!PollerStates
<1>1. CASE P!Evaluate(modes) \/ P!NothingToDo(modes)
  <2>1. RunTyped
    BY <1>0, <1>1, GotoTyped DEF P!Evaluate, P!NothingToDo
  <2> QED
    BY <1>1, <2>1, StepTyped DEF P!Evaluate, P!NothingToDo, P!detailVars, P!TypeOK, P!DetailsTypeOK
<1>2. CASE P!Launch(modes)
  <2>1. RunTyped
    BY <1>0, <1>2, GotoTyped DEF P!Launch
  <2>2. poller' \in [DOMAIN probes -> P!PollerStates]
    BY <1>0, <1>2 DEF P!Launch, P!TypeOK
  <2> QED
    BY <1>2, <2>1, <2>2, StepTyped DEF P!Launch, P!detailVars, P!TypeOK, P!DetailsTypeOK
<1>3. CASE P!CheckRecorded(modes)
  <2>1. RunTyped
    BY <1>0, <1>3, GotoTyped DEF P!CheckRecorded
  <2>2. probeDetails[run.idx].failedWithError \in P!Errors
    BY DEF P!TypeOK, P!DetailsTypeOK, P!ProbeDetails
  <2>3. err' \in P!Errors /\ wrote' \in [{P!Main} \union DOMAIN probes -> P!Errors]
    BY <1>3, <2>2, StoreTyped DEF P!CheckRecorded
  <2> QED
    BY <1>3, <2>1, <2>3, StepTyped DEF P!CheckRecorded, P!detailVars, P!TypeOK, P!DetailsTypeOK
<1> QED
  BY <1>1, <1>2, <1>3

\* Each of the handlers.
LEMMA HandlersTyped ==
  ASSUME P!TypeOK, RunOK,
         \/ P!PreChaosCmdProbe \/ P!PreChaosHTTPProbe \/ P!PreChaosK8sProbe \/ P!PreChaosPromProbe
         \/ P!PostChaosCmdProbe \/ P!PostChaosHTTPProbe \/ P!PostChaosK8sProbe \/ P!PostChaosPromProbe
         \/ P!OnChaosCmdProbe \/ P!OnChaosHTTPProbe \/ P!OnChaosK8sProbe \/ P!OnChaosPromProbe
  PROVE  P!TypeOK' /\ RunOK' /\ UNCHANGED <<probes, verdict, phase>>
<1>1. run.idx \in DOMAIN probes
  BY DEF P!PreChaosCmdProbe, P!PreChaosHTTPProbe, P!PreChaosK8sProbe, P!PreChaosPromProbe,
         P!PostChaosCmdProbe, P!PostChaosHTTPProbe, P!PostChaosK8sProbe, P!PostChaosPromProbe,
         P!OnChaosCmdProbe, P!OnChaosHTTPProbe, P!OnChaosK8sProbe, P!OnChaosPromProbe, P!Executing
<1>2. P!PreChaosHandler \/ P!PostChaosHandler \/ P!OnChaosHandler
  BY DEF P!PreChaosCmdProbe, P!PreChaosHTTPProbe, P!PreChaosK8sProbe, P!PreChaosPromProbe,
         P!PostChaosCmdProbe, P!PostChaosHTTPProbe, P!PostChaosK8sProbe, P!PostChaosPromProbe,
         P!OnChaosCmdProbe, P!OnChaosHTTPProbe, P!OnChaosK8sProbe, P!OnChaosPromProbe
<1>3. \E modes : P!Evaluate(modes) \/ P!Launch(modes) \/ P!CheckRecorded(modes) \/ P!NothingToDo(modes)
  BY <1>2, Zenon DEF P!PreChaosHandler, P!PostChaosHandler, P!OnChaosHandler
<1> QED
  BY <1>1, <1>3, HandlerTyped

\* RunProbes is called.
LEMMA RunProbesTyped ==
  ASSUME P!TypeOK, RunOK, NEW ph \in P!Phases, P!RunProbes(ph)
  PROVE  P!TypeOK' /\ RunOK' /\ UNCHANGED <<probes, verdict, phase>>
<1>1. RunTyped
  BY IdleTyped DEF P!RunProbes, P!Errors
<1> QED
  BY <1>1, StepTyped DEF P!RunProbes, P!detailVars, P!TypeOK, P!DetailsTypeOK

\* A step of main in RunProbes.
LEMMA ExecuteTyped ==
  ASSUME P!TypeOK, RunOK, P!Execute
  PROVE  P!TypeOK' /\ RunOK' /\ UNCHANGED <<probes, verdict, phase>>
<1>0. /\ {"next", "decide", "checkPod", "assign", "podChecked", "trigger", "compare", "mark",
          "kept", "keep", "deletePod"} \subseteq P!RunPCs
      /\ P!Nil \in P!Errors /\ P!Err \in P!Errors
      /\ run.phase \in P!Phases \union {"none"}
      /\ run.then \in {"assign", "deletePod"} /\ run.then \in P!RunPCs
      /\ run.local \in P!Errors /\ run.failed \in BOOLEAN /\ run.idx \in 1 .. Len(probes) + 1
      /\ Len(probes) \in Nat /\ DOMAIN probes = 1 .. Len(probes)
  BY ProbesTyped DEF P!RunPCs, P!Errors, P!TypeOK
<1>1. CASE P!GetProbesFromEngine
  <2>1. RunTyped
    BY <1>0, <1>1, NextTyped, IdleTyped DEF P!GetProbesFromEngine, P!Return
  <2> QED
    BY <1>1, <2>1, StepTyped DEF P!GetProbesFromEngine, P!detailVars, P!TypeOK, P!DetailsTypeOK
<1>2. CASE P!SkipForeground
  <2>1. run.idx + 1 \in 1 .. Len(probes) + 1
    BY <1>0, <1>2 DEF P!SkipForeground
  <2>2. RunTyped
    BY <1>0, <1>2, <2>1, NextTyped DEF P!SkipForeground
  <2> QED
    BY <1>2, <2>2, StepTyped DEF P!SkipForeground, P!detailVars, P!TypeOK, P!DetailsTypeOK
<1>3. CASE P!EndOfLoop
  <2>1. 1 \in 1 .. Len(probes) + 1
    BY <1>0
  <2>2. P!Return(P!Nil) \/ P!Return(P!Err) \/ run' = [run EXCEPT !.strict = TRUE, !.idx = 1]
    BY <1>3 DEF P!EndOfLoop, P!TypeOK
  <2>3. RunTyped
    BY <1>0, <1>3, <2>1, <2>2, NextTyped, IdleTyped DEF P!EndOfLoop, P!Return
  <2> QED
    BY <1>3, <2>3, StepTyped DEF P!EndOfLoop, P!detailVars, P!TypeOK, P!DetailsTypeOK
<1>4. CASE P!Assign
  <2>1. RunTyped
    BY <1>0, <1>4, GotoTyped DEF P!Assign, RunOK
  <2>2. err' \in P!Errors /\ wrote' \in [{P!Main} \union DOMAIN probes -> P!Errors]
    BY <1>0, <1>4, StoreTyped DEF P!Assign
  <2> QED
    BY <1>4, <2>1, <2>2, StepTyped DEF P!Assign, P!detailVars, P!TypeOK, P!DetailsTypeOK
<1>5. CASE P!Decide
  <2>1. run.idx + 1 \in 1 .. Len(probes) + 1
    BY <1>0, <1>5 DEF P!Decide, RunOK
  <2>2. (run.failed \/ err # P!Nil) \in BOOLEAN
    BY <1>0
  <2>3. \/ P!Return(P!Err)
        \/ run' = [run EXCEPT !.pc = "next", !.idx = run.idx + 1, !.local = P!Nil,
                              !.then = "assign", !.failed = run.failed \/ err # P!Nil]
    BY <1>5 DEF P!Decide
  <2>4. RunTyped
    BY <1>0, <2>1, <2>2, <2>3, NextTyped, IdleTyped DEF P!Return
  <2>5. raced' \in BOOLEAN
    BY <1>5, LoadTyped DEF P!Decide
  <2> QED
    BY <1>5, <2>4, <2>5, StepTyped DEF P!Decide, P!detailVars, P!TypeOK, P!DetailsTypeOK
<1>6. CASE P!CreateProbePod
  <2>1. RunTyped
    BY <1>0, <1>6, GotoTyped, LocalTyped DEF P!CreateProbePod, RunOK
  <2>2. probePod' \in [DOMAIN probes -> P!PodStates]
    BY <1>6 DEF P!CreateProbePod, P!TypeOK, P!PodStates
  <2> QED
    BY <1>6, <2>1, <2>2, StepTyped DEF P!CreateProbePod, P!detailVars, P!TypeOK, P!DetailsTypeOK
<1>7. CASE P!CheckProbePod
  <2>1. RunTyped
    BY <1>0, <1>7, GotoTyped DEF P!CheckProbePod, RunOK
  <2>2. err' \in P!Errors /\ wrote' \in [{P!Main} \union DOMAIN probes -> P!Errors]
    BY <1>0, <1>7, StoreTyped DEF P!CheckProbePod
  <2> QED
    BY <1>7, <2>1, <2>2, StepTyped DEF P!CheckProbePod, P!detailVars, P!TypeOK, P!DetailsTypeOK
<1>8. CASE P!ProbePodChecked
  <2>1. RunTyped
    BY <1>0, <1>8, GotoTyped, LocalTyped DEF P!ProbePodChecked, RunOK
  <2>2. poller' \in [DOMAIN probes -> P!PollerStates]
    BY <1>8 DEF P!ProbePodChecked, P!TypeOK, P!PollerStates, RunOK
  <2>3. raced' \in BOOLEAN
    BY <1>8, LoadTyped DEF P!ProbePodChecked
  <2> QED
    BY <1>8, <2>1, <2>2, <2>3, StepTyped DEF P!ProbePodChecked, P!detailVars, P!TypeOK, P!DetailsTypeOK
<1>9. CASE P!Trigger
  <2>1. RunTyped
    BY <1>0, <1>9, GotoTyped DEF P!Trigger, RunOK
  <2>2. err' \in P!Errors /\ wrote' \in [{P!Main} \union DOMAIN probes -> P!Errors]
    BY <1>9, StoreTyped DEF P!Trigger, P!ParseCommand, P!TypeOK
  <2> QED
    BY <1>9, <2>1, <2>2, StepTyped DEF P!Trigger, P!detailVars, P!TypeOK, P!DetailsTypeOK
<1>10. CASE P!ValidateResult
  <2>1. PICK e \in P!Errors :
          /\ lastEval' = [lastEval EXCEPT ![run.idx] = e]
          /\ IF P!OwnErr THEN /\ run' = [run EXCEPT !.pc = "mark", !.local = e]
                            /\ UNCHANGED <<err, wrote>>
                       ELSE /\ P!Goto("mark")
                            /\ P!Store(P!Main, e)
    BY <1>10 DEF P!ValidateResult
  <2>2. RunTyped
    BY <1>0, <1>10, <2>1, GotoTyped, LocalTyped DEF P!ValidateResult, RunOK
  <2>3. err' \in P!Errors /\ wrote' \in [{P!Main} \union DOMAIN probes -> P!Errors]
    BY <2>1, StoreTyped DEF P!TypeOK
  <2>4. lastEval' \in [DOMAIN probes -> P!Errors \union {"none"}]
    BY <2>1 DEF P!TypeOK
  <2> QED
    BY <1>10, <2>2, <2>3, <2>4, StepTyped DEF P!ValidateResult, P!detailVars, P!TypeOK, P!DetailsTypeOK
<1>11. CASE P!MarkVerdict
  <2> DEFINE e == IF P!OwnErr THEN run.local ELSE err
  <2>1. run.pc = "mark" /\ run.idx \in DOMAIN probes /\ e \in P!Errors
    BY <1>0, <1>11 DEF P!MarkVerdict, RunOK, P!TypeOK
  <2>2. /\ P!MarkedVerdictInEnd(run.idx, e, run.phase)
        /\ P!Keep(P!MarkedVerdictError(run.idx, e), IF P!cur.source THEN "deletePod" ELSE "assign")
        /\ (IF P!OwnErr THEN UNCHANGED raced ELSE P!Load(P!Main))
        /\ UNCHANGED <<probes, verdict, phase, err, poller, probePod, engineState, lastEval, wrote>>
    BY <1>11, Zenon DEF P!MarkVerdict
  <2> HIDE DEF e
  <2>3. P!MarkedVerdictError(run.idx, e) \in P!Errors
    BY <2>1, <1>0 DEF P!MarkedVerdictError
  <2>4. RunTyped
    BY <2>1, <2>2, <2>3, KeepTyped
  <2>6. probeDetails' \in [DOMAIN probes -> P!ProbeDetails] /\ passedProbeCount' \in Nat
    BY <2>1, <2>2, MarkTyped
  <2>7. raced' \in BOOLEAN
    BY <2>2, LoadTyped DEF P!TypeOK
  <2> QED
    BY <2>2, <2>4, <2>6, <2>7, StepTyped DEF P!TypeOK
<1>12. CASE P!StoreReturned
  <2>1. RunTyped
    BY <1>0, <1>12, GotoTyped DEF P!StoreReturned, RunOK
  <2>2. err' \in P!Errors /\ wrote' \in [{P!Main} \union DOMAIN probes -> P!Errors]
    BY <1>0, <1>12, StoreTyped DEF P!StoreReturned
  <2> QED
    BY <1>12, <2>1, <2>2, StepTyped DEF P!StoreReturned, P!detailVars, P!TypeOK, P!DetailsTypeOK
<1>13. CASE P!LoadReturned
  <2>1. (IF err = P!Nil THEN run.then ELSE "assign") \in P!RunPCs /\ err \in P!Errors
    BY <1>0 DEF P!TypeOK
  <2>2. run' = [run EXCEPT !.pc = (IF err = P!Nil THEN run.then ELSE "assign"), !.local = err]
    BY <1>13 DEF P!LoadReturned, P!TypeOK
  <2>3. RunTyped
    BY <1>0, <1>13, <2>1, <2>2, LocalTyped DEF P!LoadReturned, RunOK
  <2>4. raced' \in BOOLEAN
    BY <1>13, LoadTyped DEF P!LoadReturned
  <2> QED
    BY <1>13, <2>3, <2>4, StepTyped DEF P!LoadReturned, P!detailVars, P!TypeOK, P!DetailsTypeOK
<1>14. CASE P!DeleteProbePod
  <2>1. RunTyped
    BY <1>0, <1>14, KeepTyped DEF P!DeleteProbePod, RunOK
  <2>2. probePod' \in [DOMAIN probes -> P!PodStates]
    BY <1>14 DEF P!DeleteProbePod, P!TypeOK, P!PodStates
  <2> QED
    BY <1>14, <2>1, <2>2, StepTyped DEF P!DeleteProbePod, P!detailVars, P!TypeOK, P!DetailsTypeOK
<1> QED
  BY <1>1, <1>2, <1>3, <1>4, <1>5, <1>6, <1>7, <1>8, <1>9, <1>10, <1>11, <1>12, <1>13, <1>14,
     HandlersTyped DEF P!Execute, P!CreateHelperPod

\* A step of a polling goroutine.
LEMMA PollerTyped ==
  ASSUME P!TypeOK, RunOK, NEW i \in DOMAIN probes, P!Poller(i)
  PROVE  P!TypeOK' /\ RunOK' /\ UNCHANGED <<probes, verdict, phase, run>>
<1>1. \/ P!PollTrigger(i) \/ P!PollCompare(i) \/ P!PollCheck(i) \/ P!PollRecord(i) \/ P!TimeIsUp(i)
      \/ P!StopCheckRecorded(i) \/ P!StopMarkVerdict(i) \/ P!StopPatchEngine(i)
  BY Zenon DEF P!Poller, P!Poll, P!StopChaosEngine,
         P!TriggerInlineContinuousCmdProbe, P!TriggerSourceContinuousCmdProbe,
         P!TriggerContinuousHTTPProbe, P!TriggerContinuousK8sProbe, P!TriggerContinuousPromProbe,
         P!TriggerInlineOnChaosCmdProbe, P!TriggerSourceOnChaosCmdProbe,
         P!TriggerOnChaosHTTPProbe, P!TriggerOnChaosK8sProbe, P!TriggerOnChaosPromProbe
<1>2. ASSUME UNCHANGED run
      PROVE  RunTyped
  BY <1>2 DEF P!TypeOK, RunOK, RunTyped, Runs
<1>3. ASSUME NEW s \in P!PollerStates, P!MoveTo(i, s)
      PROVE  poller' \in [DOMAIN probes -> P!PollerStates]
  BY <1>3 DEF P!MoveTo, P!TypeOK
<1>4. {"none", "trigger", "compare", "check", "record", "stop", "mark", "patch", "done"}
        \subseteq P!PollerStates
  BY DEF P!PollerStates
<1>5. CASE P!PollTrigger(i)
  <2>1. err' \in P!Errors /\ wrote' \in [{P!Main} \union DOMAIN probes -> P!Errors]
    BY <1>5, StoreTyped DEF P!PollTrigger, P!ParseCommand, P!TypeOK
  <2> QED
    BY <1>2, <1>3, <1>4, <1>5, <2>1, StepTyped DEF P!PollTrigger, P!detailVars, P!TypeOK, P!DetailsTypeOK
<1>6. CASE P!PollCompare(i)
  <2>1. PICK e \in P!Errors : P!Store(i, e) /\ lastEval' = [lastEval EXCEPT ![i] = e]
    BY <1>6 DEF P!PollCompare
  <2>2. err' \in P!Errors /\ wrote' \in [{P!Main} \union DOMAIN probes -> P!Errors]
    BY <2>1, StoreTyped
  <2>3. lastEval' \in [DOMAIN probes -> P!Errors \union {"none"}]
    BY <2>1 DEF P!TypeOK
  <2> QED
    BY <1>2, <1>3, <1>4, <1>6, <2>2, <2>3, StepTyped
       DEF P!PollCompare, P!detailVars, P!TypeOK, P!DetailsTypeOK
<1>7. CASE P!PollCheck(i)
  <2>1. raced' \in BOOLEAN
    BY <1>7, LoadTyped DEF P!PollCheck
  <2> QED
    BY <1>2, <1>3, <1>4, <1>7, <2>1, StepTyped DEF P!PollCheck, P!detailVars, P!TypeOK, P!DetailsTypeOK
<1>8. CASE P!PollRecord(i)
  <2>1. raced' \in BOOLEAN
    BY <1>8, LoadTyped DEF P!PollRecord
  <2>2. probeDetails' \in [DOMAIN probes -> P!ProbeDetails]
    BY <1>8 DEF P!PollRecord, P!TypeOK, P!DetailsTypeOK, P!ProbeDetails
  <2>3. (IF probes[i].stopOnFailure THEN "stop" ELSE "done") \in P!PollerStates
    BY <1>4
  <2>4. poller' \in [DOMAIN probes -> P!PollerStates]
    BY <1>3, <1>8, <2>3 DEF P!PollRecord
  <2> QED
    BY <1>2, <1>8, <2>1, <2>2, <2>4, StepTyped DEF P!PollRecord, P!TypeOK, P!DetailsTypeOK
<1>9. CASE P!TimeIsUp(i)
  BY <1>2, <1>3, <1>4, <1>9, StepTyped DEF P!TimeIsUp, P!detailVars, P!TypeOK, P!DetailsTypeOK
<1>10. CASE P!StopCheckRecorded(i)
  <2>1. probeDetails[i].failedWithError \in P!Errors
    BY DEF P!TypeOK, P!DetailsTypeOK, P!ProbeDetails
  <2>2. err' \in P!Errors /\ wrote' \in [{P!Main} \union DOMAIN probes -> P!Errors]
    BY <1>10, <2>1, StoreTyped DEF P!StopCheckRecorded
  <2> QED
    BY <1>2, <1>3, <1>4, <1>10, <2>2, StepTyped
       DEF P!StopCheckRecorded, P!detailVars, P!TypeOK, P!DetailsTypeOK
<1>11. CASE P!StopMarkVerdict(i)
  <2>1. probeDetails' \in [DOMAIN probes -> P!ProbeDetails] /\ passedProbeCount' \in Nat
    BY <1>11, MarkTyped DEF P!StopMarkVerdict, P!TypeOK
  <2>2. raced' \in BOOLEAN
    BY <1>11, LoadTyped DEF P!StopMarkVerdict
  <2> QED
    BY <1>2, <1>3, <1>4, <1>11, <2>1, <2>2, StepTyped DEF P!StopMarkVerdict, P!TypeOK
<1>12. CASE P!StopPatchEngine(i)
  BY <1>2, <1>3, <1>4, <1>12, StepTyped DEF P!StopPatchEngine, P!detailVars, P!TypeOK, P!DetailsTypeOK
<1> QED
  BY <1>1, <1>5, <1>6, <1>7, <1>8, <1>9, <1>10, <1>11, <1>12

----------------------------------------------------------------------------
(* The scripts while they are executed *)

\* A script that goes on is planned, and has what comes before with what comes after it.
LEMMA HeadAndTail ==
  ASSUME NEW s, NEW lax, NEW failing, PlannedSeq(s, lax, failing), s # <<>>
  PROVE  /\ Head(s) \in Ops /\ Planned(Head(s), lax, failing)
         /\ PlannedSeq(Tail(s), lax, failing)
         /\ \A r : Has(s, r) <=> r = Rank(Head(s)) \/ Has(Tail(s), r)
         /\ \A k \in DOMAIN Tail(s) : Precedes(Head(s), Tail(s)[k])
         /\ FollowedUp(s) => FollowedUp(Tail(s))
<1>1. s \in Seq(Ops) /\ Len(s) \in Nat /\ DOMAIN s = 1 .. Len(s) /\ 1 \in DOMAIN s /\ Head(s) = s[1]
  BY DEF PlannedSeq
<1>2. /\ Tail(s) \in Seq(Ops) /\ DOMAIN Tail(s) = 1 .. Len(s) - 1
      /\ \A k \in DOMAIN Tail(s) : Tail(s)[k] = s[k + 1] /\ k + 1 \in DOMAIN s
  BY <1>1
<1>3. \A j, k \in DOMAIN Tail(s) : j < k => j + 1 < k + 1
  BY <1>2
<1>4. PlannedSeq(Tail(s), lax, failing)
  BY <1>2, <1>3 DEF PlannedSeq, Ordered
<1>5. ASSUME NEW k \in DOMAIN s
      PROVE  k = 1 \/ (k - 1 \in DOMAIN Tail(s) /\ Tail(s)[k - 1] = s[k])
  BY <1>1, <1>2
<1>6. \A r : Has(s, r) <=> r = Rank(Head(s)) \/ Has(Tail(s), r)
  BY <1>1, <1>2, <1>5 DEF Has
<1>7. \A k \in DOMAIN Tail(s) : 1 < k + 1
  BY <1>2
<1>8. \A k \in DOMAIN Tail(s) : Precedes(Head(s), Tail(s)[k])
  BY <1>1, <1>2, <1>7 DEF PlannedSeq, Ordered
<1>9. ASSUME FollowedUp(s)
      PROVE  FollowedUp(Tail(s))
  <2>1. ASSUME NEW k \in DOMAIN Tail(s), Tail(s)[k].op \notin TailOps
        PROVE  Has(Tail(s), 9)
    <3>1. Has(s, 9)
      BY <1>2, <1>9, <2>1 DEF FollowedUp
    <3>2. Rank(Head(s)) # 9
      BY <1>8, <2>1 DEF Precedes
    <3> QED
      BY <1>6, <3>1, <3>2
  <2>2. ASSUME Has(Tail(s), 1)
        PROVE  Has(Tail(s), 4) /\ Has(Tail(s), 7)
    <3>1. Has(s, 4) /\ Has(s, 7)
      BY <1>6, <1>9, <2>2 DEF FollowedUp
    <3>2. PICK k \in DOMAIN Tail(s) : Rank(Tail(s)[k]) = 1
      BY <2>2 DEF Has
    <3>3. Rank(Head(s)) # 4 /\ Rank(Head(s)) # 7
      BY <1>8, <3>2 DEF Precedes
    <3> QED
      BY <1>6, <3>1, <3>3
  <2> QED
    BY <2>1, <2>2 DEF FollowedUp
<1> QED
  BY <1>1, <1>4, <1>6, <1>8, <1>9 DEF PlannedSeq

\* A planned script is a part, and an event in the chaosengine may come before it.
LEMMA EventFirst ==
  ASSUME NEW s, NEW lax \in BOOLEAN, NEW failing \in BOOLEAN, PlannedSeq(s, lax, failing)
  PROVE  /\ PlannedSeq(EngineEvent \o s, lax, failing)
         /\ \A r \in Nat \ {0} : Has(EngineEvent \o s, r) <=> Has(s, r)
         /\ FollowedUp(s) => FollowedUp(EngineEvent \o s)
<1> DEFINE o == [op |-> "setEngineEvent", arg |-> "", onError |-> "ignore"]
<1> DEFINE e == <<o>>
<1>0. /\ o \in Ops /\ Planned(o, lax, failing) /\ Rank(o) = 0 /\ o.op \in TailOps
  BY DEF Ops, OpNames, Args, Handlers, Planned, Rank, TailOps
<1>1. EngineEvent = e
  BY DEF EngineEvent, Op
<1>2. s \in Seq(Ops)
  BY DEF PlannedSeq
<1> HIDE DEF o
<1>3. Part(s, 1, 11, lax, failing)
  BY RankNat DEF Part
<1>4. 1 \in Nat /\ 0 \in Nat /\ 11 \in Nat /\ 1 = 0 + 1 /\ 1 <= 1 /\ 0 <= 11
  OBVIOUS
<1>5. Part(e, 1, 0, lax, failing)
  BY <1>0, <1>4, TailPart
<1>6. DOMAIN e = {1} /\ e[1] = o /\ e \in Seq(Ops) /\ Len(e) = 1 /\ \A r : Has(e, r) <=> r = 0
  BY <1>0 DEF Has
<1> HIDE DEF e
<1>7. Part(e \o s, 1, 11, lax, failing) /\ \A r : Has(e \o s, r) <=> Has(e, r) \/ Has(s, r)
  BY <1>3, <1>4, <1>5, Grows
<1>8. \A r \in Nat \ {0} : Has(e \o s, r) <=> Has(s, r)
  BY <1>6, <1>7
<1>9. ASSUME NEW k \in DOMAIN (e \o s), (e \o s)[k].op \notin TailOps
      PROVE  \E j \in DOMAIN s : s[j].op \notin TailOps
  <2>1. /\ Len(s) \in Nat /\ DOMAIN s = 1 .. Len(s)
        /\ DOMAIN (e \o s) = 1 .. Len(e) + Len(s)
        /\ \A i \in 1 .. Len(e) + Len(s) : (e \o s)[i] = IF i <= Len(e) THEN e[i] ELSE s[i - Len(e)]
    BY <1>2, <1>6, ConcatProperties, LenProperties
  <2>2. k # 1
    BY <1>0, <1>6, <1>9, <2>1
  <2>3. k - 1 \in DOMAIN s /\ (e \o s)[k] = s[k - 1]
    BY <1>6, <1>9, <2>1, <2>2
  <2> QED
    BY <1>9, <2>3
<1>10. FollowedUp(s) => FollowedUp(e \o s)
  <2>1. 9 \in Nat \ {0} /\ 1 \in Nat \ {0} /\ 4 \in Nat \ {0} /\ 7 \in Nat \ {0}
    OBVIOUS
  <2> QED
    BY <1>8, <1>9, <2>1, Zenon DEF FollowedUp
<1> QED
  BY <1>1, <1>7, <1>8, <1>10 DEF Part

\* An event and what follows an error.
LEMMA EventThen ==
  ASSUME NEW t, NEW lax \in BOOLEAN, NEW failing \in BOOLEAN,
         PlannedSeq(t, lax, failing), ~Has(t, 1)
  PROVE  PlannedSeq(EngineEvent \o t, lax, failing) /\ ~Has(EngineEvent \o t, 1)
<1>1. 1 \in Nat \ {0}
  OBVIOUS
<1>2. /\ PlannedSeq(EngineEvent \o t, lax, failing)
      /\ \A r \in Nat \ {0} : Has(EngineEvent \o t, r) <=> Has(t, r)
  BY EventFirst
<1> QED
  BY <1>1, <1>2, Zenon

\* The end of a script in four parts.
LEMMA RecordParts ==
  ASSUME NEW lax, NEW failing, NEW c, NEW u, NEW e, NEW n,
         Part(c, 8, 8, lax, failing), Part(u, 9, 9, lax, failing),
         Part(e, 10, 10, lax, failing), Part(n, 11, 11, lax, failing)
  PROVE  /\ PlannedSeq(c, lax, failing) /\ ~Has(c, 1)
         /\ PlannedSeq(c \o u, lax, failing) /\ ~Has(c \o u, 1)
         /\ PlannedSeq(((c \o u) \o e) \o n, lax, failing) /\ ~Has(((c \o u) \o e) \o n, 1)
<1> DEFINE s2 == c \o u
<1>1. Part(s2, 8, 9, lax, failing)
  BY Grows
<1> HIDE DEF s2
<1> DEFINE s3 == s2 \o e
<1>2. Part(s3, 8, 10, lax, failing)
  BY <1>1, Grows
<1> HIDE DEF s3
<1> DEFINE s4 == s3 \o n
<1>3. Part(s4, 8, 11, lax, failing)
  BY <1>2, Grows
<1> HIDE DEF s4
<1>4. ~Has(c, 1) /\ ~Has(s2, 1) /\ ~Has(s4, 1)
  BY <1>1, <1>3, PartLacks
<1> QED
  BY <1>1, <1>3, <1>4, Zenon DEF Part, s2, s3, s4

\* What RecordAfterFailure, and an event with SetResultAfterCompletion, leave to do.
LEMMA RecordPlanned ==
  ASSUME NEW lax \in BOOLEAN, NEW failing \in BOOLEAN, failing
  PROVE  /\ PlannedSeq(RecordAfterFailure, lax, failing) /\ ~Has(RecordAfterFailure, 1)
         /\ PlannedSeq(Complete("Fail"), lax, failing) /\ ~Has(Complete("Fail"), 1)
         /\ PlannedSeq(Complete("Fail") \o Update("EOT", "ignore"), lax, failing)
         /\ ~Has(Complete("Fail") \o Update("EOT", "ignore"), 1)
<1> DEFINE o == [op |-> "complete", arg |-> "Fail", onError |-> "ignore"]
<1> DEFINE c == Complete("Fail")
<1> DEFINE u == Update("EOT", "ignore")
<1> DEFINE e == ResultEvent("Fail")
<1> DEFINE n == IfEngine(EngineEvent)
<1>0. 1 \in Nat /\ 7 \in Nat /\ 8 \in Nat /\ 9 \in Nat /\ 10 \in Nat /\ 11 \in Nat
  OBVIOUS
<1>1. o \in Ops /\ Planned(o, lax, failing) /\ Rank(o) = 8
  BY DEF Ops, OpNames, Args, Handlers, Reasons, Planned, Rank
<1>2. c = <<o>>
  BY DEF Complete, Op
<1> HIDE DEF o
<1>3. Part(c, 8, 8, lax, failing)
  BY <1>1, <1>2, RankPart
<1>4. "ignore" = (IF lax \/ failing THEN "ignore" ELSE "return")
      /\ "Fail" \in IF failing THEN {"Fail"} ELSE {"byVerdict", "Summary"}
  OBVIOUS
<1>5. Part(u, 9, 9, lax, failing) /\ Part(e, 10, 10, lax, failing) /\ Part(n, 11, 11, lax, failing)
  BY <1>0, <1>4, FinishPart
<1>6. RecordAfterFailure = ((c \o u) \o e) \o n
  BY DEF RecordAfterFailure
<1>7. c = Complete("Fail") /\ c \o u = Complete("Fail") \o Update("EOT", "ignore")
  OBVIOUS
<1> HIDE DEF c, u, e, n
<1>8. /\ PlannedSeq(c, lax, failing) /\ ~Has(c, 1)
      /\ PlannedSeq(c \o u, lax, failing) /\ ~Has(c \o u, 1)
      /\ PlannedSeq(((c \o u) \o e) \o n, lax, failing) /\ ~Has(((c \o u) \o e) \o n, 1)
  BY <1>3, <1>5, RecordParts
<1> QED
  BY <1>6, <1>7, <1>8, Zenon

\* What is left of a script that goes on or ends after an error, ...
LEMMA ErrorGoesOn ==
  ASSUME NEW rest, NEW lax \in BOOLEAN, NEW failing \in BOOLEAN,
         NEW h \in {"ignore", "warn", "return"}, PlannedSeq(rest, lax, failing)
  PROVE  /\ PlannedSeq(OnError(h, rest), lax, failing)
         /\ Has(OnError(h, rest), 1) => Has(rest, 1)
         /\ FollowedUp(rest) => FollowedUp(OnError(h, rest))
<1>0. 1 \in Nat \ {0}
  OBVIOUS
<1>1. CASE h = "ignore"
  BY <1>1 DEF OnError
<1>2. CASE h = "return"
  <2>1. OnError(h, rest) = <<>> /\ DOMAIN <<>> = {}
    BY <1>2 DEF OnError
  <2>2. PlannedSeq(<<>>, lax, failing) /\ ~Has(<<>>, 1)
    BY NoPart DEF Part
  <2>3. FollowedUp(<<>>)
    BY <2>1, <2>2 DEF FollowedUp
  <2> QED
    BY <2>1, <2>2, <2>3
<1>3. CASE h = "warn"
  <2>1. OnError(h, rest) = EngineEvent \o rest
    BY <1>3 DEF OnError
  <2> QED
    BY <2>1, EventFirst
<1> QED
  BY <1>1, <1>2, <1>3

\* ... and of one that fails.
LEMMA ErrorFails ==
  ASSUME NEW rest, NEW lax \in BOOLEAN, NEW failing \in BOOLEAN, failing,
         NEW h \in Handlers \ {"ignore", "warn", "return"}
  PROVE  PlannedSeq(OnError(h, rest), lax, failing) /\ ~Has(OnError(h, rest), 1)
<1>1. CASE h = "record"
  <2>1. OnError(h, rest) = RecordAfterFailure
    BY <1>1 DEF OnError
  <2>2. PlannedSeq(RecordAfterFailure, lax, failing) /\ ~Has(RecordAfterFailure, 1)
    BY RecordPlanned
  <2> QED
    BY <2>1, <2>2
<1>2. CASE h = "event"
  <2>1. OnError(h, rest) = EngineEvent \o RecordAfterFailure
    BY <1>2 DEF OnError
  <2>2. PlannedSeq(RecordAfterFailure, lax, failing) /\ ~Has(RecordAfterFailure, 1)
    BY RecordPlanned
  <2>3. PlannedSeq(EngineEvent \o RecordAfterFailure, lax, failing)
        /\ ~Has(EngineEvent \o RecordAfterFailure, 1)
    BY <2>2, EventThen, Zenon
  <2> QED
    BY <2>1, <2>3
<1>3. CASE h = "complete"
  <2>1. OnError(h, rest) = EngineEvent \o Complete("Fail")
    BY <1>3 DEF OnError
  <2>2. PlannedSeq(Complete("Fail"), lax, failing) /\ ~Has(Complete("Fail"), 1)
    BY RecordPlanned
  <2>3. PlannedSeq(EngineEvent \o Complete("Fail"), lax, failing)
        /\ ~Has(EngineEvent \o Complete("Fail"), 1)
    BY <2>2, EventThen, Zenon
  <2> QED
    BY <2>1, <2>3
<1>4. CASE h = "update"
  <2> DEFINE s == Complete("Fail") \o Update("EOT", "ignore")
  <2>1. OnError(h, rest) = (EngineEvent \o Complete("Fail")) \o Update("EOT", "ignore")
    BY <1>4 DEF OnError
  <2>2. PlannedSeq(s, lax, failing) /\ ~Has(s, 1)
    BY RecordPlanned
  <2>3. (EngineEvent \o Complete("Fail")) \o Update("EOT", "ignore") = EngineEvent \o s
    <3> DEFINE a == EngineEvent
    <3> DEFINE b == Complete("Fail")
    <3> DEFINE c == Update("EOT", "ignore")
    <3>1. a \in Seq(Ops) /\ b \in Seq(Ops) /\ c \in Seq(Ops)
      BY DEF EngineEvent, Complete, Update, Op, Ops, OpNames, Args, Reasons, Handlers
    <3> HIDE DEF a, b, c
    <3>2. (a \o b) \o c = a \o (b \o c)
      BY <3>1, Associative
    <3> QED
      BY <3>2 DEF a, b, c
  <2> HIDE DEF s
  <2>4. PlannedSeq(EngineEvent \o s, lax, failing) /\ ~Has(EngineEvent \o s, 1)
    BY <2>2, EventThen, Zenon
  <2> QED
    BY <2>1, <2>3, <2>4
<1> QED
  BY <1>1, <1>2, <1>3, <1>4 DEF Handlers

----------------------------------------------------------------------------
(* The type invariant *)

MainScript == todo["main"]
Left(r) == Has(MainScript, r)

\* An operation of an abort watcher's script.
Stopping(o) ==
  /\ o.onError = "ignore"
  /\ \/ o.op = "complete" /\ o.arg = "Stopped"
     \/ o.op = "update" /\ o.arg = "EOT"
     \/ o.op = "setResultEvent" /\ o.arg = "Stopped"
     \/ o.op \in {"generateEvents", "setEngineEvent", "exit"}

\* The scripts of both threads; no probe is run before the probes are known.
ScriptsOK ==
  /\ PlannedSeq(MainScript, lenient, failed)
  /\ ~failed => FollowedUp(MainScript)
  /\ \A k \in DOMAIN todo["abort"] : Stopping(todo["abort"][k])
  /\ Left(1) => run = P!Idle("none", Nil)

TypeIInv == TypeOK /\ ScriptsOK /\ RunOK

\* What TypeOK says of the variables of this module.
OwnTypes ==
  /\ engineProbes \in ProbeLists
  /\ oldResult \in OldResults
  /\ todo \in [Thread -> Seq(Ops)]
  /\ busy \in [Thread -> BOOLEAN]
  /\ process \in {"up", "returned", "exited"}
  /\ watcher \in {"none", "exit", "stay"}
  /\ signal \in ChaosStates \union {"no", "never"}
  /\ chaos \in ChaosStates
  /\ eventsDetails \in [kind : {"ChaosResult", "ChaosEngine"}, reason : Reasons]
  /\ published \subseteq [kind : {"ChaosResult", "ChaosEngine"}, reason : Reasons]
  /\ lenient \in BOOLEAN /\ recorded \in BOOLEAN /\ failed \in BOOLEAN
  /\ eot \in Errors \union {"none"}

LEMMA TypeParts == TypeOK <=> P!TypeOK /\ R!TypeOK /\ OwnTypes
  BY DEF TypeOK, OwnTypes

LEMMA TypePartsAfter == (TypeOK <=> P!TypeOK /\ R!TypeOK /\ OwnTypes)'
  BY TypeParts, PTL

\* The three modules have the same details.
LEMMA DetailsAlike == (DetailsTypeOK <=> P!DetailsTypeOK) /\ (DetailsTypeOK <=> R!DetailsTypeOK)
  BY DEF DetailsTypeOK, P!DetailsTypeOK, R!DetailsTypeOK, Verdicts, P!Verdicts, R!Verdicts,
         ResultPhases, P!ResultPhases, R!ResultPhases, ProbeDetails, P!ProbeDetails, R!ProbeDetails,
         ProbePhases, P!ProbePhases, R!ProbePhases, StatusKeys, P!StatusKeys, R!StatusKeys,
         Statuses, P!Statuses, R!Statuses, Errors, P!Errors, R!Errors, Nil, P!Nil, R!Nil,
         Err, P!Err, R!Err

LEMMA DetailsAlikeAfter ==
  ((DetailsTypeOK <=> P!DetailsTypeOK) /\ (DetailsTypeOK <=> R!DetailsTypeOK))'
  BY DetailsAlike, PTL

LEMMA ErrorsAlike == /\ Nil = P!Nil /\ Nil = R!Nil /\ Err = P!Err /\ Err = R!Err
                     /\ Errors = P!Errors /\ Errors = R!Errors
  BY DEF Nil, P!Nil, R!Nil, Err, P!Err, R!Err, Errors, P!Errors, R!Errors

\* What a step that touches nothing of a component keeps.
LEMMA SameProbe ==
  ASSUME P!TypeOK, RunOK, UNCHANGED <<probes, probeVars>>, DetailsTypeOK'
  PROVE  P!TypeOK' /\ RunOK'
<1>1. UNCHANGED <<probes, err, run, poller, probePod, engineState, lastEval, wrote, raced>>
  BY DEF probeVars
<1> QED
  BY <1>1, DetailsAlikeAfter DEF P!TypeOK, RunOK

LEMMA SameResult ==
  ASSUME R!TypeOK, UNCHANGED <<probes, resultVars>>, DetailsTypeOK'
  PROVE  R!TypeOK'
<1>1. UNCHANGED <<probes, cr, crProbes, call, targets>>
  BY DEF resultVars
<1> QED
  BY <1>1, DetailsAlikeAfter DEF R!TypeOK

LEMMA SameDetails ==
  ASSUME P!TypeOK, UNCHANGED detailVars
  PROVE  DetailsTypeOK' /\ probes' = probes
<1>1. DetailsTypeOK
  BY DetailsAlike DEF P!TypeOK
<1> QED
  BY <1>1 DEF DetailsTypeOK, detailVars

\* The next operation of a thread.
LEMMA NextOperation ==
  ASSUME TypeIInv, NEW t \in Thread, todo[t] # <<>>
  PROVE  /\ Head(todo[t]) \in Ops /\ Tail(todo[t]) \in Seq(Ops)
         /\ t = "main" \/ t = "abort"
         /\ t = "main" => Planned(Head(todo[t]), lenient, failed)
         /\ t = "abort" => /\ Stopping(Head(todo[t]))
                           /\ \A k \in DOMAIN Tail(todo[t]) : Stopping(Tail(todo[t])[k])
<1>1. todo[t] \in Seq(Ops)
  BY DEF TypeIInv, TypeOK
<1>2. /\ Head(todo[t]) \in Ops /\ Tail(todo[t]) \in Seq(Ops) /\ 1 \in DOMAIN todo[t]
      /\ Head(todo[t]) = todo[t][1]
      /\ \A k \in DOMAIN Tail(todo[t]) : k + 1 \in DOMAIN todo[t] /\ Tail(todo[t])[k] = todo[t][k + 1]
  BY <1>1
<1>3. t = "main" \/ t = "abort"
  BY DEF Thread
<1>4. t = "main" => Planned(Head(todo[t]), lenient, failed)
  BY <1>2 DEF TypeIInv, ScriptsOK, PlannedSeq, MainScript
<1>5. t = "abort" => /\ Stopping(Head(todo[t]))
                     /\ \A k \in DOMAIN Tail(todo[t]) : Stopping(Tail(todo[t])[k])
  BY <1>2 DEF TypeIInv, ScriptsOK
<1> QED
  BY <1>2, <1>3, <1>4, <1>5

\* A thread goes on with the rest of its script, ...
LEMMA DoneOK ==
  ASSUME TypeIInv, NEW t \in Thread, todo[t] # <<>>, Done(t), UNCHANGED <<lenient, failed, run>>
  PROVE  ScriptsOK' /\ todo' \in [Thread -> Seq(Ops)] /\ failed' \in BOOLEAN
<1>0. todo \in [Thread -> Seq(Ops)] /\ failed \in BOOLEAN
  BY DEF TypeIInv, TypeOK
<1>1. /\ todo' \in [Thread -> Seq(Ops)]
      /\ todo'[t] = Tail(todo[t]) /\ \A u \in Thread : u # t => todo'[u] = todo[u]
  BY <1>0, NextOperation DEF Done
<1>2. "main" \in Thread /\ "abort" \in Thread
  BY DEF Thread
<1>3. CASE t = "main"
  <2>1. MainScript' = Tail(MainScript) /\ todo'["abort"] = todo["abort"] /\ MainScript # <<>>
    BY <1>1, <1>2, <1>3 DEF MainScript
  <2>2. PlannedSeq(MainScript, lenient, failed)
    BY DEF TypeIInv, ScriptsOK
  <2>3. /\ PlannedSeq(Tail(MainScript), lenient, failed)
        /\ Has(Tail(MainScript), 1) => Has(MainScript, 1)
        /\ FollowedUp(MainScript) => FollowedUp(Tail(MainScript))
    BY <2>1, <2>2, HeadAndTail
  <2>4. PlannedSeq(MainScript', lenient', failed') /\ (~failed' => FollowedUp(MainScript'))
        /\ (Has(MainScript', 1) => run' = P!Idle("none", Nil))
    BY <2>1, <2>3 DEF TypeIInv, ScriptsOK, Left
  <2>5. \A k \in DOMAIN todo'["abort"] : Stopping(todo'["abort"][k])
    BY <2>1 DEF TypeIInv, ScriptsOK
  <2> QED
    BY <1>0, <1>1, <2>4, <2>5 DEF ScriptsOK, Left
<1>4. CASE t = "abort"
  <2>1. MainScript' = MainScript /\ todo'["abort"] = Tail(todo["abort"])
    BY <1>1, <1>2, <1>4 DEF MainScript
  <2>2. \A k \in DOMAIN todo'["abort"] : Stopping(todo'["abort"][k])
    BY <1>4, <2>1, NextOperation
  <2>3. PlannedSeq(MainScript', lenient', failed') /\ (~failed' => FollowedUp(MainScript'))
        /\ (Has(MainScript', 1) => run' = P!Idle("none", Nil))
    BY <2>1 DEF TypeIInv, ScriptsOK, Left
  <2> QED
    BY <1>0, <1>1, <2>2, <2>3 DEF ScriptsOK, Left
<1> QED
  BY <1>3, <1>4 DEF Thread

\* ... with what an error leaves of it, ...
LEMMA FailOK ==
  ASSUME TypeIInv, NEW t \in Thread, todo[t] # <<>>, Fail(t), UNCHANGED <<lenient, run>>
  PROVE  ScriptsOK' /\ todo' \in [Thread -> Seq(Ops)] /\ failed' \in BOOLEAN
<1>0. todo \in [Thread -> Seq(Ops)] /\ failed \in BOOLEAN /\ lenient \in BOOLEAN
  BY DEF TypeIInv, TypeOK
<1> DEFINE h == Head(todo[t]).onError
<1>1. h \in Handlers
  BY NextOperation DEF Ops
<1>2. CASE t = "abort"
  <2>1. h = "ignore"
    BY <1>2, NextOperation DEF Stopping
  <2>2. Done(t) /\ failed' = failed
    BY <1>0, <1>2, <2>1 DEF Fail, Done, OnError
  <2> QED
    BY <2>2, DoneOK
<1>3. CASE t = "main"
  <2>1. /\ todo' = [todo EXCEPT !["main"] = OnError(h, Tail(MainScript))]
        /\ failed' = (failed \/ h \notin {"ignore", "warn", "return"})
    BY <1>3 DEF Fail, MainScript
  <2>2. failed' \in BOOLEAN
    BY <1>0, <2>1
  <2>3. MainScript # <<>> /\ PlannedSeq(MainScript, lenient, failed)
    BY <1>3 DEF MainScript, TypeIInv, ScriptsOK
  <2>4. /\ PlannedSeq(Tail(MainScript), lenient, failed)
        /\ Has(Tail(MainScript), 1) => Has(MainScript, 1)
        /\ FollowedUp(MainScript) => FollowedUp(Tail(MainScript))
    BY <2>3, HeadAndTail
  <2> DEFINE s == OnError(h, Tail(MainScript))
  <2>5. /\ PlannedSeq(s, lenient, failed')
        /\ Has(s, 1) => Has(Tail(MainScript), 1)
        /\ ~failed' /\ FollowedUp(Tail(MainScript)) => FollowedUp(s)
    <3> HIDE DEF h
    <3>1. CASE h \in {"ignore", "warn", "return"}
      <4>1. failed' = failed
        BY <1>0, <2>1, <3>1
      <4>2. /\ PlannedSeq(s, lenient, failed)
            /\ Has(s, 1) => Has(Tail(MainScript), 1)
            /\ FollowedUp(Tail(MainScript)) => FollowedUp(s)
        BY <1>0, <2>4, <3>1, ErrorGoesOn
      <4> QED
        BY <4>1, <4>2
    <3>2. CASE h \notin {"ignore", "warn", "return"}
      <4>1. failed' /\ h \in Handlers \ {"ignore", "warn", "return"}
        BY <1>1, <2>1, <3>2
      <4>2. PlannedSeq(s, lenient, failed') /\ ~Has(s, 1)
        BY <1>0, <2>2, <4>1, ErrorFails
      <4> QED
        BY <4>1, <4>2
    <3> QED
      BY <3>1, <3>2
  <2>6. s \in Seq(Ops)
    BY <2>5 DEF PlannedSeq
  <2>7. /\ todo' \in [Thread -> Seq(Ops)] /\ MainScript' = s /\ todo'["abort"] = todo["abort"]
    BY <1>0, <2>1, <2>6 DEF Thread, MainScript
  <2> HIDE DEF s
  <2>8. ~failed' => ~failed
    BY <2>1
  <2>9. PlannedSeq(MainScript', lenient', failed') /\ (~failed' => FollowedUp(MainScript'))
        /\ (Has(MainScript', 1) => run' = P!Idle("none", Nil))
    BY <2>4, <2>5, <2>7, <2>8 DEF TypeIInv, ScriptsOK, Left
  <2>10. \A k \in DOMAIN todo'["abort"] : Stopping(todo'["abort"][k])
    BY <2>7 DEF TypeIInv, ScriptsOK
  <2> QED
    BY <2>2, <2>7, <2>9, <2>10 DEF ScriptsOK, Left
<1> QED
  BY <1>2, <1>3 DEF Thread

\* ... or stays where it is.
LEMMA StayOK ==
  ASSUME TypeIInv, UNCHANGED <<todo, lenient, failed>>, run' = run \/ ~Left(1)
  PROVE  ScriptsOK' /\ todo' \in [Thread -> Seq(Ops)] /\ failed' \in BOOLEAN
<1>1. MainScript' = MainScript
  BY DEF MainScript
<1> QED
  BY <1>1 DEF TypeIInv, TypeOK, ScriptsOK, Left

LEMMA TypesOf ==
  ASSUME TypeIInv
  PROVE  /\ P!TypeOK /\ R!TypeOK /\ OwnTypes /\ RunOK /\ ScriptsOK
         /\ DetailsTypeOK
  BY TypeParts, DetailsAlike DEF TypeIInv, P!TypeOK

LEMMA TypesAfter ==
  ASSUME P!TypeOK', R!TypeOK', OwnTypes', RunOK', ScriptsOK'
  PROVE  TypeIInv'
  BY TypePartsAfter DEF TypeIInv

\* A step of a script that touches neither RunProbes nor ChaosResult.
LEMMA ComponentsSame ==
  ASSUME TypeIInv, UNCHANGED <<probes, probeVars, resultVars>>, DetailsTypeOK'
  PROVE  P!TypeOK' /\ RunOK' /\ R!TypeOK' /\ UNCHANGED run
<1>1. UNCHANGED <<probes, probeVars>> /\ UNCHANGED <<probes, resultVars>>
  OBVIOUS
<1> QED
  BY <1>1, TypesOf, SameProbe, SameResult DEF probeVars

LEMMA DoInitProbesOK ==
  ASSUME TypeIInv, NEW t \in Thread, DoInitProbes(t)
  PROVE  TypeIInv'
<1>1. todo[t] # <<>> /\ Head(todo[t]).op = "initProbes"
  BY DEF DoInitProbes, At
<1>2. t = "main"
  BY <1>1, NextOperation DEF Stopping
<1>3. Rank(Head(MainScript)) = 1 /\ PlannedSeq(MainScript, lenient, failed) /\ MainScript # <<>>
  BY <1>1, <1>2, TypesOf DEF Rank, MainScript, ScriptsOK
<1>4. run = P!Idle("none", Nil)
  <2>1. Left(1)
    BY <1>3, HeadAndTail DEF Left
  <2> QED
    BY <2>1, TypesOf DEF ScriptsOK
<1>5. /\ UNCHANGED <<verdict, phase, passedProbeCount, err, run, engineState, raced, cr, call,
                     targets, engineProbes, oldResult, lenient, busy, process, watcher, signal,
                     chaos, eventsDetails, published, recorded, eot>>
      /\ Succeed(t) \/ Fail(t)
  BY DEF DoInitProbes
<1>6. ScriptsOK' /\ todo' \in [Thread -> Seq(Ops)] /\ failed' \in BOOLEAN
  BY <1>1, <1>5, DoneOK, FailOK DEF Succeed
<1>7. OwnTypes'
  BY <1>5, <1>6, TypesOf DEF OwnTypes
<1>8. CASE /\ probes' = engineProbes
           /\ probeDetails' = InitialProbeDetails(engineProbes)
           /\ poller' = [i \in DOMAIN engineProbes |-> "none"]
           /\ probePod' = [i \in DOMAIN engineProbes |-> "none"]
           /\ lastEval' = [i \in DOMAIN engineProbes |-> "none"]
           /\ wrote' = [i \in {P!Main} \union DOMAIN engineProbes |-> Nil]
           /\ crProbes' = [i \in DOMAIN engineProbes |-> [k \in StatusKeys |-> "none"]]
  <2>1. engineProbes \in ProbeLists /\ engineProbes \in Seq(ProbeAttributes)
        /\ Len(engineProbes) \in Nat
    BY TypesOf, ProbeListsAssumption DEF OwnTypes
  <2>2. InitialProbeDetails(engineProbes) \in [DOMAIN engineProbes -> ProbeDetails]
    BY DEF InitialProbeDetails, SetProbeInitialStatus, ProbeDetails, ProbePhases, Statuses, Errors
  <2>3. DetailsTypeOK'
    BY <1>5, <1>8, <2>1, <2>2, TypesOf DEF DetailsTypeOK
  <2>4. R!TypeOK'
    <3>1. crProbes' \in [DOMAIN probes' -> [R!StatusKeys -> R!Statuses]]
      BY <1>8 DEF StatusKeys, R!StatusKeys, R!Statuses
    <3> QED
      BY <1>5, <2>3, <3>1, TypesOf, DetailsAlikeAfter DEF R!TypeOK
  <2>5. run' \in Runs(Len(probes'))
    <3>1. 1 \in 1 .. Len(engineProbes) + 1
      BY <2>1
    <3> QED
      BY <1>4, <1>5, <1>8, <3>1 DEF Runs, P!Idle, P!RunPCs, P!Errors, Nil, P!Nil
  <2>6. P!TypeOK'
    <3>1. poller' \in [DOMAIN probes' -> P!PollerStates]
          /\ probePod' \in [DOMAIN probes' -> P!PodStates]
      BY <1>8 DEF P!PollerStates, P!PodStates
    <3>2. /\ lastEval' \in [DOMAIN probes' -> P!Errors \union {"none"}]
          /\ wrote' \in [{P!Main} \union DOMAIN probes' -> P!Errors]
      BY <1>8 DEF P!Errors, Nil, P!Nil
    <3>3. P!DetailsTypeOK'
      BY <2>3, DetailsAlikeAfter
    <3> QED
      BY <1>5, <2>5, <3>1, <3>2, <3>3, TypesOf DEF P!TypeOK, Runs
  <2>7. RunOK'
    BY <1>4, <1>5 DEF RunOK, P!Idle
  <2> QED
    BY <1>6, <1>7, <2>4, <2>6, <2>7, TypesAfter
<1>9. CASE UNCHANGED <<probes, probeDetails, poller, probePod, lastEval, wrote, crProbes>>
  <2>1. UNCHANGED detailVars /\ UNCHANGED <<probes, probeVars, resultVars>>
    BY <1>5, <1>9 DEF detailVars, probeVars, resultVars
  <2> QED
    BY <1>6, <1>7, <2>1, TypesOf, SameDetails, ComponentsSame, TypesAfter
<1> QED
  BY <1>8, <1>9, Zenon DEF DoInitProbes

LEMMA CallUpdateOK ==
  ASSUME TypeIInv, NEW t \in Thread, CallUpdate(t)
  PROVE  TypeIInv'
<1>1. todo[t] # <<>> /\ Head(todo[t]).op = "update" /\ R!CallChaosResult(t, Arg(t))
  BY DEF CallUpdate, At
<1>2. Arg(t) \in {"SOT", "EOT"}
  BY <1>1, NextOperation DEF Stopping, Planned, Arg
<1>3. /\ busy' = [busy EXCEPT ![t] = TRUE]
      /\ UNCHANGED <<probeVars, engineProbes, oldResult, lenient, todo, process, watcher, signal,
                     chaos, eventsDetails, published, recorded, eot, failed>>
  BY DEF CallUpdate
<1>4. R!TypeOK' /\ UNCHANGED detailVars
  BY <1>1, <1>2, TypesOf, ResultStepTypeOK DEF R!CallChaosResult, detailVars, R!detailVars
<1>5. DetailsTypeOK' /\ UNCHANGED <<probes, probeVars>> /\ UNCHANGED run
  BY <1>3, <1>4, TypesOf, SameDetails DEF probeVars
<1>6. P!TypeOK' /\ RunOK'
  BY <1>5, TypesOf, SameProbe
<1>7. ScriptsOK' /\ todo' \in [Thread -> Seq(Ops)] /\ failed' \in BOOLEAN
  BY <1>3, <1>5, StayOK
<1>8. OwnTypes'
  BY <1>3, <1>7, TypesOf DEF OwnTypes
<1> QED
  BY <1>4, <1>6, <1>7, <1>8, TypesAfter

LEMMA ReturnUpdateOK ==
  ASSUME TypeIInv, NEW t \in Thread, ReturnUpdate(t)
  PROVE  TypeIInv'
<1>1. /\ todo[t] # <<>> /\ busy' = [busy EXCEPT ![t] = FALSE]
      /\ Succeed(t) \/ Fail(t)
      /\ recorded' = IF Arg(t) = "SOT" THEN cr.exists ELSE recorded
      /\ eot' = IF t = "main" /\ Arg(t) = "EOT" THEN call[t].ret ELSE eot
      /\ UNCHANGED <<detailVars, probeVars, resultVars, engineProbes, oldResult, lenient, process,
                     watcher, signal, chaos, eventsDetails, published>>
  BY DEF ReturnUpdate, At
<1>2. DetailsTypeOK' /\ probes' = probes
  BY <1>1, TypesOf, SameDetails
<1>3. P!TypeOK' /\ RunOK' /\ R!TypeOK' /\ UNCHANGED run
  BY <1>1, <1>2, ComponentsSame
<1>4. ScriptsOK' /\ todo' \in [Thread -> Seq(Ops)] /\ failed' \in BOOLEAN
  BY <1>1, <1>3, DoneOK, FailOK DEF Succeed
<1>5. recorded' \in BOOLEAN /\ eot' \in Errors \union {"none"}
  <2>1. cr.exists \in BOOLEAN /\ call[t].ret \in Errors
    BY TypesOf, ErrorsAlike DEF R!TypeOK, R!Results, R!Calls
  <2> QED
    BY <1>1, <2>1, TypesOf DEF OwnTypes
<1>6. OwnTypes'
  BY <1>1, <1>4, <1>5, TypesOf DEF OwnTypes
<1> QED
  BY <1>3, <1>4, <1>6, TypesAfter

\* The operations that only take their place in the script, and set what is theirs.
LEMMA SimpleOK ==
  ASSUME TypeIInv, NEW t \in Thread, todo[t] # <<>>,
         (Done(t) /\ UNCHANGED failed) \/ Fail(t),
         UNCHANGED <<probes, probeDetails, passedProbeCount, probeVars, resultVars,
                     engineProbes, oldResult, lenient, busy, signal, chaos, recorded, eot>>,
         verdict' \in Verdicts, phase' \in ResultPhases,
         process' \in {"up", "returned", "exited"}, watcher' \in {"none", "exit", "stay"},
         eventsDetails' \in [kind : {"ChaosResult", "ChaosEngine"}, reason : Reasons],
         published' \subseteq [kind : {"ChaosResult", "ChaosEngine"}, reason : Reasons]
  PROVE  TypeIInv'
<1>1. DetailsTypeOK'
  BY TypesOf DEF DetailsTypeOK
<1>2. P!TypeOK' /\ RunOK' /\ R!TypeOK' /\ UNCHANGED run
  BY <1>1, ComponentsSame
<1>3. ScriptsOK' /\ todo' \in [Thread -> Seq(Ops)] /\ failed' \in BOOLEAN
  BY <1>2, DoneOK, FailOK
<1>4. OwnTypes'
  BY <1>3, TypesOf DEF OwnTypes
<1> QED
  BY <1>2, <1>3, <1>4, TypesAfter

LEMMA SimpleStepsOK ==
  ASSUME TypeIInv, NEW t \in Thread,
         \/ DoSetEvent(t) \/ GenerateEvents(t) \/ LaunchWatcher(t) \/ StatusCheck(t)
         \/ PassVerdict(t) \/ CompleteResult(t) \/ Exit(t)
  PROVE  TypeIInv'
<1>0. /\ verdict \in Verdicts /\ phase \in ResultPhases
      /\ process \in {"up", "returned", "exited"} /\ watcher \in {"none", "exit", "stay"}
      /\ eventsDetails \in [kind : {"ChaosResult", "ChaosEngine"}, reason : Reasons]
      /\ published \subseteq [kind : {"ChaosResult", "ChaosEngine"}, reason : Reasons]
  BY TypesOf DEF DetailsTypeOK, OwnTypes
<1>1. CASE DoSetEvent(t)
  <2>1. todo[t] # <<>>
    BY <1>1 DEF DoSetEvent, At
  <2>2. eventsDetails' \in [kind : {"ChaosResult", "ChaosEngine"}, reason : Reasons]
    <3>1. CASE At(t, "setResultEvent")
      <4>1. Arg(t) \in {"Fail", "Awaited", "byVerdict", "Summary", "Stopped"}
        BY <2>1, <3>1, NextOperation DEF At, Arg, Planned, Stopping
      <4>2. ~At(t, "setEngineEvent")
        BY <3>1 DEF At
      <4>3. eventsDetails' =
             [kind |-> "ChaosResult",
              reason |-> IF Arg(t) # "byVerdict" THEN Arg(t)
                         ELSE IF verdict = "Pass" THEN "Pass" ELSE "Fail"]
        BY <1>1, <4>2 DEF DoSetEvent
      <4> QED
        BY <4>1, <4>3 DEF Reasons
    <3>2. CASE ~At(t, "setResultEvent")
      BY <1>1, <3>2 DEF DoSetEvent, Reasons
    <3> QED
      BY <3>1, <3>2
  <2> QED
    BY <1>0, <1>1, <2>1, <2>2, SimpleOK DEF DoSetEvent, detailVars
<1>2. CASE GenerateEvents(t)
  <2>1. todo[t] # <<>> /\ published' \subseteq [kind : {"ChaosResult", "ChaosEngine"}, reason : Reasons]
    BY <1>0, <1>2 DEF GenerateEvents, At
  <2> QED
    BY <1>0, <1>2, <2>1, SimpleOK DEF GenerateEvents, detailVars
<1>3. CASE LaunchWatcher(t)
  <2>1. todo[t] # <<>> /\ Head(todo[t]).op = "watch"
    BY <1>3 DEF LaunchWatcher, At
  <2>2. watcher' \in {"exit", "stay"}
    BY <1>3, <2>1, NextOperation DEF LaunchWatcher, Arg, Planned, Stopping
  <2> QED
    BY <1>0, <1>3, <2>1, <2>2, SimpleOK DEF LaunchWatcher, detailVars
<1>4. CASE StatusCheck(t)
  <2>1. todo[t] # <<>>
    BY <1>4 DEF StatusCheck, At
  <2> QED
    BY <1>0, <1>4, <2>1, SimpleOK DEF StatusCheck, Succeed, detailVars
<1>5. CASE PassVerdict(t)
  <2>1. todo[t] # <<>> /\ verdict' \in Verdicts
    BY <1>5 DEF PassVerdict, At, Verdicts
  <2> QED
    BY <1>0, <1>5, <2>1, SimpleOK DEF PassVerdict
<1>6. CASE CompleteResult(t)
  <2>1. todo[t] # <<>> /\ Head(todo[t]).op = "complete"
    BY <1>6 DEF CompleteResult, At
  <2>2. Arg(t) \in {"Fail", "Stopped"}
    BY <2>1, NextOperation DEF Arg, Planned, Stopping
  <2>3. verdict' \in Verdicts /\ phase' \in ResultPhases
    BY <1>6, <2>2 DEF CompleteResult, SetResultAfterCompletion, Verdicts, ResultPhases
  <2> QED
    BY <1>0, <1>6, <2>1, <2>3, SimpleOK DEF CompleteResult
<1>7. CASE Exit(t)
  <2>1. todo[t] # <<>>
    BY <1>7 DEF Exit, At
  <2> QED
    BY <1>0, <1>7, <2>1, SimpleOK DEF Exit, detailVars
<1> QED
  BY <1>1, <1>2, <1>3, <1>4, <1>5, <1>6, <1>7

\* A step of ChaosResult.
LEMMA ExecuteChaosResultOK ==
  ASSUME TypeIInv, NEW t \in Thread, ExecuteChaosResult(t)
  PROVE  TypeIInv'
<1>1. /\ R!ChaosResultStep(t)
      /\ UNCHANGED <<err, run, poller, probePod, engineState, lastEval, wrote, raced>>
      /\ UNCHANGED <<engineProbes, oldResult, lenient, todo, busy, process, watcher, signal,
                    chaos, eventsDetails, published, recorded, eot, failed>>
  BY DEF ExecuteChaosResult, probeVars, experimentVars
<1>2. R!TypeOK'
  BY <1>1, TypesOf, ResultStepTypeOK
<1>3. probes' = probes
  BY <1>1 DEF R!ChaosResultStep, R!PatchChaosResult, R!GetResult, R!FetchLabels, R!CreateResult,
              R!RegetResult, R!GetChaosStatus, R!FillResult, R!ScoreResult, R!UpdateResult, R!detailVars
<1>4. DetailsTypeOK'
  BY <1>2, DetailsAlikeAfter DEF R!TypeOK
<1>5. P!TypeOK' /\ RunOK'
  BY <1>1, <1>3, <1>4, TypesOf, SameProbe DEF probeVars
<1>6. ScriptsOK' /\ todo' \in [Thread -> Seq(Ops)] /\ failed' \in BOOLEAN
  BY <1>1, StayOK
<1>7. OwnTypes'
  BY <1>1, TypesOf DEF OwnTypes
<1> QED
  BY <1>2, <1>5, <1>6, <1>7, TypesAfter

\* Main is past the first operation of its script when it runs probes.
LEMMA ProbesKnown ==
  ASSUME TypeIInv, At("main", "probes") \/ At("main", "chaos")
  PROVE  /\ MainScript # <<>> /\ ~Left(1)
         /\ At("main", "probes") => Arg("main") \in P!Phases
<1>1. /\ MainScript # <<>> /\ Head(MainScript).op \in {"probes", "chaos"}
      /\ At("main", "probes") => Head(MainScript).op = "probes"
  BY DEF At, MainScript
<1>2. PlannedSeq(MainScript, lenient, failed)
  BY TypesOf DEF ScriptsOK
<1>3. /\ Planned(Head(MainScript), lenient, failed)
      /\ Left(1) <=> 1 = Rank(Head(MainScript)) \/ Has(Tail(MainScript), 1)
      /\ \A k \in DOMAIN Tail(MainScript) : Precedes(Head(MainScript), Tail(MainScript)[k])
  BY <1>1, <1>2, HeadAndTail DEF Left
<1>4. Rank(Head(MainScript)) \in {4, 5, 7}
  BY <1>1, <1>3 DEF Planned, Rank
<1>5. ~Has(Tail(MainScript), 1)
  BY <1>3, <1>4 DEF Has, Precedes
<1>6. At("main", "probes") => Arg("main") \in P!Phases
  BY <1>1, <1>3 DEF Planned, Arg, MainScript, P!Phases
<1> QED
  BY <1>1, <1>3, <1>4, <1>5, <1>6

\* RunProbes is called, or goes on.
LEMMA ProbeStepOK ==
  ASSUME TypeIInv, P!TypeOK', RunOK', ~Left(1) \/ run' = run,
         UNCHANGED <<probes, resultVars, todo, lenient, failed>>, OwnTypes'
  PROVE  TypeIInv'
<1>1. DetailsTypeOK'
  BY DetailsAlikeAfter DEF P!TypeOK
<1>2. R!TypeOK'
  BY <1>1, TypesOf, SameResult DEF resultVars
<1>3. ScriptsOK'
  BY StayOK
<1> QED
  BY <1>2, <1>3, TypesAfter

LEMMA CallRunProbesOK ==
  ASSUME TypeIInv, NEW ph \in P!Phases, CallRunProbes(ph), ~Left(1), chaos' \in ChaosStates
  PROVE  TypeIInv'
<1>1. /\ P!RunProbes(ph)
      /\ busy' = [busy EXCEPT !["main"] = TRUE]
      /\ UNCHANGED <<resultVars, engineProbes, oldResult, lenient, todo, process, watcher, signal,
                     eventsDetails, published, recorded, eot, failed>>
  BY DEF CallRunProbes
<1>2. P!TypeOK' /\ RunOK' /\ UNCHANGED <<probes, verdict, phase>>
  BY <1>1, TypesOf, RunProbesTyped
<1>3. OwnTypes'
  BY <1>1, TypesOf DEF OwnTypes, Thread
<1> QED
  BY <1>1, <1>2, <1>3, ProbeStepOK

LEMMA CallProbesOK ==
  ASSUME TypeIInv, CallProbes
  PROVE  TypeIInv'
<1>1. At("main", "probes") /\ todo["main"] # <<>> /\ "main" \in Thread
  BY DEF CallProbes, At, Thread
<1>2. CASE CallRunProbes(Arg("main")) /\ UNCHANGED chaos
  BY <1>1, <1>2, ProbesKnown, CallRunProbesOK, TypesOf DEF OwnTypes
<1>3. CASE /\ Done("main")
           /\ UNCHANGED <<detailVars, probeVars, resultVars, engineProbes, oldResult, lenient, busy,
                          process, watcher, signal, chaos, eventsDetails, published, recorded,
                          eot, failed>>
  BY <1>1, <1>3, SimpleOK, TypesOf DEF detailVars, DetailsTypeOK, OwnTypes
<1> QED
  BY <1>2, <1>3 DEF CallProbes

LEMMA InjectChaosOK ==
  ASSUME TypeIInv, InjectChaos
  PROVE  TypeIInv'
<1>1. At("main", "chaos") /\ chaos' \in ChaosStates
  BY DEF InjectChaos, ChaosStates
<1>2. ~Left(1)
  BY <1>1, ProbesKnown
<1>3. CASE CallRunProbes("DuringChaos")
  BY <1>1, <1>2, <1>3, CallRunProbesOK DEF P!Phases
<1>4. CASE UNCHANGED <<detailVars, probeVars, resultVars, engineProbes, oldResult, lenient, todo,
                       busy, process, watcher, signal, eventsDetails, published, recorded,
                       eot, failed>>
  <2>1. DetailsTypeOK' /\ UNCHANGED <<probes, probeVars, resultVars>>
    BY <1>4, TypesOf, SameDetails
  <2>2. P!TypeOK' /\ RunOK' /\ R!TypeOK' /\ UNCHANGED run
    BY <2>1, ComponentsSame
  <2>3. ScriptsOK'
    BY <1>4, <2>2, StayOK
  <2>4. OwnTypes'
    BY <1>1, <1>4, TypesOf DEF OwnTypes
  <2> QED
    BY <2>2, <2>3, <2>4, TypesAfter
<1> QED
  BY <1>3, <1>4 DEF InjectChaos

\* RunProbes has returned.
LEMMA ReturnedOK ==
  ASSUME TypeIInv, ReturnProbes \/ EndChaos
  PROVE  TypeIInv'
<1>1. /\ todo["main"] # <<>> /\ busy' = [busy EXCEPT !["main"] = FALSE]
      /\ Succeed("main") \/ Fail("main")
      /\ UNCHANGED <<detailVars, probeVars, resultVars, engineProbes, oldResult, lenient, process,
                     watcher, signal, eventsDetails, published, recorded, eot>>
      /\ chaos' = chaos \/ chaos' = "injected"
  BY DEF ReturnProbes, EndChaos, At
<1>2. "main" \in Thread
  BY DEF Thread
<1>3. DetailsTypeOK' /\ UNCHANGED <<probes, probeVars, resultVars>>
  BY <1>1, TypesOf, SameDetails
<1>4. P!TypeOK' /\ RunOK' /\ R!TypeOK' /\ UNCHANGED run
  BY <1>3, ComponentsSame
<1>5. ScriptsOK' /\ todo' \in [Thread -> Seq(Ops)] /\ failed' \in BOOLEAN
  BY <1>1, <1>2, <1>4, DoneOK, FailOK DEF Succeed
<1>6. OwnTypes'
  BY <1>1, <1>5, TypesOf DEF OwnTypes, ChaosStates
<1> QED
  BY <1>4, <1>5, <1>6, TypesAfter

LEMMA ExecuteProbesOK ==
  ASSUME TypeIInv, ExecuteProbes
  PROVE  TypeIInv'
<1>1. P!Execute /\ UNCHANGED <<resultVars, experimentVars>>
  BY DEF ExecuteProbes
<1>2. P!TypeOK' /\ RunOK' /\ UNCHANGED <<probes, verdict, phase>>
  BY <1>1, TypesOf, ExecuteTyped
<1>3. run.pc # "idle"
  BY <1>1 DEF P!Execute, P!GetProbesFromEngine, P!SkipForeground, P!EndOfLoop, P!Assign, P!Decide,
     P!PreChaosCmdProbe, P!PreChaosHTTPProbe, P!PreChaosK8sProbe, P!PreChaosPromProbe,
     P!PostChaosCmdProbe, P!PostChaosHTTPProbe, P!PostChaosK8sProbe, P!PostChaosPromProbe,
     P!OnChaosCmdProbe, P!OnChaosHTTPProbe, P!OnChaosK8sProbe, P!OnChaosPromProbe, P!Executing,
     P!CreateHelperPod, P!CreateProbePod, P!CheckProbePod, P!ProbePodChecked, P!Trigger,
     P!ValidateResult, P!MarkVerdict, P!StoreReturned, P!LoadReturned, P!DeleteProbePod
<1>4. ~Left(1)
  BY <1>3, TypesOf DEF ScriptsOK, P!Idle
<1>5. OwnTypes' /\ UNCHANGED <<todo, lenient, failed>>
  BY <1>1, TypesOf DEF OwnTypes, experimentVars
<1> QED
  BY <1>1, <1>2, <1>4, <1>5, ProbeStepOK

LEMMA PollProbeOK ==
  ASSUME TypeIInv, NEW i \in DOMAIN probes, PollProbe(i)
  PROVE  TypeIInv'
<1>1. P!Poller(i) /\ UNCHANGED <<resultVars, experimentVars>>
  BY DEF PollProbe
<1>2. P!TypeOK' /\ RunOK' /\ UNCHANGED <<probes, verdict, phase, run>>
  BY <1>1, TypesOf, PollerTyped
<1>3. OwnTypes' /\ UNCHANGED <<todo, lenient, failed>>
  BY <1>1, TypesOf DEF OwnTypes, experimentVars
<1> QED
  BY <1>1, <1>2, <1>3, ProbeStepOK

\* The abort watchers have a script of their own.
LEMMA AbortScripts ==
  ASSUME NEW s \in {AbortWatcher, AbortWatcherWithoutExit}
  PROVE  s \in Seq(Ops) /\ \A k \in DOMAIN s : Stopping(s[k])
<1> DEFINE S == {o \in Ops : Stopping(o)}
<1>1. /\ Complete("Stopped") \in Seq(S) /\ Update("EOT", "ignore") \in Seq(S)
      /\ EngineEvent \in Seq(S) /\ ResultEvent("Stopped") \in Seq(S) /\ Op("exit", "", "ignore") \in Seq(S)
  <2>1. ASSUME NEW op, NEW arg, [op |-> op, arg |-> arg, onError |-> "ignore"] \in S
        PROVE  Op(op, arg, "ignore") \in Seq(S)
    <3> HIDE DEF S
    <3> QED
      BY <2>1 DEF Op
  <2>2. /\ [op |-> "complete", arg |-> "Stopped", onError |-> "ignore"] \in S
        /\ [op |-> "update", arg |-> "EOT", onError |-> "ignore"] \in S
        /\ [op |-> "setEngineEvent", arg |-> "", onError |-> "ignore"] \in S
        /\ [op |-> "setResultEvent", arg |-> "Stopped", onError |-> "ignore"] \in S
        /\ [op |-> "generateEvents", arg |-> "", onError |-> "ignore"] \in S
        /\ [op |-> "exit", arg |-> "", onError |-> "ignore"] \in S
    BY DEF Ops, OpNames, Args, Reasons, Handlers, Stopping
  <2> HIDE DEF S
  <2>3. /\ Op("complete", "Stopped", "ignore") \in Seq(S) /\ Op("update", "EOT", "ignore") \in Seq(S)
        /\ Op("setEngineEvent", "", "ignore") \in Seq(S)
        /\ Op("setResultEvent", "Stopped", "ignore") \in Seq(S)
        /\ Op("generateEvents", "", "ignore") \in Seq(S) /\ Op("exit", "", "ignore") \in Seq(S)
    BY <2>1, <2>2
  <2> QED
    BY <2>3, ConcatProperties DEF Complete, Update, EngineEvent, ResultEvent
<1> HIDE DEF S
<1>2. AbortWatcherWithoutExit \in Seq(S)
  BY <1>1, ConcatProperties DEF AbortWatcherWithoutExit
<1>3. AbortWatcher \in Seq(S)
  BY <1>1, <1>2, ConcatProperties DEF AbortWatcher
<1>4. s \in Seq(S)
  BY <1>2, <1>3
<1>5. s \in Seq(Ops) /\ \A k \in DOMAIN s : s[k] \in S
  BY <1>4 DEF S
<1> QED
  BY <1>5 DEF S

LEMMA SignalOK ==
  ASSUME TypeIInv, Signal
  PROVE  TypeIInv'
<1>1. PICK s \in {AbortWatcher, AbortWatcherWithoutExit} : todo' = [todo EXCEPT !["abort"] = s]
  BY DEF Signal
<1>2. /\ signal' = chaos
      /\ UNCHANGED <<detailVars, probeVars, resultVars, engineProbes, oldResult, lenient, busy,
                     process, watcher, chaos, eventsDetails, published, recorded, eot, failed>>
  BY DEF Signal
<1>3. /\ todo' \in [Thread -> Seq(Ops)] /\ MainScript' = MainScript /\ todo'["abort"] = s
  BY <1>1, AbortScripts, TypesOf DEF OwnTypes, Thread, MainScript
<1>4. DetailsTypeOK' /\ UNCHANGED <<probes, probeVars, resultVars>>
  BY <1>2, TypesOf, SameDetails
<1>5. P!TypeOK' /\ RunOK' /\ R!TypeOK' /\ UNCHANGED run
  BY <1>4, ComponentsSame
<1>6. ScriptsOK'
  BY <1>2, <1>3, <1>5, AbortScripts, TypesOf DEF ScriptsOK, Left
<1>7. OwnTypes'
  BY <1>2, <1>3, TypesOf DEF OwnTypes
<1> QED
  BY <1>5, <1>6, <1>7, TypesAfter

LEMMA EndOK ==
  ASSUME TypeIInv, NEW how \in {"returned", "exited"}, End(how)
  PROVE  TypeIInv'
<1>1. /\ process' = how
      /\ UNCHANGED <<detailVars, probeVars, resultVars, engineProbes, oldResult, lenient, todo, busy,
                     watcher, signal, chaos, eventsDetails, published, recorded, eot, failed>>
  BY DEF End
<1>2. DetailsTypeOK' /\ UNCHANGED <<probes, probeVars, resultVars>>
  BY <1>1, TypesOf, SameDetails
<1>3. P!TypeOK' /\ RunOK' /\ R!TypeOK' /\ UNCHANGED run
  BY <1>2, ComponentsSame
<1>4. ScriptsOK'
  BY <1>1, <1>3, StayOK
<1>5. OwnTypes'
  BY <1>1, TypesOf DEF OwnTypes
<1> QED
  BY <1>3, <1>4, <1>5, TypesAfter

\* A script as it is when the process starts.
LEMMA ScriptAtStart ==
  ASSUME NEW c \in Cases
  PROVE  /\ PlannedSeq(c.script, c.script = AzureInstanceStop, No)
         /\ FollowedUp(c.script)
<1>1. c.script \in Main
  BY CasesAssumption
<1>2. ASSUME NEW lax, Scripted(c.script, lax)
      PROVE  PlannedSeq(c.script, lax, No) /\ FollowedUp(c.script)
  BY <1>2 DEF Scripted, Part, FollowedUp
<1>3. CASE c.script = <<>>
  <2>1. 1 \in Nat /\ DOMAIN <<>> = {}
    OBVIOUS
  <2>2. \A lax : PlannedSeq(<<>>, lax, No) /\ ~Has(<<>>, 1)
    BY <2>1, NoPart DEF Part
  <2>3. FollowedUp(<<>>)
    BY <2>1, <2>2 DEF FollowedUp
  <2> QED
    BY <1>3, <2>2, <2>3
<1>4. CASE c.script = AzureInstanceStop
  <2>1. PlannedSeq(c.script, Yes, No) /\ FollowedUp(c.script)
    BY <1>2, <1>4, AzureScript
  <2>2. (c.script = AzureInstanceStop) = Yes
    BY <1>4 DEF Yes
  <2> QED
    BY <2>1, <2>2
<1>5. CASE c.script # <<>> /\ c.script # AzureInstanceStop
  <2>1. PlannedSeq(c.script, No, No) /\ FollowedUp(c.script)
    BY <1>1, <1>2, <1>5, ScriptsOfMain
  <2>2. (c.script = AzureInstanceStop) = No
    BY <1>5 DEF No
  <2> QED
    BY <2>1, <2>2
<1> QED
  BY <1>3, <1>4, <1>5

LEMMA InitOK ==
  ASSUME Init
  PROVE  TypeIInv
<1>1. PICK c \in Cases : /\ engineProbes = c.probes
                         /\ signal = IF c.signal THEN "no" ELSE "never"
                         /\ lenient = (c.script = AzureInstanceStop)
                         /\ todo = [t \in Thread |-> IF t = "main" THEN c.script ELSE <<>>]
  BY DEF Init
<1>2. c.probes \in ProbeLists /\ <<>> \in ProbeLists /\ DOMAIN <<>> = {} /\ Len(<<>>) = 0
  BY CasesAssumption
<1>3. probes = <<>> /\ probeDetails = <<>> /\ crProbes = <<>> /\ P!ProbeInit /\ failed = FALSE
  BY DEF Init
<1>4. DetailsTypeOK
  BY <1>2, <1>3 DEF Init, DetailsTypeOK, Verdicts, ResultPhases
<1>5. P!TypeOK /\ RunOK /\ run = P!Idle("none", Nil)
  <2>1. run = P!Idle("none", P!Nil) /\ run = P!Idle("none", Nil)
    BY <1>3, ErrorsAlike DEF P!ProbeInit
  <2>2. run \in Runs(Len(probes)) /\ RunOK
    <3>1. Len(probes) = 0 /\ 1 \in 1 .. 0 + 1
      BY <1>2, <1>3
    <3> QED
      BY <2>1, <3>1 DEF Runs, RunOK, P!Idle, P!RunPCs, P!Errors, P!Nil
  <2>3. poller = <<>> /\ probePod = <<>> /\ lastEval = <<>>
    BY <1>2, <1>3 DEF P!ProbeInit
  <2>4. wrote \in [{P!Main} \union DOMAIN probes -> P!Errors] /\ err \in P!Errors
        /\ engineState \in {"active", "stop"} /\ raced \in BOOLEAN
    BY <1>3 DEF P!ProbeInit, P!Errors
  <2>5. P!DetailsTypeOK
    BY <1>4, DetailsAlike
  <2>6. /\ poller \in [DOMAIN probes -> P!PollerStates]
        /\ probePod \in [DOMAIN probes -> P!PodStates]
        /\ lastEval \in [DOMAIN probes -> P!Errors \union {"none"}]
    BY <1>2, <1>3, <2>3
  <2> QED
    BY <2>1, <2>2, <2>4, <2>5, <2>6 DEF P!TypeOK, Runs
<1>6. R!TypeOK
  <2>1. cr \in R!Results
    BY OldResultsAssumption DEF Init
  <2>2. call \in [Thread -> R!Calls]
    BY IdleTypeOK, ErrorsAlike DEF Init, Errors
  <2>3. crProbes \in [DOMAIN probes -> [R!StatusKeys -> R!Statuses]] /\ targets = {}
    BY <1>2, <1>3 DEF Init
  <2> QED
    BY <1>4, <2>1, <2>2, <2>3, DetailsAlike DEF R!TypeOK
<1>7. PlannedSeq(c.script, lenient, No) /\ FollowedUp(c.script) /\ c.script \in Seq(Ops)
  BY <1>1, ScriptAtStart DEF PlannedSeq
<1>8. MainScript = c.script /\ todo["abort"] = <<>> /\ todo \in [Thread -> Seq(Ops)]
  BY <1>1, <1>7 DEF MainScript, Thread
<1>9. ScriptsOK
  BY <1>2, <1>3, <1>5, <1>7, <1>8 DEF ScriptsOK, No
<1>10. OwnTypes
  BY <1>1, <1>2, <1>8, CasesAssumption DEF Init, OwnTypes, ChaosStates, Reasons, Errors
<1> QED
  BY <1>5, <1>6, <1>9, <1>10, TypeParts DEF TypeIInv

LEMMA NextOK ==
  ASSUME TypeIInv, [Next]_vars
  PROVE  TypeIInv'
<1>0. "main" \in Thread /\ "abort" \in Thread
  BY DEF Thread
<1>1. ASSUME NEW t \in Thread, ThreadStep(t)
      PROVE  TypeIInv'
  BY <1>1, DoInitProbesOK, CallUpdateOK, ReturnUpdateOK, SimpleStepsOK, ExecuteChaosResultOK
     DEF ThreadStep
<1>2. CASE MainStep
  BY <1>0, <1>1, <1>2, CallProbesOK, ReturnedOK, InjectChaosOK, ExecuteProbesOK, EndOK
     DEF MainStep, MainReturns
<1>3. CASE \E i \in DOMAIN probes : PollProbe(i)
  BY <1>3, PollProbeOK
<1>4. CASE Signal \/ ChaosLibExits
  BY <1>4, SignalOK, EndOK DEF ChaosLibExits
<1>5. CASE UNCHANGED vars
  <2>1. UNCHANGED <<detailVars, probeVars, resultVars, experimentVars>>
    BY <1>5 DEF vars
  <2>2. DetailsTypeOK' /\ UNCHANGED <<probes, probeVars, resultVars>>
    BY <2>1, TypesOf, SameDetails
  <2>3. P!TypeOK' /\ RunOK' /\ R!TypeOK' /\ UNCHANGED run
    BY <2>2, ComponentsSame
  <2>4. ScriptsOK'
    BY <2>1, <2>3, StayOK DEF experimentVars
  <2>5. OwnTypes'
    BY <2>1, TypesOf DEF OwnTypes, experimentVars
  <2> QED
    BY <2>3, <2>4, <2>5, TypesAfter
<1> QED
  BY <1>0, <1>1, <1>2, <1>3, <1>4, <1>5 DEF Next

\* Whatever has happened to a thread, what is left of its script is a rest of one of
\* the scripts of experiments/*, or of their handling of an error.
THEOREM TypeInvariance == Spec => []TypeIInv
  BY InitOK, NextOK, PTL DEF Spec

\* The details, the probe engine, the result, the event details and the watcher of an
\* experiment stay in their types (experiments/*).
THEOREM TypeCorrect == Spec => []TypeOK
<1>1. TypeIInv => TypeOK
  BY DEF TypeIInv
<1> QED
  BY <1>1, TypeInvariance, PTL
=============================================================================
