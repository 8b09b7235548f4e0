----------------------------- MODULE RunLedger -----------------------------
(***************************************************************************)
(* What the ChaosResult custom resource promises across the runs of an     *)
(* experiment: its history is a ledger to which a publication adds at most *)
(* one run, and a status that a helper reports about a target is never     *)
(* dropped: a publication moves all statuses reported so far into its list *)
(* of targets.  Each step is atomic; ChaosResult implements it with reads  *)
(* and writes that other clients may come between.                         *)
(***************************************************************************)
EXTENDS Naturals

CONSTANTS Target,        \* the targets helpers report about
          ChaosStatus,   \* the statuses they report
          Outcome        \* the verdicts the history counts

VARIABLES ledger,      \* number of runs recorded with each outcome
          pending,     \* status reported for a target and not yet published
          published    \* the <<target, status>> pairs of the last publication

ledgerVars == <<ledger, pending, published>>

NoStatus == "none"
Reports == {<<x, pending[x]>> : x \in {y \in Target : pending[y] # NoStatus}}

LedgerInit ==
  /\ ledger = [o \in Outcome |-> 0]
  /\ pending = [x \in Target |-> NoStatus]
  /\ published = {}

Report(x, s) ==
  /\ pending' = [pending EXCEPT ![x] = s]
  /\ UNCHANGED <<ledger, published>>

Publish ==
  /\ Reports \subseteq published'
  /\ published' \subseteq Target \X ChaosStatus
  /\ pending' = [x \in Target |-> NoStatus]
  /\ \/ UNCHANGED ledger
     \/ \E o \in Outcome : ledger' = [ledger EXCEPT ![o] = @ + 1]

LedgerNext == Publish \/ \E x \in Target, s \in ChaosStatus : Report(x, s)

LedgerSpec == LedgerInit /\ [][LedgerNext]_ledgerVars
=============================================================================
