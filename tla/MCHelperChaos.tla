--------------------------- MODULE MCHelperChaos ---------------------------
(* Instances of HelperChaos: two targets, each kind of chaos in both orders. *)
EXTENDS HelperChaos, TLC

Plain(kind, sequence) ==
  [kind |-> kind, sequence |-> sequence, policy |-> "delete", sidecar |-> FALSE,
   grace |-> TRUE, eth0 |-> TRUE]

\* Every kind one by one, one kind all at once, and each other choice once.
MCSetups ==
  {Plain(kind, "serial") : kind \in Kinds}
    \union {Plain("containerKill", "parallel"),
            [Plain("diskFill", "serial") EXCEPT !.policy = "retain", !.sidecar = TRUE],
            [Plain("network", "serial") EXCEPT !.grace = FALSE]}

\* The other kinds in all targets at once: a larger instance, for the invariants alone.
ParallelSetups == {Plain(kind, "parallel") : kind \in {"network", "dns", "stress", "diskFill"}}

Symmetry == Permutations(Target)

\* Network chaos on eth0, where three attempts to revert may fail.
NetworkOnly == {Plain("network", "serial")}

\* Network chaos on an interface other than eth0.
OtherInterface == {[Plain("network", "serial") EXCEPT !.eth0 = FALSE]}
=============================================================================
