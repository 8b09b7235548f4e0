---------------------------- MODULE MCCloudChaos ----------------------------
(* Instances of CloudChaos: two resources, every library in both modes. *)
EXTENDS CloudChaos

Plain(kind, sequence) ==
  [kind |-> kind, sequence |-> sequence, managed |-> FALSE, targets |-> Target]

\* Besides, instances that their group replaces, and a list of one volume.
MCSetups ==
  {Plain(kind, sequence) : kind \in Kinds, sequence \in {"serial", "parallel"}}
    \union {[Plain(kind, "serial") EXCEPT !.managed = TRUE] : kind \in {"ec2Tag", "gcpVM"}}
    \union {[Plain("ebs", "serial") EXCEPT !.targets = {x}] : x \in Target}
=============================================================================
