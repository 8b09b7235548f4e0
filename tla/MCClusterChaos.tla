--------------------------- MODULE MCClusterChaos ---------------------------
(* Instances of ClusterChaos: every library, in both modes where it has them. *)
EXTENDS ClusterChaos

CONSTANTS t1, t2

Plain(kind, sequence, targets) == [kind |-> kind, sequence |-> sequence, targets |-> targets]

\* One node or policy; two applications, two pods, or a config map and a deployment.
MCSetups ==
  {Plain(kind, "serial", <<t1>>) : kind \in {"taint", "drain", "partition"}}
    \union {Plain(kind, "serial", <<t1, t2>>) : kind \in {"autoscaler", "powerfulseal"}}
    \union {Plain(kind, sequence, <<t1, t2>>) : kind \in Exec, sequence \in {"serial", "parallel"}}

\* Two pods, one after the other.
FioSetups == {Plain("fio", "serial", <<t1, t2>>)}

\* One policy.
PartitionSetups == {Plain("partition", "serial", <<t1>>)}
=============================================================================
