--------------------------- MODULE MCChaosResult ---------------------------
(* Instances of ChaosResult: two threads, one of them the abort watcher. *)
EXTENDS ChaosResult, TLC

\* With and without a probe; the threads are interchangeable.
MCProbeLists ==
  {<<>>, <<[type |-> "cmdProbe", mode |-> "EOT", stopOnFailure |-> FALSE,
            source |-> FALSE, noTime |-> FALSE]>>}

\* Nothing reads the other parts of a record: they decide no step.
View ==
  LET Seen(r) == <<r.exists, r.rv, r.runs, r.ann, r.targets>>
  IN  <<probes, verdict, phase, GetProbeStatus, passedProbeCount, Seen(cr), targets,
        [t \in Thread |-> <<call[t].pc, Seen(call[t].res), call[t].allPassed,
                            IF call[t].pc \in {"get", "labels"} THEN call[t].state ELSE "">>]>>

ThreadSymmetry == Permutations(Thread)
=============================================================================
