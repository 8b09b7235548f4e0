------------------------------ MODULE MCProbe ------------------------------
(* Instances of Probe: short probe lists that mix types, modes and sources. *)
EXTENDS Probe

P(type, mode, stop, source, noTime) ==
  [type |-> type, mode |-> mode, stopOnFailure |-> stop, source |-> source,
   noTime |-> noTime]

\* Without a background probe nothing runs beside the main goroutine.
ForegroundLists ==
  { <<P("cmdProbe", "SOT", TRUE, TRUE, FALSE), P("httpProbe", "Edge", FALSE, FALSE, FALSE)>>,
    <<P("k8sProbe", "Edge", TRUE, FALSE, FALSE), P("cmdProbe", "EOT", TRUE, TRUE, FALSE)>> }

MixedLists ==
  { <<P("cmdProbe", "Edge", TRUE, TRUE, FALSE), P("httpProbe", "Continuous", TRUE, FALSE, FALSE)>>,
    <<P("k8sProbe", "Continuous", FALSE, FALSE, FALSE), P("promProbe", "SOT", TRUE, FALSE, FALSE)>>,
    <<P("promProbe", "Continuous", TRUE, FALSE, FALSE), P("k8sProbe", "EOT", FALSE, FALSE, FALSE)>>,
    <<P("httpProbe", "OnChaos", FALSE, FALSE, FALSE), P("cmdProbe", "Edge", FALSE, FALSE, FALSE)>> }

BackgroundLists ==
  { <<P("promProbe", "Continuous", FALSE, FALSE, FALSE), P("promProbe", "OnChaos", FALSE, FALSE, FALSE)>>,
    <<P("cmdProbe", "Continuous", FALSE, FALSE, FALSE)>>,
    <<P("cmdProbe", "Continuous", TRUE, TRUE, FALSE)>>,
    <<P("cmdProbe", "OnChaos", TRUE, TRUE, FALSE)>>,
    <<P("cmdProbe", "OnChaos", FALSE, FALSE, TRUE)>>,
    <<P("k8sProbe", "OnChaos", TRUE, FALSE, FALSE)>>,
    <<P("promProbe", "OnChaos", FALSE, FALSE, TRUE)>> }

MCProbeLists == ForegroundLists \union MixedLists \union BackgroundLists
=============================================================================
