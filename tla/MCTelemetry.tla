------------------------------- MODULE MCTelemetry -------------------------------
(***************************************************************************)
(* A node that counts the traffic of the two rules it is the egress of,    *)
(* for four minutes, and two nodes that are the ingress of a rule in turn. *)
(***************************************************************************)
EXTENDS Telemetry

CONSTANTS n1, n2, r1, r2

MCTraffic ==
  [ingress |-> [r \in Rules |-> None],
   runs |-> [n \in Nodes |-> IF n = n1 THEN {r1, r2} ELSE {}],
   busy |-> {}, minutes |-> 3, bytes |-> 2]

MCStatistics ==
  [ingress |-> [r \in Rules |-> IF r = r1 THEN n1 ELSE None],
   runs |-> [n \in Nodes |-> {r1}],
   busy |-> {r1}, minutes |-> 0, bytes |-> 1]

MCScenarios == {MCTraffic, MCStatistics}
================================================================================
