------------------------------ MODULE MCRuleStore -------------------------------
(***************************************************************************)
(* Two nodes, two requests at a time and rules that are direct or relayed  *)
(* in either direction, on the same or on different listeners; the tunnel  *)
(* address of one node changes.                                            *)
(***************************************************************************)
EXTENDS RuleStore, TLC

CONSTANTS r1, r2, n1, n2, a1, p1, h1, h2, h3, q1, q2, q3, t1, x, y

MCRank == [n \in Nodes |-> IF n = n1 THEN 1 ELSE 2]
MCReports == [n \in Nodes |-> IF n = n1 THEN {h1} ELSE {h2, h3}]
MCRelayAddr ==
  [endpoint \in Tunnels \X Ports |->
     CASE endpoint[1] = h1 -> q1 [] endpoint[1] = h2 -> q2 [] endpoint[1] = h3 -> q3]

Direct(nets, node, listen) ==
  [enabled |-> TRUE, mode |-> "direct", nets |-> nets, ingress |-> node, egress |-> None,
   listen |-> listen, relay |-> None, target |-> t1, kbps |-> 0]

Relay(ingress, egress) ==
  [enabled |-> TRUE, mode |-> "relay", nets |-> {"tcp"}, ingress |-> ingress, egress |-> egress,
   listen |-> a1, relay |-> p1, target |-> t1, kbps |-> 0]

\* A direct rule on the listener of a relay, and one on the address of the other
\* relay but another network, which may be stored beside it.
MCInputs ==
  {Direct({"tcp", "udp"}, n1, a1), Direct({"udp"}, n2, a1), Relay(n1, n2), Relay(n2, n1)}

\* A direct rule on the tunnel address of the node that relays.
MCEgressInputs == {Relay(n1, n2), Direct({"tcp"}, n2, q2)}

MCSymmetry == Permutations(Requests) \cup Permutations(RuleIds)
================================================================================
