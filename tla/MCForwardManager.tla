---------------------------- MODULE MCForwardManager ----------------------------
(***************************************************************************)
(* A node with two rules and two ports, one of which is also bound through *)
(* the wildcard address.  The rule lists make every kind of change meet    *)
(* every other: a rule added, removed, moved to another address, given     *)
(* another protocol, target or rate, both rules exchanging their addresses,*)
(* a relay rule seen from its ingress and from its egress, a list that     *)
(* prepareRules rejects and a rule that is present but disabled.           *)
(***************************************************************************)
EXTENDS ForwardManager

CONSTANTS r1, r2, n1, n2, a1, a2, any1, t1, t2

MCClash == {<<a, a>> : a \in {a1, a2, any1, t1, t2}} \cup {<<a1, any1>>, <<any1, a1>>}

Direct(id, nets, listen, target, kbps) ==
  [id |-> id, enabled |-> TRUE, mode |-> "direct", nets |-> nets, ingress |-> n1,
   egress |-> None, listen |-> listen, relay |-> None, target |-> target, kbps |-> kbps]

Relay(id, ingress, egress) ==
  [id |-> id, enabled |-> TRUE, mode |-> "relay", nets |-> {"tcp"}, ingress |-> ingress,
   egress |-> egress, listen |-> a2, relay |-> a1, target |-> t1, kbps |-> 1]

Both == {"tcp", "udp"}

MCRuleLists ==
  {<<>>,
   <<Direct(r1, Both, a1, t1, 1)>>,
   <<Direct(r1, {"udp"}, a1, t2, 2), Direct(r2, {"tcp"}, a1, t1, 1)>>,
   <<Direct(r1, {"tcp"}, any1, t1, 1), Direct(r2, {"udp"}, a2, t1, 0)>>,
   <<[Direct(r1, Both, a1, t1, 1) EXCEPT !.enabled = FALSE], Relay(r2, n1, n2)>>,
   <<Relay(r2, n2, n1)>>,
   <<Direct(r1, {"tcp"}, a1, t1, 1), Direct(r2, Both, a2, t2, 1)>>,
   <<Direct(r1, {"tcp"}, a2, t2, 1), Direct(r2, {"tcp"}, a1, t2, 1)>>,
   <<Direct(r1, {"tcp"}, a1, t1, 1), Direct(r2, {"tcp"}, a1, t2, 1)>>}
================================================================================
