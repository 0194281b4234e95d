------------------------------ MODULE PrepareRules ------------------------------
(***************************************************************************)
(* The rule list of a node's configuration, and what the forwarding engine *)
(* makes of it before it touches a socket: internal/domain/model.go        *)
(* (ForwardRule and its Validate) and prepareRules of                      *)
(* internal/forward/tcp.go.                                                *)
(*                                                                         *)
(* An address stands for a host and a port; two listen addresses are equal *)
(* here exactly when net.JoinHostPort gives equal strings.  Names, CIDR    *)
(* lists and connection limits are left out: nothing below depends on them.*)
(***************************************************************************)
EXTENDS Naturals, Sequences

CONSTANTS
  RuleIds,   \* identifiers of forwarding rules
  Nodes,     \* identifiers of nodes
  Addrs,     \* host:port pairs a rule can listen on or dial
  MaxKbps,   \* domain.MaxBandwidthKbps
  None       \* an absent map entry, node or address

ASSUME MaxKbpsAssumption == MaxKbps \in Nat

Nets == {"tcp", "udp"}

\* nets is the protocol: {"tcp"}, {"udp"} or both for tcp_udp.
ForwardRule ==
  [id : RuleIds, enabled : BOOLEAN, mode : {"direct", "relay"},
   nets : (SUBSET Nets) \ {{}}, ingress : Nodes, egress : Nodes \cup {None},
   listen : Addrs, relay : Addrs \cup {None}, target : Addrs, kbps : Nat]

\* ForwardRule.Validate: the checks that relate fields to one another.
Validate(rule) ==
  /\ rule.mode = "relay" => rule.egress # None /\ rule.egress # rule.ingress
  /\ rule.mode = "relay" /\ rule.enabled => rule.relay # None
  /\ rule.mode = "direct" => rule.egress = None /\ rule.relay = None
  /\ rule.kbps <= MaxKbps

PreparedRule ==
  [nets : (SUBSET Nets) \ {{}}, listen : Addrs, target : Addrs, kbps : Nat]

ASSUME NoneAssumption == None \notin PreparedRule /\ None \notin Nat

EffectiveIgnoringMode(rule, node) ==
  [nets   |-> rule.nets,
   listen |-> IF node # rule.ingress THEN rule.relay ELSE rule.listen,
   target |-> IF node = rule.ingress THEN rule.relay ELSE rule.target,
   kbps   |-> IF node # rule.ingress THEN 0 ELSE rule.kbps]

\* The part of a relay rule that a node runs: the ingress dials the relay
\* address, the egress listens on it and leaves the shaping to the ingress.
Effective(rule, node) ==
  [nets   |-> rule.nets,
   listen |-> IF rule.mode = "relay" /\ node # rule.ingress THEN rule.relay ELSE rule.listen,
   target |-> IF rule.mode = "relay" /\ node = rule.ingress THEN rule.relay ELSE rule.target,
   kbps   |-> IF rule.mode = "relay" /\ node # rule.ingress THEN 0 ELSE rule.kbps]

Enabled(rules) == {i \in DOMAIN rules : rules[i].enabled}

\* A relay rule of which the node is neither end.
Foreign(rule, node) == rule.mode = "relay" /\ node \notin {rule.ingress, rule.egress}

\* Two prepared rules that would listen on the same network and address.
SameListener(first, second) ==
  first.nets \cap second.nets # {} /\ first.listen = second.listen

\* prepareRules returns an error.
PrepareFails(rules, node) ==
  \/ \E i \in DOMAIN rules : ~Validate(rules[i])
  \/ \E i \in Enabled(rules) : Foreign(rules[i], node)
  \/ \E i, j \in Enabled(rules) :
       /\ i # j
       /\ \/ rules[i].id = rules[j].id
          \/ SameListener(Effective(rules[i], node), Effective(rules[j], node))

NoRules == [id \in RuleIds |-> None]
RuleMaps == [RuleIds -> PreparedRule \cup {None}]

\* The map prepareRules returns: one entry for each enabled rule.
Desired(rules, node) ==
  [id \in RuleIds |->
     IF \E i \in Enabled(rules) : rules[i].id = id
       THEN Effective(rules[CHOOSE i \in Enabled(rules) : rules[i].id = id], node)
       ELSE None]

\* No two rules of a map share a listener.
Disjoint(map) ==
  \A a, b \in RuleIds :
    a # b /\ map[a] # None /\ map[b] # None => ~SameListener(map[a], map[b])
================================================================================
