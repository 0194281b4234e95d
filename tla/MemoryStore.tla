------------------------------ MODULE MemoryStore -------------------------------
(***************************************************************************)
(* The rules of the in-memory store (internal/store/memory.go): one mutex, *)
(* so that every call is one step, and for each node a configuration that  *)
(* is built when a rule of the node changes and served until the next      *)
(* time.  PostgreSQL has to look like this to whoever calls it: RuleStore  *)
(* implements this module.                                                 *)
(*                                                                         *)
(* Nodes have enrolled; no code disables one, so every node is available.  *)
(***************************************************************************)
EXTENDS PrepareRules

CONSTANTS
  Inputs,     \* the rules administrators ask for
  Tunnels,    \* tunnel addresses
  RelayAddr   \* the address of a relay port on a tunnel address

VARIABLES
  forwardRules,    \* memory.forwardRules, with the versions a rule carries
  configVersion,   \* ConfigVersion of memory.nodes
  tunnelAddress,   \* TunnelAddress of memory.nodes
  agentConfigs     \* memory.agentConfigs

vars == <<forwardRules, configVersion, tunnelAddress, agentConfigs>>

\* The state after EnrollAgent of every node.
Init ==
  /\ forwardRules = [id \in RuleIds |-> None]
  /\ configVersion = [n \in Nodes |-> 1]
  /\ tunnelAddress \in [Nodes -> Tunnels]
  /\ agentConfigs = [n \in Nodes |-> [version |-> 1, rules |-> <<>>]]

ruleNodeIDs(rule) ==
  {rule.ingress} \cup IF rule.mode = "relay" THEN {rule.egress} ELSE {}

\* ruleNodesAvailableLocked.
NodesAvailable(rule) == ruleNodeIDs(rule) \subseteq Nodes

\* cloneRule, with the relay hosts that are given.
Cloned(id, rule, hosts) ==
  [id |-> id, enabled |-> rule.enabled, mode |-> rule.mode, nets |-> rule.nets,
   ingress |-> rule.ingress, egress |-> rule.egress, listen |-> rule.listen,
   relay |-> IF rule.mode = "relay" THEN RelayAddr[hosts[rule.egress], rule.relay] ELSE None,
   target |-> rule.target, kbps |-> rule.kbps]

listenerConflict(candidate, excluded) ==
  \E id \in RuleIds \ {excluded} :
    /\ forwardRules[id] # None
    /\ LET rule == forwardRules[id].rule IN
         \/ /\ rule.ingress = candidate.ingress /\ rule.listen = candidate.listen
            /\ rule.nets \cap candidate.nets # {}
         \/ /\ rule.mode = "relay" /\ candidate.mode = "relay"
            /\ rule.egress = candidate.egress /\ rule.relay = candidate.relay

\* The versions of the nodes a rule leaves, stays on or comes to are raised.
Raised(nodes) ==
  [n \in Nodes |-> configVersion[n] + IF n \in nodes THEN 1 ELSE 0]

WithRule(id, rule, versions) ==
  [forwardRules EXCEPT ![id] =
     [rule |-> rule, cv |-> versions[rule.ingress],
      ecv |-> IF rule.mode = "relay" THEN versions[rule.egress] ELSE None]]

rebuildAgentConfig(n, rules) ==
  [version |-> Raised({n})[n],
   rules |-> [id \in {i \in RuleIds : rules[i] # None /\ n \in ruleNodeIDs(rules[i].rule)}
                |-> Cloned(id, rules[id].rule, tunnelAddress)]]

\* The rest of every call that changes a rule: new versions for some nodes, the
\* rules, then the configurations of these nodes.
Store(rules, nodes) ==
  /\ configVersion' = Raised(nodes)
  /\ forwardRules' = rules
  /\ agentConfigs' = [n \in Nodes |->
       IF n \in nodes THEN rebuildAgentConfig(n, rules) ELSE agentConfigs[n]]
  /\ UNCHANGED tunnelAddress

CreateForwardRule(id, rule) ==
  /\ forwardRules[id] = None /\ NodesAvailable(rule) /\ ~listenerConflict(rule, id)
  /\ LET nodes == ruleNodeIDs(rule) IN Store(WithRule(id, rule, Raised(nodes)), nodes)

UpdateForwardRule(id, rule) ==
  /\ forwardRules[id] # None /\ NodesAvailable(rule) /\ ~listenerConflict(rule, id)
  /\ LET affected == ruleNodeIDs(forwardRules[id].rule) \cup ruleNodeIDs(rule) IN
       Store(WithRule(id, rule, Raised(affected)), affected)

DeleteForwardRule(id) ==
  /\ forwardRules[id] # None
  /\ Store([forwardRules EXCEPT ![id] = None], ruleNodeIDs(forwardRules[id].rule))

\* A heartbeat reports another tunnel address: no configuration is built again.
UpdateAgentHeartbeat(n, address) ==
  /\ tunnelAddress' = [tunnelAddress EXCEPT ![n] = address]
  /\ UNCHANGED <<forwardRules, configVersion, agentConfigs>>

Next ==
  \/ \E id \in RuleIds, rule \in Inputs : CreateForwardRule(id, rule) \/ UpdateForwardRule(id, rule)
  \/ \E id \in RuleIds : DeleteForwardRule(id)
  \/ \E n \in Nodes, address \in Tunnels : UpdateAgentHeartbeat(n, address)

Spec == Init /\ [][Next]_vars

\* What a node is served is what is stored: the rules that name it and no
\* other, with every field of now but the relay host, which is the one of the
\* time the configuration was built (rebuildAgentConfigLocked).
ServedIsStored ==
  \A n \in Nodes, id \in RuleIds :
    LET served == agentConfigs[n].rules
        named == forwardRules[id] # None /\ n \in ruleNodeIDs(forwardRules[id].rule) IN
      /\ id \in DOMAIN served <=> named
      /\ named => \E hosts \in [Nodes -> Tunnels] :
                    served[id] = Cloned(id, forwardRules[id].rule, hosts)
================================================================================
