------------------------------- MODULE RuleStore --------------------------------
(***************************************************************************)
(* The forwarding rules in PostgreSQL: CreateForwardRule,                  *)
(* UpdateForwardRule and DeleteForwardRule of                              *)
(* internal/store/postgres/postgres.go as the READ COMMITTED transactions  *)
(* they are, and ConfigForAgent, which reads the version of a node in one  *)
(* statement and its rules in another, outside any transaction.            *)
(*                                                                         *)
(* A transaction takes its locks one statement at a time and keeps them to *)
(* its end; its writes appear all at once when it commits, or never.  The  *)
(* unique indexes are looked at when it commits: a second writer of a key  *)
(* waits for the first to end before it gets its answer.                   *)
(*                                                                         *)
(* A row holds what conflicts and routing depend on.  The relay host of a  *)
(* rule is not in its row: every read joins the tunnel address that the    *)
(* egress node's last heartbeat has written, and a heartbeat raises no     *)
(* version.  No code disables a node, so every node is available.          *)
(***************************************************************************)
EXTENDS FiniteSets, PrepareRules

CONSTANTS
  Rank,         \* the order of the node identifiers, sort.Strings
  Ports,        \* relay ports
  Tunnels,      \* tunnel addresses
  Reports,      \* those that each node's agent reports, None for none
  RelayAddr,    \* the address of a relay port on a tunnel address
  Inputs,       \* the rules administrators ask for, as buildForwardRule makes them
  Requests,     \* requests the control plane serves at the same time
  MaxVersion    \* bound on the versions of a node, for model checking

ASSUME NodesAssumption == IsFiniteSet(Nodes)
ASSUME RankAssumption ==
  Rank \in [Nodes -> Nat] /\ \A m, n \in Nodes : Rank[m] = Rank[n] => m = n
ASSUME RelayAddrAssumption == RelayAddr \in [Tunnels \X Ports -> Addrs]

\* What nodes.tunnel_address may hold: NULL for a node that has reported none.
Hosts == Tunnels \cup {None}

ASSUME ReportsAssumption == Reports \in [Nodes -> SUBSET Hosts]

\* A rule as it is stored, without its identifier: relay is a port.
Input ==
  [enabled : BOOLEAN, mode : {"direct", "relay"}, nets : (SUBSET Nets) \ {{}},
   ingress : Nodes, egress : Nodes \cup {None}, listen : Addrs,
   relay : Ports \cup {None}, target : Addrs, kbps : Nat]

ASSUME InputsAssumption ==
  /\ Inputs \subseteq Input
  /\ \A input \in Inputs :
       IF input.mode = "relay" THEN input.egress \in Nodes \ {input.ingress} /\ input.relay \in Ports
                               ELSE input.egress = None /\ input.relay = None

\* A committed row: config_version and egress_config_version with the rule.
Row == [rule : Inputs, cv : Nat, ecv : Nat \cup {None}]

\* A transaction under way: bumped holds the versions it has given to nodes.
Transaction ==
  [op : {"create", "update", "delete"}, id : RuleIds, input : Inputs \cup {None},
   at : {"row", "listener", "bump"}, affected : SUBSET Nodes,
   bumped : [Nodes -> Nat \cup {None}]]

VARIABLES
  rows,      \* the committed forward_rules table
  version,   \* the committed config_version of each node
  tunnelAddress,   \* the committed tunnel_address of each node
  drawn,     \* identifiers auth.NewID has drawn
  tx,        \* the transaction of each request, None when it has none
  answer     \* what the last ConfigForAgent has read, for whom

vars == <<rows, version, tunnelAddress, drawn, tx, answer>>

ASSUME NoneIsNoRow == None \notin Row /\ None \notin Transaction /\ None \notin Inputs /\ None \notin Nodes

RuleNodesIngressOnly(rule) == {rule.ingress}

\* The nodes a rule concerns, whose versions its changes raise.
RuleNodes(rule) == IF rule.mode = "relay" THEN {rule.ingress, rule.egress} ELSE {rule.ingress}

\* A stored rule with its relay endpoint.
Scanned(id, relay) ==
  LET rule == rows[id].rule IN
    [id |-> id, enabled |-> rule.enabled, mode |-> rule.mode, nets |-> rule.nets,
     ingress |-> rule.ingress, egress |-> rule.egress, listen |-> rule.listen,
     relay |-> relay, target |-> rule.target, kbps |-> rule.kbps]

\* What a node is sent of a row when the nodes have these tunnel addresses: the
\* relay port on the one of the egress node.
SentWith(id, hosts) ==
  LET rule == rows[id].rule
      host == hosts[rule.egress]
  IN Scanned(id, IF rule.mode = "relay" /\ host # None THEN RelayAddr[host, rule.relay] ELSE None)

Stored == {id \in RuleIds : rows[id] # None}

\* The rows that name a node, on either end.
Naming(node) == {id \in Stored : node \in RuleNodes(rows[id].rule)}

RulesWith(node, hosts) == [id \in Naming(node) |-> SentWith(id, hosts)]

\* The SELECT of ConfigForAgent.
RulesOf(node) == RulesWith(node, tunnelAddress)

TypeOK ==
  /\ rows \in [RuleIds -> Row \cup {None}]
  /\ \A id \in Stored : rows[id].ecv = None <=> rows[id].rule.mode = "direct"
  /\ version \in [Nodes -> Nat \ {0}] /\ tunnelAddress \in [Nodes -> Hosts]
  /\ drawn \subseteq RuleIds /\ Stored \subseteq drawn
  /\ tx \in [Requests -> Transaction \cup {None}]
  /\ \A t \in Requests : tx[t] # None =>
       {n \in Nodes : tx[t].bumped[n] # None} \subseteq tx[t].affected

Init ==
  /\ rows = [id \in RuleIds |-> None]
  /\ version = [n \in Nodes |-> 1] /\ tunnelAddress = [n \in Nodes |-> None]
  /\ drawn = {}
  /\ tx = [t \in Requests |-> None]
  /\ answer \in [node : Nodes, version : {1}, rules : {<<>>}]

--------------------------------------------------------------------------------
Begin(t, op, id, input, at, affected) ==
  /\ tx[t] = None
  /\ tx' = [tx EXCEPT ![t] =
              [op |-> op, id |-> id, input |-> input, at |-> at, affected |-> affected,
               bumped |-> [n \in Nodes |-> None]]]
  /\ UNCHANGED <<rows, version, tunnelAddress, answer>>

\* buildForwardRule: a relay is enabled only if both nodes have a tunnel address
\* when it looks, which is before the transaction.
Provisioned(input) ==
  input.mode = "relay" /\ input.enabled => \A n \in RuleNodes(input) : tunnelAddress[n] # None

\* A new rule has a fresh identifier and no row to lock.
BeginCreate(t, id, input) ==
  /\ Provisioned(input)
  /\ id \notin drawn
  /\ drawn' = drawn \cup {id}
  /\ Begin(t, "create", id, input, "listener", RuleNodes(input))

BeginUpdate(t, id, input) ==
  /\ Provisioned(input)
  /\ id \in Stored
  /\ Begin(t, "update", id, input, "row", {})
  /\ UNCHANGED drawn

BeginDelete(t, id) ==
  /\ id \in Stored
  /\ Begin(t, "delete", id, None, "row", {})
  /\ UNCHANGED drawn

Rollback(t) ==
  /\ tx' = [tx EXCEPT ![t] = None]
  /\ UNCHANGED <<rows, version, tunnelAddress, drawn, answer>>

ToBump(t) == {n \in tx[t].affected : tx[t].bumped[n] = None}

BumpNextUnsorted(t, n) ==
  /\ n \in ToBump(t)
  /\ tx[t].op # "delete" /\ tx[t].input.ingress \in ToBump(t) => n = tx[t].input.ingress

\* The nodes are taken in the order of their identifiers.
BumpNext(t, n) == n \in ToBump(t) /\ \A m \in ToBump(t) : Rank[n] <= Rank[m]

BlocksWithoutKey(u, t) ==
  \/ /\ tx[t].at = "row"
     /\ tx[u].op # "create" /\ tx[u].at # "row" /\ tx[u].id = tx[t].id
  \/ /\ tx[t].at = "bump"
     /\ \E n \in Nodes : BumpNext(t, n) /\ tx[u].bumped[n] # None

\* A lock that u holds keeps the next statement of t waiting: the row that
\* SELECT ... FOR UPDATE has locked, the advisory lock on the ingress node and
\* the listen address, the row of a node whose version u has raised.
Blocks(u, t) ==
  \/ /\ tx[t].at = "row"
     /\ tx[u].op # "create" /\ tx[u].at # "row" /\ tx[u].id = tx[t].id
  \/ /\ tx[t].at = "listener"
     /\ tx[u].op # "delete" /\ tx[u].at = "bump"
     /\ tx[u].input.ingress = tx[t].input.ingress
     /\ tx[u].input.listen = tx[t].input.listen
  \/ /\ tx[t].at = "bump"
     /\ \E n \in Nodes : BumpNext(t, n) /\ tx[u].bumped[n] # None

Active == {t \in Requests : tx[t] # None}

\* The transaction is at a statement and no other one keeps it waiting.
Reaches(t, at) ==
  /\ t \in Active
  /\ tx[t].at = at
  /\ \A u \in Active \ {t} : ~Blocks(u, t)

\* The transaction of t, at another statement.
Moved(t, at, affected, bumped) ==
  [op |-> tx[t].op, id |-> tx[t].id, input |-> tx[t].input, at |-> at, affected |-> affected,
   bumped |-> bumped]

LockRowForgettingOldNodes(t) ==
  /\ Reaches(t, "row")
  /\ IF rows[tx[t].id] = None
       THEN Rollback(t)
       ELSE LET old == RuleNodes(rows[tx[t].id].rule)
            IN /\ tx' = [tx EXCEPT ![t] =
                           IF tx[t].op = "update"
                             THEN Moved(t, "listener", RuleNodes(tx[t].input), tx[t].bumped)
                             ELSE Moved(t, "bump", old, tx[t].bumped)]
               /\ UNCHANGED <<rows, version, tunnelAddress, drawn, answer>>

\* The row is read once its lock is held; it may have been deleted meanwhile.
LockRow(t) ==
  /\ Reaches(t, "row")
  /\ IF rows[tx[t].id] = None
       THEN Rollback(t)
       ELSE LET old == RuleNodes(rows[tx[t].id].rule)
            IN /\ tx' = [tx EXCEPT ![t] =
                           IF tx[t].op = "update"
                             THEN Moved(t, "listener", old \cup RuleNodes(tx[t].input), tx[t].bumped)
                             ELSE Moved(t, "bump", old, tx[t].bumped)]
               /\ UNCHANGED <<rows, version, tunnelAddress, drawn, answer>>

\* Two rules that ensureListenerAvailable does not let coexist.
Conflict(first, second) ==
  /\ first.ingress = second.ingress
  /\ first.listen = second.listen
  /\ first.nets \cap second.nets # {}

Taken(t) == \E id \in Stored \ {tx[t].id} : Conflict(rows[id].rule, tx[t].input)

\* ensureListenerAvailable: the lock, then the question.
LockListener(t) ==
  /\ Reaches(t, "listener")
  /\ IF Taken(t)
       THEN Rollback(t)
       ELSE /\ tx' = [tx EXCEPT ![t] = Moved(t, "bump", tx[t].affected, tx[t].bumped)]
            /\ UNCHANGED <<rows, version, tunnelAddress, drawn, answer>>

Bumped(t, n) == [tx[t].bumped EXCEPT ![n] = version[n] + 1]

BumpNodeAtOnce(t, n) ==
  /\ Reaches(t, "bump")
  /\ BumpNext(t, n)
  /\ version[n] < MaxVersion
  /\ tx' = [tx EXCEPT ![t] = Moved(t, "bump", tx[t].affected, Bumped(t, n))]
  /\ version' = [version EXCEPT ![n] = @ + 1]
  /\ UNCHANGED <<rows, tunnelAddress, drawn, answer>>

\* bumpNodeConfig: the row of the node stays locked until the end.
BumpNode(t, n) ==
  /\ Reaches(t, "bump")
  /\ BumpNext(t, n)
  /\ version[n] < MaxVersion
  /\ tx' = [tx EXCEPT ![t] = Moved(t, "bump", tx[t].affected, Bumped(t, n))]
  /\ UNCHANGED <<rows, version, tunnelAddress, drawn, answer>>

\* The unique index on egress node and relay port.
RelayTaken(t) ==
  \E id \in Stored \ {tx[t].id} :
    /\ rows[id].rule.mode = "relay" /\ tx[t].input.mode = "relay"
    /\ rows[id].rule.egress = tx[t].input.egress
    /\ rows[id].rule.relay = tx[t].input.relay

NewRowKeepingVersion(t) ==
  [rule |-> tx[t].input,
   cv |-> IF rows[tx[t].id] # None THEN rows[tx[t].id].cv ELSE tx[t].bumped[tx[t].input.ingress],
   ecv |-> IF tx[t].input.mode = "relay" THEN tx[t].bumped[tx[t].input.egress] ELSE None]

\* The row to write, with the versions its nodes were given.
NewRow(t) ==
  [rule |-> tx[t].input, cv |-> tx[t].bumped[tx[t].input.ingress],
   ecv |-> IF tx[t].input.mode = "relay" THEN tx[t].bumped[tx[t].input.egress] ELSE None]

\* INSERT, UPDATE or DELETE of the row, and COMMIT.
Commit(t) ==
  /\ Reaches(t, "bump")
  /\ ToBump(t) = {}
  /\ IF tx[t].op # "delete" /\ RelayTaken(t)
       THEN Rollback(t)
       ELSE /\ rows' = [rows EXCEPT ![tx[t].id] = IF tx[t].op = "delete" THEN None ELSE NewRow(t)]
            /\ version' = [n \in Nodes |-> IF tx[t].bumped[n] # None THEN tx[t].bumped[n] ELSE version[n]]
            /\ tx' = [tx EXCEPT ![t] = None]
            /\ UNCHANGED <<tunnelAddress, drawn, answer>>

\* The request or its connection to the database fails.
Abort(t) == t \in Active /\ Rollback(t)

\* A heartbeat reports the tunnel address in the agent's file, maybe late; its
\* UPDATE waits for a transaction that has raised the version of the node.
UpdateAgentHeartbeat(n, address) ==
  /\ \A t \in Active : tx[t].bumped[n] = None
  /\ tunnelAddress' = [tunnelAddress EXCEPT ![n] = address]
  /\ UNCHANGED <<rows, version, drawn, tx, answer>>

\* ConfigForAgent, first statement: rules is None until the second.
ReadVersion(n) ==
  /\ answer.rules # None
  /\ answer' = [node |-> n, version |-> version[n], rules |-> None]
  /\ UNCHANGED <<rows, version, tunnelAddress, drawn, tx>>

ReadRules ==
  /\ answer.rules = None
  /\ answer' = [node |-> answer.node, version |-> answer.version, rules |-> RulesOf(answer.node)]
  /\ UNCHANGED <<rows, version, tunnelAddress, drawn, tx>>

Next ==
  \/ \E t \in Requests :
       \/ \E id \in RuleIds, input \in Inputs : BeginCreate(t, id, input) \/ BeginUpdate(t, id, input)
       \/ \E id \in RuleIds : BeginDelete(t, id)
       \/ LockRow(t) \/ LockListener(t)
       \/ \E n \in Nodes : BumpNode(t, n)
       \/ Commit(t) \/ Abort(t)
  \/ \E n \in Nodes : \E address \in Reports[n] : UpdateAgentHeartbeat(n, address)
  \/ \E n \in Nodes : ReadVersion(n)
  \/ ReadRules

Spec == Init /\ [][Next]_vars

--------------------------------------------------------------------------------
\* However requests overlap, no two stored rules share a listener of their
\* ingress node on a common network, nor the relay port of their egress node:
\* ensureListenerAvailable asks before it writes, and two requests may ask at
\* the same time.
ListenersDistinct ==
  \A a, b \in Stored : a # b =>
    LET first == rows[a].rule
        second == rows[b].rule
    IN /\ ~Conflict(first, second)
       /\ first.mode = "relay" /\ second.mode = "relay" =>
            <<first.egress, first.relay>> # <<second.egress, second.relay>>

\* An agent that has applied a version runs the rules it is shown to run: the
\* versions a stored rule carries for its ingress and its egress are reached
\* only by configurations that hold the rule as it is stored, if maybe with a
\* relay host of another time.
AppliedMeansSent ==
  \A id \in Stored :
    LET required == IF answer.node = rows[id].rule.ingress THEN rows[id].cv ELSE rows[id].ecv IN
      /\ answer.node \in RuleNodes(rows[id].rule)
      /\ answer.rules # None
      /\ required <= answer.version
      => /\ id \in DOMAIN answer.rules
         /\ \E hosts \in [Nodes -> Hosts] : answer.rules[id] = SentWith(id, hosts)

\* A configuration read in two statements is never older than the version it
\* carries: as long as the node still has that version, the rules are exactly
\* the stored ones but for relay hosts, so that an agent that stops asking when
\* it has the version misses nothing an administrator has changed.
SameVersionSameRules ==
  answer.rules # None /\ answer.version = version[answer.node] =>
    \E hosts \in [Nodes -> Hosts] : answer.rules = RulesWith(answer.node, hosts)

\* Requests never wait for one another in a circle: in every set of
\* transactions under way one waits for none of the others.  (Rows, then the
\* advisory lock, then the nodes in the order of their identifiers.)
NoLockCycle ==
  \A group \in (SUBSET Active) \ {{}} :
    \E t \in group : \A u \in group \ {t} : ~Blocks(u, t)

\* A conflict of node, protocol, listen address and port is answered with 409
\* listener_conflict (README.md:145): no two rules that a node is sent listen at
\* the same place.  The code compares a rule's listen address with those of the
\* rules of the same ingress, and relay ports with relay ports, but never the
\* relay listener of an egress node with the listen address of another rule.
NodeListenersDistinct ==
  \A n \in Nodes : LET rules == RulesOf(n) IN
    \A a, b \in Enabled(rules) :
      a # b => ~SameListener(Effective(rules[a], n), Effective(rules[b], n))

\* What a node is served, relay ports without their hosts.
PortsOf(node) == [id \in Naming(node) |-> Scanned(id, rows[id].rule.relay)]

\* The in-memory store joins relay hosts when it builds a configuration and keeps
\* them, PostgreSQL joins them at each read: the two are compared without hosts.
Memory == INSTANCE MemoryStore WITH
  forwardRules <- rows, configVersion <- version,
  agentConfigs <- [n \in Nodes |-> [version |-> version[n], rules |-> PortsOf(n)]],
  Tunnels <- Hosts, RelayAddr <- [endpoint \in Hosts \X Ports |-> endpoint[2]]

\* Transactions that overlap at every statement, with heartbeats between them, have
\* the effect of calls of the in-memory store one after the other, which is what the
\* handlers are tested with: the same requests are let in, the same versions given,
\* and every node is served what that store would have built for it, on relay hosts
\* that may be newer.
ImplementsMemory == Memory!Spec
================================================================================
