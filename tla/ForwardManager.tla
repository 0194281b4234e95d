----------------------------- MODULE ForwardManager -----------------------------
(***************************************************************************)
(* The forwarding engine's manager, internal/forward/tcp.go: Apply and     *)
(* Close, with the TCP and UDP forwarders they open, update and close, the *)
(* bandwidth limiters they create, reuse and drop, the sockets of the      *)
(* node's kernel and the connections the forwarders accept meanwhile.      *)
(*                                                                         *)
(* Apply and Close hold manager.mu, so at most one of them is under way:   *)
(* pc says how far it is.  They are cut into one step per listen call, per *)
(* forwarder updated and per forwarder closed; between two steps clients   *)
(* connect and leave, and other processes of the host take and release     *)
(* ports.  The order in which Go ranges over a map is a choice.            *)
(*                                                                         *)
(* A limiter object is identified with its rule: a second one for the same *)
(* rule is only made after the first was closed, and LimiterOpen says that *)
(* nothing refers to a closed one.                                         *)
(***************************************************************************)
EXTENDS PrepareRules

CONSTANTS
  Node,       \* the node the manager runs on, Options.NodeID
  Clash,      \* pairs of addresses that cannot be bound on one network at once
  Other,      \* owner of the sockets of the host's other processes
  RuleLists   \* the rule lists Apply is called with

ASSUME NodeAssumption == Node \in Nodes
ASSUME ClashAssumption == Clash \subseteq Addrs \X Addrs /\ \A a \in Addrs : <<a, a>> \in Clash
ASSUME OtherAssumption == Other \notin RuleIds
ASSUME RuleListsAssumption == RuleLists \subseteq Seq(ForwardRule)

VARIABLES
  closed,       \* manager.closed
  forwarders,   \* manager.forwarders and manager.udpForwarders, by network
  limiters,     \* the keys of manager.limiters
  rate,         \* the rate of each rule's limiter, None when it has none or it is closed
  sockets,      \* listening sockets bound on the host
  conns,        \* TCP connections and UDP sessions being forwarded
  pc,           \* where Apply or Close is; "idle" when manager.mu is free
  desired,      \* Apply's desired map
  started       \* Apply's started and startedUDP maps, by network

vars == <<closed, forwarders, limiters, rate, sockets, conns, pc, desired, started>>

Forwarder == [addr : Addrs, rule : PreparedRule, accepting : BOOLEAN]
Socket == [net : Nets, addr : Addrs, owner : RuleIds \cup {Other}]
Conn == [net : Nets, id : RuleIds, addr : Addrs, target : Addrs]

ASSUME NoneIsNoForwarder == None \notin Forwarder

ForwarderMaps == [Nets -> [RuleIds -> Forwarder \cup {None}]]
NoForwarders == [net \in Nets |-> [id \in RuleIds |-> None]]

TypeOK ==
  /\ closed \in BOOLEAN
  /\ forwarders \in ForwarderMaps
  /\ limiters \subseteq RuleIds
  /\ rate \in [RuleIds -> Nat \cup {None}]
  /\ sockets \subseteq Socket
  /\ conns \subseteq Conn
  /\ pc \in {"idle", "tcp", "udp", "install", "close"}
  /\ desired \in RuleMaps
  /\ started \in ForwarderMaps

Init ==
  /\ closed = FALSE
  /\ forwarders = NoForwarders
  /\ limiters = {}
  /\ rate = [id \in RuleIds |-> None]
  /\ sockets = {}
  /\ conns = {}
  /\ pc = "idle"
  /\ desired = NoRules
  /\ started = NoForwarders

--------------------------------------------------------------------------------
\* The rule needs a forwarder on the network.
Wants(net, id) == desired[id] # None /\ net \in desired[id].nets

\* The rule's forwarder listens where it should and is updated in place.
Retained(net, id) ==
  /\ Wants(net, id)
  /\ forwarders[net][id] # None
  /\ forwarders[net][id].addr = desired[id].listen

Pending(net, id) ==
  /\ Wants(net, id)
  /\ ~Retained(net, id)
  /\ started[net][id] = None

SocketOf(net, id, forwarder) == [net |-> net, addr |-> forwarder.addr, owner |-> id]

\* The sockets of a map of forwarders.
SocketsOf(map) ==
  {s \in Socket : /\ s.owner \in RuleIds
                  /\ map[s.net][s.owner] # None
                  /\ map[s.net][s.owner].addr = s.addr}

\* The kernel lets a process bind the address.
Free(net, addr) == \A s \in sockets : s.net = net => <<s.addr, addr>> \notin Clash

\* Apply's first part: a list that prepareRules rejects changes nothing, and
\* neither does a call on a closed manager; otherwise every rule without a
\* limiter gets one.
BeginApply(rules) ==
  /\ pc = "idle"
  /\ ~closed
  /\ ~PrepareFails(rules, Node)
  /\ desired' = Desired(rules, Node)
  /\ rate' = [id \in RuleIds |->
                IF desired'[id] # None /\ id \notin limiters THEN desired'[id].kbps ELSE rate[id]]
  /\ pc' = "tcp"
  /\ UNCHANGED <<closed, forwarders, limiters, sockets, conns, started>>

OpenAfterClosingOld(net, id) ==
  /\ pc = net
  /\ Pending(net, id)
  /\ Free(net, desired[id].listen)
  /\ started' = [started EXCEPT ![net][id] =
                   [addr |-> desired[id].listen, rule |-> desired[id], accepting |-> FALSE]]
  /\ sockets' = {s \in sockets : s.net # net \/ s.owner # id}
                  \cup {[net |-> net, addr |-> desired[id].listen, owner |-> id]}
  /\ forwarders' = [forwarders EXCEPT ![net][id] = None]
  /\ UNCHANGED <<closed, limiters, rate, conns, pc, desired>>

\* One successful manager.listen or manager.listenPacket.  The forwarder is
\* made, not started.
Open(net, id) ==
  /\ pc = net
  /\ Pending(net, id)
  /\ Free(net, desired[id].listen)
  /\ started' = [started EXCEPT ![net][id] =
                   [addr |-> desired[id].listen, rule |-> desired[id], accepting |-> FALSE]]
  /\ sockets' = sockets \cup {[net |-> net, addr |-> desired[id].listen, owner |-> id]}
  /\ UNCHANGED <<closed, forwarders, limiters, rate, conns, pc, desired>>

OpenFailsKeepingLimiters(net, id) ==
  /\ pc = net
  /\ Pending(net, id)
  /\ sockets' = sockets \ SocketsOf(started)
  /\ started' = NoForwarders
  /\ desired' = NoRules
  /\ pc' = "idle"
  /\ UNCHANGED <<closed, forwarders, limiters, rate, conns>>

OpenFailsLeakingTCP(net, id) ==
  /\ pc = net
  /\ Pending(net, id)
  /\ rate' = [i \in RuleIds |-> IF i \in limiters THEN rate[i] ELSE None]
  /\ sockets' = sockets \ SocketsOf([started EXCEPT !["tcp"] = NoForwarders["tcp"]])
  /\ started' = NoForwarders
  /\ desired' = NoRules
  /\ pc' = "idle"
  /\ UNCHANGED <<closed, forwarders, limiters, conns>>

\* One failed listen, for whatever reason the host has: everything opened by
\* this Apply is closed, the limiters it made too, and Apply returns an error.
OpenFails(net, id) ==
  /\ pc = net
  /\ Pending(net, id)
  /\ rate' = [i \in RuleIds |-> IF i \in limiters THEN rate[i] ELSE None]
  /\ sockets' = sockets \ SocketsOf(started)
  /\ started' = NoForwarders
  /\ desired' = NoRules
  /\ pc' = "idle"
  /\ UNCHANGED <<closed, forwarders, limiters, conns>>

AllOpen(net) == \A id \in RuleIds : ~Pending(net, id)

UpdateRatesEarly ==
  /\ pc = "tcp"
  /\ AllOpen("tcp")
  /\ pc' = "udp"
  /\ rate' = [id \in RuleIds |-> IF desired[id] # None THEN desired[id].kbps ELSE rate[id]]
  /\ UNCHANGED <<closed, forwarders, limiters, sockets, conns, desired, started>>

\* The loop over the TCP listeners ends and the one over the UDP sockets begins.
TCPOpened ==
  /\ pc = "tcp"
  /\ AllOpen("tcp")
  /\ pc' = "udp"
  /\ UNCHANGED <<closed, forwarders, limiters, rate, sockets, conns, desired, started>>

\* Every listener is open: Apply can no longer fail.  limiter.Update of every rule.
UpdateRates ==
  /\ pc = "udp"
  /\ AllOpen("udp")
  /\ rate' = [id \in RuleIds |-> IF desired[id] # None THEN desired[id].kbps ELSE rate[id]]
  /\ pc' = "install"
  /\ UNCHANGED <<closed, forwarders, limiters, sockets, conns, desired, started>>

InstalledNewOnly(net) ==
  \A id \in RuleIds : Wants(net, id) /\ started[net][id] # None => started[net][id].accepting

Installed(net) ==
  \A id \in RuleIds : Wants(net, id) =>
    IF started[net][id] # None THEN started[net][id].accepting
                               ELSE forwarders[net][id].rule = desired[id]

\* The sessions a forwarder loses when its rule is replaced in place:
\* udpForwarder.update closes them all when the target changes, TCP
\* connections keep the target they were dialled to.
SessionsReset(net, id) ==
  {c \in conns : /\ net = "udp" /\ c.net = net /\ c.id = id
                 /\ forwarders[net][id].rule.target # desired[id].target}

InstallResettingAll(net, id) ==
  /\ pc = "install"
  /\ net = "udp" => Installed("tcp")
  /\ Wants(net, id)
  /\ started[net][id] = None
  /\ forwarders[net][id].rule # desired[id]
  /\ forwarders' = [forwarders EXCEPT ![net][id].rule = desired[id]]
  /\ conns' = {c \in conns : c.net # net \/ c.id # id}
  /\ UNCHANGED <<closed, limiters, rate, sockets, pc, desired, started>>

Reconfigured(forwarder, rule) ==
  [addr |-> forwarder.addr, rule |-> rule, accepting |-> forwarder.accepting]

\* The configuration of a retained forwarder is replaced in place.
Install(net, id) ==
  /\ pc = "install"
  /\ net = "udp" => Installed("tcp")
  /\ Wants(net, id)
  /\ started[net][id] = None
  /\ forwarders[net][id].rule # desired[id]
  /\ forwarders' = [forwarders EXCEPT ![net][id] = Reconfigured(forwarders[net][id], desired[id])]
  /\ conns' = conns \ SessionsReset(net, id)
  /\ UNCHANGED <<closed, limiters, rate, sockets, pc, desired, started>>

Running(forwarder) ==
  [addr |-> forwarder.addr, rule |-> forwarder.rule, accepting |-> TRUE]

\* A new forwarder starts to accept.
StartForwarder(net, id) ==
  /\ pc = "install"
  /\ net = "udp" => Installed("tcp")
  /\ started[net][id] # None
  /\ ~started[net][id].accepting
  /\ started' = [started EXCEPT ![net][id] = Running(started[net][id])]
  /\ UNCHANGED <<closed, forwarders, limiters, rate, sockets, conns, pc, desired>>

AllInstalled ==
  /\ pc = "install"
  /\ \A net \in Nets : Installed(net)
  /\ pc' = "close"
  /\ UNCHANGED <<closed, forwarders, limiters, rate, sockets, conns, desired, started>>

\* Forwarders the new map does not hold: their rule is gone, or moved to
\* another protocol or listen address.
Stale(net, id) == forwarders[net][id] # None /\ ~Retained(net, id)

\* forwarder.close: the socket, the connections and the goroutines of a stale
\* forwarder are gone when it returns.
CloseForwarder(net, id) ==
  /\ pc = "close"
  /\ Stale(net, id)
  /\ net = "udp" => \A i \in RuleIds : ~Stale("tcp", i)
  /\ sockets' = sockets \ {SocketOf(net, id, forwarders[net][id])}
  /\ conns' = {c \in conns : <<c.net, c.id, c.addr>> # <<net, id, forwarders[net][id].addr>>}
  /\ forwarders' = [forwarders EXCEPT ![net][id] = None]
  /\ UNCHANGED <<closed, limiters, rate, pc, desired, started>>

FinishBeforeUDP ==
  /\ pc = "close"
  /\ \A id \in RuleIds : ~Stale("tcp", id)
  /\ forwarders' = [net \in Nets |-> [id \in RuleIds |->
                      IF started[net][id] # None THEN started[net][id] ELSE forwarders[net][id]]]
  /\ limiters' = {id \in RuleIds : desired[id] # None}
  /\ rate' = [id \in RuleIds |-> IF desired[id] = None THEN None ELSE rate[id]]
  /\ started' = NoForwarders
  /\ desired' = NoRules
  /\ pc' = "idle"
  /\ UNCHANGED <<closed, sockets, conns>>

\* Apply and Close end: the maps are replaced, the limiters that no rule uses
\* any more are closed, the lock is released.
Finish ==
  /\ pc = "close"
  /\ \A net \in Nets, id \in RuleIds : ~Stale(net, id)
  /\ forwarders' = [net \in Nets |-> [id \in RuleIds |->
                      IF started[net][id] # None THEN started[net][id] ELSE forwarders[net][id]]]
  /\ limiters' = {id \in RuleIds : desired[id] # None}
  /\ rate' = [id \in RuleIds |-> IF desired[id] = None THEN None ELSE rate[id]]
  /\ started' = NoForwarders
  /\ desired' = NoRules
  /\ pc' = "idle"
  /\ UNCHANGED <<closed, sockets, conns>>

\* Close: from here it does what Apply does for an empty rule list.
BeginClose ==
  /\ pc = "idle"
  /\ ~closed
  /\ closed' = TRUE
  /\ pc' = "close"
  /\ UNCHANGED <<forwarders, limiters, rate, sockets, conns, desired, started>>

--------------------------------------------------------------------------------
\* A forwarder accepts a client and forwards it to its rule's target.
Accept(net, id) ==
  /\ \E f \in {forwarders[net][id], started[net][id]} \ {None} :
       /\ f.accepting
       /\ conns' = conns \cup {[net |-> net, id |-> id, addr |-> f.addr, target |-> f.rule.target]}
  /\ UNCHANGED <<closed, forwarders, limiters, rate, sockets, pc, desired, started>>

\* A connection ends by itself: either side hangs up, or a session times out.
EndConn(c) ==
  /\ c \in conns
  /\ conns' = conns \ {c}
  /\ UNCHANGED <<closed, forwarders, limiters, rate, sockets, pc, desired, started>>

\* Another process of the host binds an address, or releases one.
Grab(net, addr) ==
  /\ Free(net, addr)
  /\ sockets' = sockets \cup {[net |-> net, addr |-> addr, owner |-> Other]}
  /\ UNCHANGED <<closed, forwarders, limiters, rate, conns, pc, desired, started>>

Release(net, addr) ==
  /\ [net |-> net, addr |-> addr, owner |-> Other] \in sockets
  /\ sockets' = sockets \ {[net |-> net, addr |-> addr, owner |-> Other]}
  /\ UNCHANGED <<closed, forwarders, limiters, rate, conns, pc, desired, started>>

Next ==
  \/ \E rules \in RuleLists : BeginApply(rules)
  \/ \E net \in Nets, id \in RuleIds :
       \/ Open(net, id) \/ OpenFails(net, id)
       \/ Install(net, id) \/ StartForwarder(net, id)
       \/ CloseForwarder(net, id)
       \/ Accept(net, id)
  \/ TCPOpened \/ UpdateRates \/ AllInstalled \/ Finish \/ BeginClose
  \/ \E c \in conns : EndConn(c)
  \/ \E net \in Nets, addr \in Addrs : Grab(net, addr) \/ Release(net, addr)

Spec == Init /\ [][Next]_vars

--------------------------------------------------------------------------------
\* No listening socket is ever leaked and none is closed behind a forwarder's
\* back: at every step of every Apply and Close, failed ones included, the
\* sockets the process holds are those of its forwarders and of the ones the
\* Apply under way has opened.
NoLeakedListener ==
  {s \in sockets : s.owner # Other} = SocketsOf(forwarders) \cup SocketsOf(started)

\* A limiter is closed only when nothing shapes its traffic with it any more:
\* every forwarder and every live connection has an open one, whatever Apply
\* is doing.  (bandwidthLimiter.Wait fails on a closed limiter, which would
\* end the connection, or the UDP forwarder's read loop for good.)
LimiterOpen ==
  /\ \A net \in Nets, id \in RuleIds :
       forwarders[net][id] # None \/ started[net][id] # None => rate[id] # None
  /\ \A c \in conns : rate[c.id] # None

\* Between two calls the three maps of the manager agree: the limiters that
\* exist are those of the rules that have a forwarder, each forwarder accepts,
\* listens where its rule says and on each of the rule's networks, both of a
\* rule's forwarders run the same rule, and its limiter has the rule's rate.
Settled ==
  pc = "idle" =>
    /\ limiters = {id \in RuleIds : rate[id] # None}
    /\ \A id \in limiters : \E net \in Nets : forwarders[net][id] # None
    /\ \A net \in Nets, id \in RuleIds :
         forwarders[net][id] # None =>
           LET f == forwarders[net][id] IN
             /\ f.accepting
             /\ f.addr = f.rule.listen
             /\ rate[id] = f.rule.kbps
             /\ \A n \in Nets : IF n \in f.rule.nets
                                  THEN forwarders[n][id] # None /\ forwarders[n][id].rule = f.rule
                                  ELSE forwarders[n][id] = None

\* As long as Apply can still fail it has changed nothing a client could
\* notice: the maps, the rates of the limiters in use and the sockets of the
\* running forwarders stay as they were, so a failed Apply leaves all of them.
FailedApplyIsInvisible ==
  [][(pc \in Nets) =>
       /\ UNCHANGED <<forwarders, limiters>>
       /\ pc' # "install" => \A id \in limiters : rate'[id] = rate[id]
       /\ (SocketsOf(forwarders) \subseteq sockets')]_vars

\* All new listeners are open before any existing listener is closed: when the
\* socket of a running forwarder is closed by Apply, each rule of the new set
\* has its socket on each of its networks.
NewBeforeOld ==
  [][~closed /\ (\E s \in SocketsOf(forwarders) : s \notin sockets') =>
       \A net \in Nets, id \in RuleIds :
         Wants(net, id) =>
           ([net |-> net, addr |-> desired[id].listen, owner |-> id] \in sockets')]_vars

\* The forwarder of the connection survives the Apply under way with the same
\* listen address and, for UDP, the same target.
Kept(c) ==
  /\ ~closed
  /\ pc # "idle" =>
       /\ Wants(c.net, c.id)
       /\ c.addr = desired[c.id].listen
       /\ c.net = "udp" => forwarders[c.net][c.id].rule.target = desired[c.id].target

\* Rules retaining the same ID and listen address are updated in place without
\* dropping connections: only its own end, the removal or move of its rule, a
\* new target of a UDP rule or Close ends a connection.
KeptConnectionsSurvive ==
  [][\A c \in conns : c \notin conns' => EndConn(c) \/ ~Kept(c)]_vars

--------------------------------------------------------------------------------
\* The rule set the manager has committed itself to: the desired map once
\* nothing can fail any more, before that the rules its forwarders run.
Serving ==
  IF pc \in {"install", "close"} THEN desired
  ELSE [id \in RuleIds |->
          IF forwarders["tcp"][id] # None THEN forwarders["tcp"][id].rule
          ELSE IF forwarders["udp"][id] # None THEN forwarders["udp"][id].rule
          ELSE None]

Abstract == INSTANCE RuleTransaction WITH
  serving <- Serving,
  calling <- pc \in Nets,
  wanted <- IF pc \in Nets THEN desired ELSE NoRules,
  shut <- closed

\* Apply and Close implement the transactional replacement of the rule set.
ImplementsTransactions == Abstract!Transactions
================================================================================
