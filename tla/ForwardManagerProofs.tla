-------------------------- MODULE ForwardManagerProofs --------------------------
(***************************************************************************)
(* Proofs about ForwardManager, for any sets of rules, addresses and rule  *)
(* lists and any relation of clashing addresses.                           *)
(***************************************************************************)
EXTENDS ForwardManager, TLAPS

\* A rule that Validate accepts has a prepared form on each of its nodes: the
\* relay address it may need is there.
LEMMA EffectiveType ==
  ASSUME NEW rule \in ForwardRule, Validate(rule), rule.enabled
  PROVE  Effective(rule, Node) \in PreparedRule
BY DEF ForwardRule, Validate, Effective, PreparedRule

\* What prepareRules returns for a list it accepts: a map of prepared rules no
\* two of which listen on the same network and address.
LEMMA DesiredMap ==
  ASSUME NEW rules \in RuleLists, ~PrepareFails(rules, Node)
  PROVE  Desired(rules, Node) \in RuleMaps /\ Disjoint(Desired(rules, Node))
<1> DEFINE At(id) == CHOOSE i \in Enabled(rules) : rules[i].id = id
           Has(id) == \E i \in Enabled(rules) : rules[i].id = id
<1>1. \A i \in Enabled(rules) : rules[i] \in ForwardRule /\ rules[i].enabled
  BY RuleListsAssumption DEF Enabled
<1>2. \A i \in Enabled(rules) : Effective(rules[i], Node) \in PreparedRule
  BY <1>1, EffectiveType DEF PrepareFails, Enabled
<1>3. \A id \in RuleIds : Has(id) => At(id) \in Enabled(rules) /\ rules[At(id)].id = id
  OBVIOUS
<1>4. \A id \in RuleIds :
        Desired(rules, Node)[id] = IF Has(id) THEN Effective(rules[At(id)], Node) ELSE None
  BY DEF Desired
<1>5. Desired(rules, Node) \in RuleMaps
  BY <1>2, <1>3 DEF Desired, RuleMaps
<1>6. ASSUME NEW a \in RuleIds, NEW b \in RuleIds, a # b,
             Desired(rules, Node)[a] # None, Desired(rules, Node)[b] # None
      PROVE  ~SameListener(Desired(rules, Node)[a], Desired(rules, Node)[b])
  <2>1. Has(a) /\ Has(b)
    BY <1>4, <1>6
  <2>2. At(a) # At(b)
    BY <2>1, <1>3, <1>6
  <2>3. ~SameListener(Effective(rules[At(a)], Node), Effective(rules[At(b)], Node))
    BY <2>1, <2>2, <1>3 DEF PrepareFails
  <2> QED
    BY <2>1, <2>3, <1>4
<1> QED
  BY <1>5, <1>6 DEF Disjoint

--------------------------------------------------------------------------------
(***************************************************************************)
(* The inductive invariant.  Its parts relate Apply's local maps to the    *)
(* manager's, phase by phase.                                              *)
(***************************************************************************)

\* No call is under way: its local maps do not exist.
AtRest == pc = "idle" => desired = NoRules /\ started = NoForwarders

\* What Apply has opened it opened for a wanted rule without a usable forwarder.
StartedOK ==
  \A net \in Nets, id \in RuleIds :
    started[net][id] # None =>
      /\ Wants(net, id) /\ ~Retained(net, id)
      /\ started[net][id].addr = desired[id].listen
      /\ started[net][id].rule = desired[id]
      /\ started[net][id].accepting => pc \in {"install", "close"}

\* Past the listen calls every wanted forwarder exists; past the updates each
\* of them runs its desired rule.
PhaseOK ==
  /\ pc = "udp" => \A id \in RuleIds : ~Pending("tcp", id)
  /\ pc \in {"install", "close"} => \A net \in Nets, id \in RuleIds : ~Pending(net, id)
  /\ pc = "close" => \A net \in Nets : Installed(net)

\* A forwarder in the manager's map accepts, listens where its rule says and
\* its rule has a limiter in the manager's map.
ForwarderOK ==
  \A net \in Nets, id \in RuleIds :
    forwarders[net][id] # None =>
      /\ forwarders[net][id].accepting
      /\ forwarders[net][id].addr = forwarders[net][id].rule.listen
      /\ id \in limiters

\* Until an Apply commits, the forwarders of a rule agree with one another and
\* with the rate of its limiter.
Coherent ==
  pc \notin {"install", "close"} =>
    /\ \A id \in limiters : \E net \in Nets : forwarders[net][id] # None
    /\ \A net \in Nets, id \in RuleIds :
         forwarders[net][id] # None =>
           /\ rate[id] = forwarders[net][id].rule.kbps
           /\ \A n \in Nets : IF n \in forwarders[net][id].rule.nets
                 THEN forwarders[n][id] # None /\ forwarders[n][id].rule = forwarders[net][id].rule
                 ELSE forwarders[n][id] = None

\* The open limiters are those of the manager's map and those Apply has made.
RateOK ==
  /\ \A id \in RuleIds : rate[id] # None <=> (id \in limiters \/ desired[id] # None)
  /\ pc \in {"install", "close"} =>
       \A id \in RuleIds : desired[id] # None => rate[id] = desired[id].kbps

\* A connection belongs to a forwarder that has not been closed, one that
\* Apply has started only when Apply can no longer fail.
ConnOK ==
  \A c \in conns :
    \/ forwarders[c.net][c.id] # None /\ forwarders[c.net][c.id].addr = c.addr
    \/ /\ started[c.net][c.id] # None /\ started[c.net][c.id].addr = c.addr
       /\ pc \in {"install", "close"}

IInv ==
  /\ TypeOK /\ NoLeakedListener
  /\ AtRest /\ StartedOK /\ PhaseOK /\ ForwarderOK /\ Coherent /\ RateOK /\ ConnOK

--------------------------------------------------------------------------------
USE DEF NoRules, NoForwarders

LEMMA InitIInv == Init => IInv
<1> SUFFICES ASSUME Init PROVE IInv
  OBVIOUS
<1>1. TypeOK
  BY DEF Init, TypeOK, ForwarderMaps, RuleMaps
<1>2. SocketsOf(forwarders) = {} /\ SocketsOf(started) = {}
  BY DEF Init, SocketsOf, Socket
<1>3. NoLeakedListener
  BY <1>2 DEF Init, NoLeakedListener
<1>4. AtRest /\ StartedOK /\ PhaseOK
  BY DEF Init, AtRest, StartedOK, PhaseOK
<1>5. ForwarderOK /\ Coherent /\ RateOK /\ ConnOK
  BY DEF Init, ForwarderOK, Coherent, RateOK, ConnOK
<1> QED
  BY <1>1, <1>3, <1>4, <1>5 DEF IInv

LEMMA BeginApplyIInv ==
  ASSUME NEW rules \in RuleLists, IInv, BeginApply(rules)
  PROVE  IInv'
<1>1. desired' \in RuleMaps
  BY DesiredMap DEF BeginApply
<1>2. started = NoForwarders /\ desired = NoRules
  BY DEF IInv, AtRest, BeginApply
<1>3. TypeOK'
  BY <1>1, NoneAssumption DEF IInv, TypeOK, BeginApply, RuleMaps, PreparedRule
<1>4. NoLeakedListener' /\ AtRest' /\ PhaseOK' /\ ForwarderOK' /\ ConnOK'
  BY DEF IInv, NoLeakedListener, SocketsOf, AtRest, PhaseOK, ForwarderOK, ConnOK, BeginApply
<1>5. StartedOK'
  BY <1>2 DEF BeginApply, StartedOK
<1>6. Coherent'
  BY DEF IInv, Coherent, BeginApply, ForwarderOK
<1>7. RateOK'
  BY <1>1, <1>2, NoneAssumption DEF IInv, TypeOK, RateOK, BeginApply, RuleMaps, PreparedRule
<1> QED
  BY <1>3, <1>4, <1>5, <1>6, <1>7 DEF IInv

LEMMA OpenIInv ==
  ASSUME NEW net \in Nets, NEW id \in RuleIds, IInv, Open(net, id)
  PROVE  IInv'
<1> DEFINE new == [addr |-> desired[id].listen, rule |-> desired[id], accepting |-> FALSE]
<1>1. new \in Forwarder /\ new # None
  <2>1. desired[id] \in PreparedRule
    BY DEF IInv, TypeOK, RuleMaps, Open, Pending, Wants
  <2>2. new \in Forwarder
    BY <2>1 DEF Forwarder, PreparedRule
  <2> QED
    BY <2>2, NoneIsNoForwarder
<1>2. /\ started[net][id] = None
      /\ started' \in ForwarderMaps
      /\ started'[net][id] = new
      /\ \A n \in Nets, i \in RuleIds : <<n, i>> # <<net, id>> => started'[n][i] = started[n][i]
  BY <1>1 DEF IInv, TypeOK, ForwarderMaps, Open, Pending
<1>3. TypeOK'
  BY <1>1, <1>2 DEF IInv, TypeOK, Open, Socket, Forwarder
<1>4. SocketsOf(started)' = SocketsOf(started) \cup {[net |-> net, addr |-> desired[id].listen, owner |-> id]}
  BY <1>1, <1>2 DEF SocketsOf, Socket, Forwarder
<1>5. NoLeakedListener'
  BY <1>4, OtherAssumption DEF IInv, NoLeakedListener, SocketsOf, Open
<1>6. StartedOK'
  BY <1>1, <1>2 DEF IInv, StartedOK, Open, Pending, Wants, Retained
<1>7. PhaseOK'
  BY <1>1, <1>2 DEF IInv, PhaseOK, Open, Nets, Pending, Wants, Retained
<1>8. AtRest' /\ ForwarderOK' /\ Coherent' /\ RateOK'
  <2>1. AtRest' /\ ForwarderOK'
    BY DEF IInv, AtRest, ForwarderOK, Open, Nets
  <2>2. Coherent'
    BY DEF IInv, Coherent, Open
  <2>3. RateOK'
    BY DEF IInv, RateOK, Open
  <2> QED
    BY <2>1, <2>2, <2>3
<1>9. ConnOK'
  BY <1>2 DEF IInv, TypeOK, Conn, ConnOK, Open, Nets
<1> QED
  BY <1>3, <1>5, <1>6, <1>7, <1>8, <1>9 DEF IInv

\* A stale forwarder and the one opened in its place never share a socket.
LEMMA DistinctSockets ==
  ASSUME StartedOK
  PROVE  SocketsOf(forwarders) \cap SocketsOf(started) = {}
BY DEF StartedOK, SocketsOf, Socket, Wants, Retained

LEMMA OpenFailsIInv ==
  ASSUME NEW net \in Nets, NEW id \in RuleIds, IInv, OpenFails(net, id)
  PROVE  IInv'
<1>1. TypeOK'
  BY NoneAssumption DEF IInv, TypeOK, OpenFails, ForwarderMaps, RuleMaps
<1>2. SocketsOf(started)' = {}
  BY DEF OpenFails, SocketsOf, Socket
<1>3. NoLeakedListener'
  BY <1>2, DistinctSockets DEF IInv, NoLeakedListener, OpenFails, SocketsOf
<1>4. AtRest' /\ StartedOK' /\ PhaseOK' /\ ForwarderOK'
  BY DEF IInv, AtRest, StartedOK, PhaseOK, ForwarderOK, OpenFails
<1>5. Coherent'
  BY DEF IInv, TypeOK, Coherent, OpenFails, Nets, ForwarderOK
<1>6. RateOK'
  BY DEF IInv, TypeOK, RateOK, OpenFails
<1>7. ConnOK'
  BY DEF IInv, TypeOK, ConnOK, OpenFails, Conn, StartedOK, Wants, Nets
<1> QED
  BY <1>1, <1>3, <1>4, <1>5, <1>6, <1>7 DEF IInv

LEMMA TCPOpenedIInv == ASSUME IInv, TCPOpened PROVE IInv'
<1>1. TypeOK' /\ NoLeakedListener' /\ AtRest' /\ StartedOK'
  BY DEF IInv, TCPOpened, TypeOK, NoLeakedListener, SocketsOf, AtRest, StartedOK, Wants, Retained
<1>2. PhaseOK'
  BY DEF IInv, TCPOpened, PhaseOK, AllOpen, Pending, Wants, Retained
<1>3. ForwarderOK' /\ Coherent' /\ RateOK' /\ ConnOK'
  BY DEF IInv, TCPOpened, ForwarderOK, Coherent, RateOK, ConnOK
<1> QED
  BY <1>1, <1>2, <1>3 DEF IInv

LEMMA UpdateRatesIInv == ASSUME IInv, UpdateRates PROVE IInv'
<1>1. TypeOK'
  BY NoneAssumption DEF IInv, TypeOK, UpdateRates, RuleMaps, PreparedRule
<1>2. NoLeakedListener' /\ AtRest' /\ StartedOK' /\ ForwarderOK' /\ ConnOK' /\ Coherent'
  <2>1. NoLeakedListener'
    BY DEF IInv, UpdateRates, NoLeakedListener, SocketsOf
  <2>2. AtRest' /\ StartedOK'
    BY DEF IInv, UpdateRates, AtRest, StartedOK, Wants, Retained
  <2>3. ForwarderOK' /\ ConnOK' /\ Coherent'
    BY DEF IInv, UpdateRates, ForwarderOK, ConnOK, Coherent
  <2> QED
    BY <2>1, <2>2, <2>3
<1>3. PhaseOK'
  BY DEF IInv, UpdateRates, AllOpen, PhaseOK, Pending, Wants, Retained, Nets
<1>4. RateOK'
  BY NoneAssumption DEF IInv, TypeOK, UpdateRates, RateOK, RuleMaps, PreparedRule
<1> QED
  BY <1>1, <1>2, <1>3, <1>4 DEF IInv

LEMMA InstallIInv ==
  ASSUME NEW net \in Nets, NEW id \in RuleIds, IInv, Install(net, id)
  PROVE  IInv'
<1>1. Retained(net, id) /\ forwarders[net][id] # None
  BY DEF IInv, PhaseOK, Install, Pending, Retained
<1>2. /\ forwarders' \in ForwarderMaps
      /\ forwarders'[net][id] = Reconfigured(forwarders[net][id], desired[id])
      /\ forwarders'[net][id] \in Forwarder
      /\ \A n \in Nets, i \in RuleIds : <<n, i>> # <<net, id>> => forwarders'[n][i] = forwarders[n][i]
  BY <1>1 DEF IInv, TypeOK, ForwarderMaps, Forwarder, RuleMaps, Install, Wants, Reconfigured
<1>3. /\ \A n \in Nets, i \in RuleIds : (forwarders'[n][i] # None) = (forwarders[n][i] # None)
      /\ \A n \in Nets, i \in RuleIds :
           forwarders[n][i] # None => /\ forwarders'[n][i].addr = forwarders[n][i].addr
                                      /\ forwarders'[n][i].accepting = forwarders[n][i].accepting
  BY <1>1, <1>2, NoneIsNoForwarder DEF Reconfigured
<1>4. TypeOK'
  BY <1>2 DEF IInv, TypeOK, Install
<1>5. NoLeakedListener'
  <2>1. SocketsOf(forwarders)' = SocketsOf(forwarders)
    BY <1>3 DEF SocketsOf, Socket
  <2>2. sockets' = sockets /\ started' = started
    BY DEF Install
  <2> QED
    BY <2>1, <2>2 DEF IInv, NoLeakedListener, SocketsOf
<1>6. \A n \in Nets, i \in RuleIds : Retained(n, i)' = Retained(n, i)
  BY <1>3 DEF Retained, Wants, Install
<1>7. AtRest' /\ StartedOK'
  BY <1>6 DEF IInv, AtRest, StartedOK, Install, Wants
<1>8. PhaseOK'
  BY <1>6 DEF IInv, PhaseOK, Install, Pending, Wants
<1>9. ForwarderOK'
  <2>1. /\ forwarders[net][id].addr = desired[id].listen
        /\ forwarders'[net][id].rule = desired[id]
    BY <1>1, <1>2 DEF Retained, Reconfigured
  <2>2. ForwarderOK /\ limiters' = limiters
    BY DEF IInv, Install
  <2>3. ASSUME NEW n \in Nets, NEW i \in RuleIds, forwarders'[n][i] # None
        PROVE  /\ forwarders'[n][i].accepting
               /\ forwarders'[n][i].addr = forwarders'[n][i].rule.listen
               /\ i \in limiters'
    <3>1. forwarders[n][i] # None
      BY <1>3, <2>3
    <3>2. CASE <<n, i>> = <<net, id>>
      BY <1>3, <2>1, <2>2, <3>1, <3>2 DEF ForwarderOK
    <3>3. CASE <<n, i>> # <<net, id>>
      BY <1>2, <2>2, <3>1, <3>3 DEF ForwarderOK
    <3> QED
      BY <3>2, <3>3
  <2> QED
    BY <2>3 DEF ForwarderOK
<1>10. Coherent' /\ RateOK'
  BY DEF IInv, Coherent, RateOK, Install
<1>11. ConnOK'
  BY <1>3 DEF IInv, TypeOK, Conn, ConnOK, Install
<1> QED
  BY <1>4, <1>5, <1>7, <1>8, <1>9, <1>10, <1>11 DEF IInv

LEMMA StartForwarderIInv ==
  ASSUME NEW net \in Nets, NEW id \in RuleIds, IInv, StartForwarder(net, id)
  PROVE  IInv'
<1>1. /\ started' \in ForwarderMaps
      /\ started'[net][id] = Running(started[net][id])
      /\ started'[net][id] \in Forwarder
      /\ \A n \in Nets, i \in RuleIds : <<n, i>> # <<net, id>> => started'[n][i] = started[n][i]
  <2>1. started \in [Nets -> [RuleIds -> Forwarder \cup {None}]]
    BY DEF IInv, TypeOK, ForwarderMaps
  <2>2. /\ started[net][id] \in Forwarder
        /\ started' = [started EXCEPT ![net][id] = Running(started[net][id])]
    BY <2>1 DEF StartForwarder
  <2>3. Running(started[net][id]) \in Forwarder
    BY <2>2 DEF Running, Forwarder
  <2> QED
    BY <2>1, <2>2, <2>3 DEF ForwarderMaps
<1>2. /\ \A n \in Nets, i \in RuleIds : (started'[n][i] # None) = (started[n][i] # None)
      /\ \A n \in Nets, i \in RuleIds :
           started[n][i] # None => /\ started'[n][i].addr = started[n][i].addr
                                   /\ started'[n][i].rule = started[n][i].rule
  <2>1. started[net][id] # None /\ started'[net][id] # None
    BY <1>1, NoneIsNoForwarder DEF StartForwarder
  <2>2. /\ started'[net][id].addr = started[net][id].addr
        /\ started'[net][id].rule = started[net][id].rule
    BY <1>1 DEF Running
  <2> QED
    BY <1>1, <2>1, <2>2
<1>3. TypeOK'
  BY <1>1 DEF IInv, TypeOK, StartForwarder
<1>4. NoLeakedListener'
  BY <1>2 DEF IInv, NoLeakedListener, SocketsOf, StartForwarder, Socket
<1>5. AtRest' /\ StartedOK'
  BY <1>2 DEF IInv, AtRest, StartedOK, StartForwarder, Wants, Retained
<1>6. PhaseOK'
  BY <1>2 DEF IInv, PhaseOK, StartForwarder, Pending, Wants, Retained
<1>7. ForwarderOK' /\ Coherent' /\ RateOK'
  BY DEF IInv, ForwarderOK, Coherent, RateOK, StartForwarder
<1>8. ConnOK'
  BY <1>2 DEF IInv, TypeOK, Conn, ConnOK, StartForwarder
<1> QED
  BY <1>3, <1>4, <1>5, <1>6, <1>7, <1>8 DEF IInv

LEMMA AllInstalledIInv == ASSUME IInv, AllInstalled PROVE IInv'
<1>1. TypeOK' /\ NoLeakedListener'
  BY DEF IInv, AllInstalled, TypeOK, NoLeakedListener, SocketsOf
<1>2. AtRest' /\ StartedOK'
  BY DEF IInv, AllInstalled, AtRest, StartedOK, Wants, Retained
<1>3. PhaseOK'
  BY DEF IInv, AllInstalled, PhaseOK, Pending, Installed, Wants, Retained
<1>4. ForwarderOK' /\ Coherent' /\ RateOK' /\ ConnOK'
  BY DEF IInv, AllInstalled, ForwarderOK, Coherent, RateOK, ConnOK
<1> QED
  BY <1>1, <1>2, <1>3, <1>4 DEF IInv

LEMMA CloseForwarderIInv ==
  ASSUME NEW net \in Nets, NEW id \in RuleIds, IInv, CloseForwarder(net, id)
  PROVE  IInv'
<1> DEFINE old == forwarders[net][id]
<1>1. /\ forwarders' \in ForwarderMaps
      /\ forwarders'[net][id] = None
      /\ \A n \in Nets, i \in RuleIds : <<n, i>> # <<net, id>> => forwarders'[n][i] = forwarders[n][i]
  BY DEF IInv, TypeOK, ForwarderMaps, CloseForwarder
<1>2. old \in Forwarder /\ ~Retained(net, id)
  BY DEF IInv, TypeOK, ForwarderMaps, CloseForwarder, Stale
<1>3. TypeOK'
  BY <1>1 DEF IInv, TypeOK, CloseForwarder
<1>4. SocketsOf(forwarders)' = SocketsOf(forwarders) \ {SocketOf(net, id, old)}
  BY <1>1, <1>2 DEF SocketsOf, SocketOf, Socket, Forwarder
<1>5. SocketOf(net, id, old) \in SocketsOf(forwarders)
  BY <1>2 DEF SocketsOf, SocketOf, Socket, Forwarder, CloseForwarder, Stale
<1>6. SocketOf(net, id, old) \notin SocketsOf(started)
  BY <1>5, DistinctSockets DEF IInv
<1>7. NoLeakedListener'
  BY <1>4, <1>6 DEF IInv, NoLeakedListener, CloseForwarder, SocketsOf
<1>8. \A n \in Nets, i \in RuleIds : Retained(n, i)' = Retained(n, i)
  BY <1>1, <1>2 DEF Retained, Wants, CloseForwarder
<1>9. AtRest' /\ StartedOK'
  BY <1>8 DEF IInv, AtRest, StartedOK, CloseForwarder, Wants
<1>10. PhaseOK'
  <2>1. \A n \in Nets, i \in RuleIds : ~Pending(n, i)'
    BY <1>8 DEF IInv, PhaseOK, Pending, CloseForwarder, Wants
  <2>2. \A n \in Nets : Installed(n)'
    BY <1>1, <1>2 DEF IInv, PhaseOK, Pending, Installed, Retained, Wants, CloseForwarder
  <2> QED
    BY <2>1, <2>2 DEF PhaseOK, CloseForwarder
<1>11. ForwarderOK'
  BY <1>1 DEF IInv, ForwarderOK, CloseForwarder
<1>12. Coherent' /\ RateOK'
  BY DEF IInv, Coherent, RateOK, CloseForwarder
<1>13. ConnOK'
  BY <1>1 DEF IInv, TypeOK, Conn, ConnOK, CloseForwarder
<1> QED
  BY <1>3, <1>7, <1>9, <1>10, <1>11, <1>12, <1>13 DEF IInv

LEMMA FinishIInv == ASSUME IInv, Finish PROVE IInv' /\ Settled'
<1>1. \A net \in Nets, id \in RuleIds :
        /\ forwarders[net][id] # None => Retained(net, id) /\ started[net][id] = None
        /\ Wants(net, id) => forwarders[net][id] # None \/ started[net][id] # None
  BY DEF Finish, Stale, IInv, PhaseOK, Pending, StartedOK, Retained
<1>2. \A net \in Nets, id \in RuleIds :
        forwarders'[net][id] =
          IF started[net][id] # None THEN started[net][id] ELSE forwarders[net][id]
  BY DEF Finish
<1>3. \A net \in Nets, id \in RuleIds : forwarders'[net][id] # None <=> Wants(net, id)
  BY <1>1, <1>2 DEF IInv, StartedOK, Retained
<1>4. \A net \in Nets, id \in RuleIds :
        Wants(net, id) => /\ forwarders'[net][id].rule = desired[id]
                          /\ forwarders'[net][id].addr = desired[id].listen
                          /\ forwarders'[net][id].accepting
  BY <1>1, <1>2 DEF IInv, StartedOK, PhaseOK, Installed, ForwarderOK, Retained, Finish
<1>5. TypeOK'
  <2>1. forwarders' \in ForwarderMaps
    BY DEF IInv, TypeOK, ForwarderMaps, Finish
  <2> QED
    BY <2>1, NoneAssumption DEF IInv, TypeOK, Finish, RuleMaps, ForwarderMaps
<1>6. SocketsOf(forwarders)' = SocketsOf(forwarders) \cup SocketsOf(started)
  BY <1>1, <1>2 DEF SocketsOf, Socket
<1>7. SocketsOf(started)' = {}
  BY DEF SocketsOf, Socket, Finish
<1>8. NoLeakedListener'
  BY <1>6, <1>7 DEF IInv, NoLeakedListener, Finish
<1>9. AtRest' /\ StartedOK' /\ PhaseOK'
  BY DEF AtRest, StartedOK, PhaseOK, Finish, Nets
<1>10. ForwarderOK'
  BY <1>3, <1>4 DEF ForwarderOK, Finish, Wants
<1>11. \A id \in RuleIds :
         /\ rate'[id] = IF desired[id] = None THEN None ELSE rate[id]
         /\ id \in limiters' <=> desired[id] # None
         /\ desired[id] # None => rate[id] = desired[id].kbps /\ rate[id] # None
  BY DEF IInv, RateOK, Finish
<1>12. RateOK'
  BY <1>11 DEF RateOK, Finish
<1>13. \A id \in RuleIds : desired[id] # None => \E net \in Nets : Wants(net, id)
  BY DEF IInv, TypeOK, RuleMaps, PreparedRule, Wants
<1>14. \A id \in limiters' : \E net \in Nets : forwarders'[net][id] # None
  BY <1>3, <1>11, <1>13 DEF Finish
<1>15. ASSUME NEW net \in Nets, NEW id \in RuleIds, forwarders'[net][id] # None
       PROVE  /\ rate'[id] = forwarders'[net][id].rule.kbps
              /\ \A n \in Nets : IF n \in forwarders'[net][id].rule.nets
                   THEN forwarders'[n][id] # None /\ forwarders'[n][id].rule = forwarders'[net][id].rule
                   ELSE forwarders'[n][id] = None
  BY <1>3, <1>4, <1>11, <1>15 DEF Wants
<1>16. Coherent'
  BY <1>14, <1>15 DEF Coherent
<1>17. ConnOK'
  BY <1>1, <1>2 DEF IInv, TypeOK, Conn, ConnOK, Finish
<1>18. Settled'
  BY <1>3, <1>4, <1>11, <1>12, <1>14, <1>15 DEF Settled, RateOK, Finish, Wants
<1> QED
  BY <1>5, <1>8, <1>9, <1>10, <1>12, <1>16, <1>17, <1>18 DEF IInv

LEMMA BeginCloseIInv == ASSUME IInv, BeginClose PROVE IInv'
<1>1. started = NoForwarders /\ desired = NoRules
  BY DEF IInv, AtRest, BeginClose
<1>2. TypeOK' /\ NoLeakedListener' /\ AtRest' /\ ForwarderOK'
  BY DEF IInv, BeginClose, TypeOK, NoLeakedListener, SocketsOf, AtRest, ForwarderOK
<1>3. StartedOK' /\ PhaseOK' /\ RateOK' /\ Coherent'
  BY <1>1 DEF IInv, BeginClose, StartedOK, PhaseOK, Pending, Installed, Wants, RateOK, Coherent
<1>4. ConnOK'
  BY DEF IInv, BeginClose, ConnOK
<1> QED
  BY <1>2, <1>3, <1>4 DEF IInv

\* Connections and foreign sockets come and go without disturbing what the maps of
\* the manager and of the Apply under way say.
LEMMA MapsUnchanged ==
  ASSUME IInv, UNCHANGED <<forwarders, limiters, rate, pc, desired, started>>
  PROVE  AtRest' /\ StartedOK' /\ PhaseOK' /\ ForwarderOK' /\ Coherent' /\ RateOK'
<1>1. AtRest' /\ StartedOK'
  BY DEF IInv, AtRest, StartedOK, Wants, Retained
<1>2. PhaseOK'
  BY DEF IInv, PhaseOK, Pending, Installed, Wants, Retained
<1>3. ForwarderOK' /\ Coherent'
  BY DEF IInv, ForwarderOK, Coherent
<1>4. RateOK'
  BY DEF IInv, RateOK
<1> QED
  BY <1>1, <1>2, <1>3, <1>4

LEMMA AcceptIInv ==
  ASSUME NEW net \in Nets, NEW id \in RuleIds, IInv, Accept(net, id)
  PROVE  IInv'
<1> PICK f \in {forwarders[net][id], started[net][id]} \ {None} :
      /\ f.accepting
      /\ conns' = conns \cup {[net |-> net, id |-> id, addr |-> f.addr, target |-> f.rule.target]}
  BY DEF Accept
<1>1. f \in Forwarder
  BY DEF IInv, TypeOK, ForwarderMaps
<1>2. f.addr \in Addrs /\ f.rule.target \in Addrs
  BY <1>1 DEF Forwarder, PreparedRule
<1>3. TypeOK'
  BY <1>2 DEF IInv, TypeOK, Accept, Conn
<1>4. ConnOK'
  BY DEF IInv, ConnOK, Accept, StartedOK
<1>5. AtRest' /\ StartedOK' /\ PhaseOK' /\ ForwarderOK' /\ Coherent' /\ RateOK'
  BY MapsUnchanged DEF Accept
<1>6. NoLeakedListener'
  BY DEF IInv, Accept, NoLeakedListener, SocketsOf
<1> QED
  BY <1>3, <1>4, <1>5, <1>6 DEF IInv

\* The steps of clients and of the host's other processes.
LEMMA EnvironmentIInv ==
  ASSUME IInv,
         \/ \E c \in conns : EndConn(c)
         \/ \E net \in Nets, addr \in Addrs : Grab(net, addr) \/ Release(net, addr)
  PROVE  IInv'
<1>1. /\ UNCHANGED <<closed, forwarders, limiters, rate, pc, desired, started>>
      /\ conns' \subseteq conns
      /\ \A s \in Socket : s.owner # Other => (s \in sockets' <=> s \in sockets)
      /\ sockets' \subseteq Socket
  <2>1. CASE \E c \in conns : EndConn(c)
    BY <2>1 DEF EndConn, IInv, TypeOK
  <2>2. ASSUME NEW net \in Nets, NEW addr \in Addrs, Grab(net, addr) \/ Release(net, addr)
        PROVE  /\ UNCHANGED <<closed, forwarders, limiters, rate, pc, desired, started>>
               /\ conns' \subseteq conns
               /\ \A s \in Socket : s.owner # Other => (s \in sockets' <=> s \in sockets)
               /\ sockets' \subseteq Socket
    BY <2>2 DEF Grab, Release, IInv, TypeOK, Socket
  <2> QED
    BY <2>1, <2>2
<1>2. TypeOK'
  BY <1>1 DEF IInv, TypeOK
<1>3. NoLeakedListener'
  BY <1>1, OtherAssumption DEF IInv, TypeOK, NoLeakedListener, SocketsOf
<1>4. AtRest' /\ StartedOK' /\ PhaseOK' /\ ForwarderOK' /\ Coherent' /\ RateOK'
  BY <1>1, MapsUnchanged
<1>5. ConnOK'
  BY <1>1 DEF IInv, ConnOK
<1> QED
  BY <1>2, <1>3, <1>4, <1>5 DEF IInv

LEMMA NextIInv == IInv /\ [Next]_vars => IInv'
<1> SUFFICES ASSUME IInv, [Next]_vars PROVE IInv'
  OBVIOUS
<1>1. CASE \E rules \in RuleLists : BeginApply(rules)
  BY <1>1, BeginApplyIInv
<1>2. ASSUME NEW net \in Nets, NEW id \in RuleIds,
             \/ Open(net, id) \/ OpenFails(net, id)
             \/ Install(net, id) \/ StartForwarder(net, id)
             \/ CloseForwarder(net, id) \/ Accept(net, id)
      PROVE  IInv'
  BY <1>2, OpenIInv, OpenFailsIInv, InstallIInv, StartForwarderIInv, CloseForwarderIInv, AcceptIInv
<1>3. CASE TCPOpened \/ UpdateRates \/ AllInstalled \/ Finish \/ BeginClose
  BY <1>3, TCPOpenedIInv, UpdateRatesIInv, AllInstalledIInv, FinishIInv, BeginCloseIInv
<1>4. CASE \/ \E c \in conns : EndConn(c)
           \/ \E net \in Nets, addr \in Addrs : Grab(net, addr) \/ Release(net, addr)
  BY <1>4, EnvironmentIInv
<1>5. CASE UNCHANGED vars
  <2>1. AtRest' /\ StartedOK' /\ PhaseOK' /\ ForwarderOK' /\ Coherent' /\ RateOK'
    BY <1>5, MapsUnchanged DEF vars
  <2>2. TypeOK' /\ NoLeakedListener'
    BY <1>5 DEF vars, IInv, TypeOK, NoLeakedListener, SocketsOf
  <2>3. ConnOK'
    BY <1>5 DEF vars, IInv, ConnOK
  <2> QED
    BY <2>1, <2>2, <2>3 DEF IInv
<1> QED
  BY <1>1, <1>2, <1>3, <1>4, <1>5 DEF Next

LEMMA Inductive == Spec => []IInv
<1> QED
  BY InitIInv, NextIInv, PTL DEF Spec

LEMMA Consequences == IInv => TypeOK /\ NoLeakedListener /\ LimiterOpen /\ Settled
<1> SUFFICES ASSUME IInv PROVE LimiterOpen /\ Settled
  BY DEF IInv
<1>1. ASSUME NEW net \in Nets, NEW id \in RuleIds,
             forwarders[net][id] # None \/ started[net][id] # None
      PROVE  rate[id] # None
  BY <1>1 DEF IInv, ForwarderOK, StartedOK, RateOK, Wants
<1>2. ASSUME NEW c \in conns PROVE rate[c.id] # None
  BY <1>1 DEF IInv, TypeOK, Conn, ConnOK
<1>3. ASSUME pc = "idle" PROVE limiters = {id \in RuleIds : rate[id] # None}
  BY <1>3 DEF IInv, AtRest, RateOK, TypeOK
<1>4. Settled
  BY <1>3 DEF Settled, IInv, ForwarderOK, Coherent
<1> QED
  BY <1>1, <1>2, <1>4 DEF LimiterOpen

\* The variables of the manager keep their types, whatever rule lists it is given.
THEOREM TypeCorrect == Spec => []TypeOK
BY Inductive, Consequences, PTL

\* No listening socket is leaked by an Apply that fails half-way, or by Close.
THEOREM ListenersAccounted == Spec => []NoLeakedListener
BY Inductive, Consequences, PTL

\* No forwarder and no connection is ever left with a closed limiter.
THEOREM LimitersOpen == Spec => []LimiterOpen
BY Inductive, Consequences, PTL

\* Between two calls the manager's maps agree with one another.
THEOREM MapsSettled == Spec => []Settled
BY Inductive, Consequences, PTL

--------------------------------------------------------------------------------
\* The sockets of a forwarder map are the process's own.
LEMMA OwnSockets ==
  \A addr \in Addrs, net \in Nets :
    [net |-> net, addr |-> addr, owner |-> Other] \notin SocketsOf(forwarders)
BY OtherAssumption DEF SocketsOf

\* A failing Apply leaves listeners, configuration and rates as they were.
THEOREM FailedApplyInvisible == Spec => FailedApplyIsInvisible
<1> DEFINE Invisible ==
      /\ UNCHANGED <<forwarders, limiters>>
      /\ pc' # "install" => \A id \in limiters : rate'[id] = rate[id]
      /\ (SocketsOf(forwarders) \subseteq sockets')
<1>1. ASSUME IInv, [Next]_vars, pc \in Nets PROVE Invisible
  <2>1. SocketsOf(forwarders) \subseteq sockets /\ limiters \subseteq RuleIds
    BY <1>1 DEF IInv, TypeOK, NoLeakedListener
  <2>2. SocketsOf(forwarders) \cap SocketsOf(started) = {}
    BY <1>1, DistinctSockets DEF IInv
  <2>3. CASE \E rules \in RuleLists : BeginApply(rules)
    BY <2>3, <1>1 DEF BeginApply, Nets
  <2>4. ASSUME NEW net \in Nets, NEW id \in RuleIds, Open(net, id) \/ OpenFails(net, id)
        PROVE  Invisible
    BY <2>4, <2>1, <2>2 DEF Open, OpenFails
  <2>5. ASSUME NEW net \in Nets, NEW id \in RuleIds,
               Install(net, id) \/ StartForwarder(net, id) \/ CloseForwarder(net, id) \/ Accept(net, id)
        PROVE  Invisible
    BY <2>5, <1>1, <2>1 DEF Install, StartForwarder, CloseForwarder, Accept, Nets
  <2>6. CASE TCPOpened \/ UpdateRates \/ AllInstalled \/ Finish \/ BeginClose
    BY <2>6, <1>1, <2>1 DEF TCPOpened, UpdateRates, AllInstalled, Finish, BeginClose, Nets
  <2>7. CASE \/ \E c \in conns : EndConn(c)
             \/ \E net \in Nets, addr \in Addrs : Grab(net, addr) \/ Release(net, addr)
    BY <2>7, <2>1, OwnSockets DEF EndConn, Grab, Release
  <2>8. CASE UNCHANGED vars
    BY <2>8, <2>1 DEF vars
  <2> QED
    BY <1>1, <2>3, <2>4, <2>5, <2>6, <2>7, <2>8 DEF Next
<1>2. IInv /\ [Next]_vars => [(pc \in Nets) => Invisible]_vars
  BY <1>1
<1> QED
  BY <1>2, Inductive, PTL DEF Spec, FailedApplyIsInvisible

\* When Apply begins to close old listeners, every new one is open.
THEOREM NewListenersFirst == Spec => NewBeforeOld
<1> DEFINE Closing == ~closed /\ (\E s \in SocketsOf(forwarders) : s \notin sockets')
           New == \A net \in Nets, id \in RuleIds :
                    Wants(net, id) =>
                      ([net |-> net, addr |-> desired[id].listen, owner |-> id] \in sockets')
<1>1. ASSUME IInv, [Next]_vars, Closing PROVE New
  <2>1. SocketsOf(forwarders) \subseteq sockets /\ SocketsOf(started) \subseteq sockets
    BY <1>1 DEF IInv, NoLeakedListener
  <2>2. ASSUME NEW net \in Nets, NEW id \in RuleIds, CloseForwarder(net, id)
        PROVE  New
    <3> SUFFICES ASSUME NEW n \in Nets, NEW i \in RuleIds, Wants(n, i)
                 PROVE  [net |-> n, addr |-> desired[i].listen, owner |-> i] \in sockets'
      OBVIOUS
    <3> DEFINE s == [net |-> n, addr |-> desired[i].listen, owner |-> i]
    <3>1. s \in Socket
      BY <1>1 DEF IInv, TypeOK, RuleMaps, PreparedRule, Wants, Socket
    <3>2. Retained(n, i) \/ started[n][i] # None
      BY <1>1, <2>2 DEF IInv, PhaseOK, CloseForwarder, Pending
    <3>3. s \in sockets
      BY <1>1, <2>1, <3>1, <3>2 DEF SocketsOf, Retained, IInv, StartedOK
    <3>4. s # SocketOf(net, id, forwarders[net][id])
      BY <2>2 DEF SocketOf, CloseForwarder, Stale, Retained
    <3> QED
      BY <2>2, <3>3, <3>4 DEF CloseForwarder
  <2>3. ASSUME NEW net \in Nets, NEW id \in RuleIds, Open(net, id) \/ OpenFails(net, id)
        PROVE  FALSE
    BY <1>1, <2>1, <2>3, DistinctSockets DEF Open, OpenFails, IInv
  <2>4. CASE \/ \E rules \in RuleLists : BeginApply(rules)
             \/ TCPOpened \/ UpdateRates \/ AllInstalled \/ Finish \/ BeginClose
             \/ \E net \in Nets, id \in RuleIds :
                  Install(net, id) \/ StartForwarder(net, id) \/ Accept(net, id)
             \/ UNCHANGED vars
    BY <1>1, <2>1, <2>4 DEF BeginApply, TCPOpened, UpdateRates, AllInstalled, Finish, BeginClose,
         Install, StartForwarder, Accept, vars
  <2>5. CASE \/ \E c \in conns : EndConn(c)
             \/ \E net \in Nets, addr \in Addrs : Grab(net, addr) \/ Release(net, addr)
    BY <1>1, <2>1, <2>5, OwnSockets DEF EndConn, Grab, Release
  <2> QED
    BY <1>1, <2>2, <2>3, <2>4, <2>5 DEF Next
<1>2. IInv /\ [Next]_vars => [Closing => New]_vars
  BY <1>1
<1> QED
  BY <1>2, Inductive, PTL DEF Spec, NewBeforeOld

\* A connection of a retained rule ends only by itself.
THEOREM RetainedConnections == Spec => KeptConnectionsSurvive
<1> DEFINE Survive == \A c \in conns : c \notin conns' => EndConn(c) \/ ~Kept(c)
<1>1. ASSUME IInv, [Next]_vars PROVE Survive
  <2> SUFFICES ASSUME NEW c \in conns, c \notin conns' PROVE EndConn(c) \/ ~Kept(c)
    OBVIOUS
  <2>1. ASSUME NEW net \in Nets, NEW id \in RuleIds, Install(net, id)
        PROVE  ~Kept(c)
    BY <2>1 DEF Install, SessionsReset, Kept
  <2>2. ASSUME NEW net \in Nets, NEW id \in RuleIds, CloseForwarder(net, id)
        PROVE  ~Kept(c)
    BY <2>2 DEF CloseForwarder, Stale, Retained, Kept
  <2>3. ASSUME NEW d \in conns, EndConn(d) PROVE EndConn(c)
    BY <2>3 DEF EndConn
  <2>4. CASE \/ \E rules \in RuleLists : BeginApply(rules)
             \/ TCPOpened \/ UpdateRates \/ AllInstalled \/ Finish \/ BeginClose
             \/ \E net \in Nets, id \in RuleIds :
                  Open(net, id) \/ OpenFails(net, id) \/ StartForwarder(net, id) \/ Accept(net, id)
             \/ \E net \in Nets, addr \in Addrs : Grab(net, addr) \/ Release(net, addr)
             \/ UNCHANGED vars
    BY <2>4 DEF BeginApply, TCPOpened, UpdateRates, AllInstalled, Finish, BeginClose, Open,
         OpenFails, StartForwarder, Accept, Grab, Release, vars
  <2> QED
    BY <1>1, <2>1, <2>2, <2>3, <2>4 DEF Next
<1>2. IInv /\ [Next]_vars => [Survive]_vars
  BY <1>1
<1> QED
  BY <1>2, Inductive, PTL DEF Spec, KeptConnectionsSurvive

--------------------------------------------------------------------------------
\* What the forwarders run, read off the manager's maps.
Observed == [id \in RuleIds |->
  IF forwarders["tcp"][id] # None THEN forwarders["tcp"][id].rule
  ELSE IF forwarders["udp"][id] # None THEN forwarders["udp"][id].rule
  ELSE None]

\* When Apply returns, the forwarders run exactly the rules it was given.
LEMMA FinishServes == ASSUME IInv, Finish PROVE Observed' = desired
<1>1. \A net \in Nets, id \in RuleIds :
        /\ forwarders[net][id] # None => Retained(net, id) /\ started[net][id] = None
        /\ Wants(net, id) => forwarders[net][id] # None \/ started[net][id] # None
  BY DEF Finish, Stale, IInv, PhaseOK, Pending, StartedOK, Retained
<1>2. \A net \in Nets, id \in RuleIds :
        forwarders'[net][id] =
          IF started[net][id] # None THEN started[net][id] ELSE forwarders[net][id]
  BY DEF Finish
<1>3. \A net \in Nets, id \in RuleIds : forwarders'[net][id] # None <=> Wants(net, id)
  BY <1>1, <1>2 DEF IInv, StartedOK, Retained
<1>4. \A net \in Nets, id \in RuleIds : Wants(net, id) => forwarders'[net][id].rule = desired[id]
  BY <1>1, <1>2 DEF IInv, StartedOK, PhaseOK, Installed, Finish
<1>5. \A id \in RuleIds : desired[id] # None => Wants("tcp", id) \/ Wants("udp", id)
  BY DEF IInv, TypeOK, RuleMaps, PreparedRule, Wants, Nets
<1>6. \A id \in RuleIds : Observed'[id] = desired[id]
  BY <1>3, <1>4, <1>5 DEF Observed, Wants, Nets
<1> QED
  BY <1>6 DEF Observed, IInv, TypeOK, RuleMaps

\* Apply and Close, for all their steps and for every failure, replace the rule
\* set of the node as a whole or not at all.
THEOREM Transactional == Spec => ImplementsTransactions
<1> USE DEF Abstract!tvars, Abstract!NoRules, Abstract!Nets
<1>1. Init => Abstract!Start
  BY NoneAssumption DEF Init, Abstract!Start, Serving, Nets
<1>2. ASSUME IInv, [Next]_vars PROVE [Abstract!Step]_(Abstract!tvars)
  <2> USE <1>2 DEF Nets
  <2>0. Serving = IF pc \in {"install", "close"} THEN desired ELSE Observed
    BY DEF Serving, Observed
  <2>1. CASE \E rules \in RuleLists : BeginApply(rules)
    <3>1. desired' \in RuleMaps /\ Disjoint(desired')
      BY <2>1, DesiredMap DEF BeginApply
    <3>2. desired' \in Abstract!RuleMaps /\ Abstract!Disjoint(desired')
      BY <3>1 DEF RuleMaps, Disjoint, Abstract!RuleMaps, Abstract!Disjoint, SameListener,
                  Abstract!SameListener, PreparedRule, Abstract!PreparedRule
    <3>3. Serving' = Serving
      BY <2>1 DEF BeginApply, Serving
    <3>4. Abstract!Call
      BY <2>1, <3>2, <3>3 DEF BeginApply, Abstract!Call
    <3> QED
      BY <3>4 DEF Abstract!Step
  <2>2. CASE \E net \in Nets, id \in RuleIds : OpenFails(net, id)
    <3>1. Abstract!Fail
      BY <2>2 DEF OpenFails, Abstract!Fail, Abstract!Return, Serving
    <3> QED
      BY <3>1 DEF Abstract!Step
  <2>3. CASE UpdateRates
    <3>1. Abstract!Commit
      BY <2>3 DEF UpdateRates, Abstract!Commit, Abstract!Return, Serving
    <3> QED
      BY <3>1 DEF Abstract!Step
  <2>4. CASE BeginClose
    <3>1. Abstract!Shut
      BY <2>4 DEF BeginClose, IInv, AtRest, Abstract!Shut, Serving
    <3> QED
      BY <3>1 DEF Abstract!Step
  <2>5. CASE Finish
    <3>1. pc = "close" /\ pc' = "idle" /\ closed' = closed
      BY <2>5 DEF Finish
    <3>2. Serving' = Observed'
      BY <3>1 DEF Serving, Observed
    <3>3. Serving' = Serving
      BY <2>0, <2>5, <3>1, <3>2, FinishServes
    <3> QED
      BY <3>1, <3>3
  <2>6. CASE \/ AllInstalled
             \/ \E net \in Nets, id \in RuleIds : Install(net, id) \/ CloseForwarder(net, id)
    <3>1. {pc, pc'} \subseteq {"install", "close"} /\ UNCHANGED <<desired, closed>>
      BY <2>6 DEF AllInstalled, Install, CloseForwarder
    <3> QED
      BY <3>1 DEF Serving
  <2>7. CASE \/ TCPOpened
             \/ \E net \in Nets, id \in RuleIds :
                  Open(net, id) \/ StartForwarder(net, id) \/ Accept(net, id)
             \/ \E c \in conns : EndConn(c)
             \/ \E net \in Nets, addr \in Addrs : Grab(net, addr) \/ Release(net, addr)
             \/ UNCHANGED vars
    <3>1. /\ UNCHANGED <<forwarders, desired, closed>>
          /\ pc' = pc \/ (pc = "tcp" /\ pc' = "udp")
      BY <2>7 DEF TCPOpened, Open, StartForwarder, Accept, EndConn, Grab, Release, vars
    <3> QED
      BY <3>1 DEF Serving
  <2> QED
    BY <2>1, <2>2, <2>3, <2>4, <2>5, <2>6, <2>7 DEF Next
<1> QED
  BY <1>1, <1>2, Inductive, PTL DEF Spec, ImplementsTransactions, Abstract!Transactions
================================================================================
