-------------------------------- MODULE Telemetry --------------------------------
(***************************************************************************)
(* The numbers an operator sees: the agent's counters (Manager.Stats in    *)
(* internal/forward/tcp.go), the heartbeats that carry them, and what both *)
(* stores make of them: one sample for each node and minute, the           *)
(* statistics of each rule, and the traffic history that is computed from  *)
(* neighbouring samples.                                                   *)
(*                                                                         *)
(* `stat' is kept by internal/store/memory.go and `row' by the PostgreSQL  *)
(* store; both are served the same heartbeats.  The two stores keep the    *)
(* same samples.  Incoming and outgoing bytes are treated alike, so one    *)
(* direction stands for both; of the connections of a rule only whether    *)
(* there are any is kept.  Percentages, rates and the list of connections  *)
(* are left out.                                                           *)
(***************************************************************************)
EXTENDS Integers, FiniteSets, FiniteSetsExt, SequencesExt

CONSTANTS
  Nodes, Rules,
  None,          \* no counter, sample or node
  Retention,     \* store.NodeMetricRetention, in minutes
  Scenarios,     \* which rules are stored and run where, with bounds on time and traffic
  LastMinute,    \* the largest bound on time
  MaxRequests,   \* bound on the heartbeats under way
  MaxRecounts    \* bound on stopped rules and overtaken heartbeats

Minutes == 0 .. LastMinute

\* ingress: the nodes the rules are created for, None for a rule of which a node
\* is the egress only; runs: the rules an agent may be sent, an agent that is sent
\* none being down; busy: the rules that may have connections.
Scenario ==
  [ingress : [Rules -> Nodes \cup {None}], runs : [Nodes -> SUBSET Rules],
   busy : SUBSET Rules, minutes : Minutes, bytes : Nat]

ASSUME TelemetryAssumption ==
  /\ LastMinute \in Nat /\ Retention \in Nat /\ MaxRequests \in Nat /\ MaxRecounts \in Nat
  /\ None \notin Nat /\ None \notin Nodes
  /\ IsFiniteSet(Nodes) /\ IsFiniteSet(Rules)
  /\ \A scenario \in Scenarios : scenario \in Scenario

VARIABLES
  scenario,    \* one of Scenarios; no action changes it
  now,         \* the control plane's clock, in minutes
  ingress,     \* the ingress node of each stored rule, None when it is deleted
  counters,    \* bytes counted by each forwarder an agent runs, None without one
  requests,    \* heartbeats under way, in the order they were sent
  samples,     \* the cumulative bytes of node_metric_samples
  stat,        \* the statistics in memory.forwardRules
  row,         \* rule_runtime_stats of PostgreSQL
  forwarded,   \* what the agent really forwarded
  recounts,    \* rules stopped with bytes counted, and heartbeats overtaken
  moved        \* rules that had another ingress before

agentVars == <<counters, requests, forwarded>>
storeVars == <<samples, stat, row>>
vars == <<scenario, now, ingress, counters, requests, samples, stat, row, forwarded, recounts, moved>>

Counters == [Rules -> Nat \cup {None}]
NoStat == [bytes |-> 0, active |-> FALSE]
Stat == [bytes : Nat, active : BOOLEAN]
\* A rule that has no row is taken to have one of no node.
Row == [node : Nodes \cup {None}, bytes : Nat, active : BOOLEAN]
NoRow == [node |-> None, bytes |-> 0, active |-> FALSE]
Request == [counters : Counters, active : SUBSET Rules, late : BOOLEAN]

TypeOK ==
  /\ scenario \in Scenarios
  /\ now \in Minutes
  /\ ingress \in [Rules -> Nodes \cup {None}]
  /\ counters \in [Nodes -> Counters]
  /\ requests \in [Nodes -> Seq(Request)]
  /\ samples \in [Nodes -> [Minutes -> Nat \cup {None}]]
  /\ stat \in [Rules -> Stat]
  /\ row \in [Rules -> Row]
  /\ forwarded \in [Nodes -> Nat] /\ recounts \in [Nodes -> Nat] /\ moved \subseteq Rules

\* What the bounds are about.
InAll(amount) == SumFunctionOnSet(amount, Nodes)

\* Rules that were just created, agents that run none of them.
Init ==
  /\ scenario \in Scenarios
  /\ now = 0
  /\ ingress = scenario.ingress
  /\ counters = [n \in Nodes |-> [r \in Rules |-> None]]
  /\ requests = [n \in Nodes |-> <<>>]
  /\ samples = [n \in Nodes |-> [m \in Minutes |-> None]]
  /\ stat = [r \in Rules |-> NoStat] /\ row = [r \in Rules |-> NoRow]
  /\ forwarded = [n \in Nodes |-> 0] /\ recounts = [n \in Nodes |-> 0]
  /\ moved = {}

--------------------------------------------------------------------------------
\* The agents.

Reported(counts) == {r \in Rules : counts[r] # None}

\* The sum over the rules in Stats.
Total(counts) == SumFunctionOnSet(counts, Reported(counts))

Start(n, r) ==
  /\ r \in scenario.runs[n] /\ counters[n][r] = None
  /\ counters' = [counters EXCEPT ![n][r] = 0]
  /\ UNCHANGED <<scenario, now, ingress, requests, forwarded, recounts, moved>> /\ UNCHANGED storeVars

\* Apply closes a forwarder: its counters are gone.
Stop(n, r) ==
  /\ r \in Reported(counters[n])
  /\ counters[n][r] > 0 => InAll(recounts) < MaxRecounts
  /\ counters' = [counters EXCEPT ![n][r] = None]
  /\ recounts' = [recounts EXCEPT ![n] = @ + IF counters[n][r] > 0 THEN 1 ELSE 0]
  /\ UNCHANGED <<scenario, now, ingress, requests, forwarded, moved>> /\ UNCHANGED storeVars

Transfer(n, r) ==
  /\ r \in Reported(counters[n]) /\ InAll(forwarded) < scenario.bytes
  /\ counters' = [counters EXCEPT ![n][r] = @ + 1]
  /\ forwarded' = [forwarded EXCEPT ![n] = @ + 1]
  /\ UNCHANGED <<scenario, now, ingress, requests, recounts, moved>> /\ UNCHANGED storeVars

\* The agent's process is restarted and opens its forwarders again.
Restart(n) ==
  /\ counters' = [counters EXCEPT ![n] = [r \in Rules |-> IF @[r] = None THEN None ELSE 0]]
  /\ UNCHANGED <<scenario, now, ingress, requests, forwarded, recounts, moved>> /\ UNCHANGED storeVars

\* synchronize: the last heartbeat was answered, or the agent has given up on it
\* although the control plane may still serve it.
SendHeartbeat(n, active) ==
  /\ scenario.runs[n] # {}
  /\ InAll([m \in Nodes |-> Len(requests[m])]) < MaxRequests
  /\ active \subseteq Reported(counters[n]) \cap scenario.busy
  /\ requests' = [requests EXCEPT ![n] =
       Append(@, [counters |-> counters[n], active |-> active, late |-> FALSE])]
  /\ UNCHANGED <<scenario, now, ingress, counters, forwarded, recounts, moved>> /\ UNCHANGED storeVars

Lose(n, i) ==
  /\ requests' = [requests EXCEPT ![n] = RemoveAt(@, i)]
  /\ UNCHANGED <<scenario, now, ingress, counters, forwarded, recounts, moved>> /\ UNCHANGED storeVars

--------------------------------------------------------------------------------
\* The stores.

\* Samples that are too old are deleted, those of every node.
Expired(t) == t < now - Retention

\* A heartbeat's total becomes the sample of the minute.
Sampled(n, total) ==
  [m \in Nodes |-> [t \in Minutes |->
     IF Expired(t) THEN None
     ELSE IF m = n /\ t = now THEN total ELSE samples[m][t]]]

\* memory.go: the rules of the node the heartbeat brings, then those it omits.
MemoryStats(n, request) ==
  [r \in Rules |->
     IF ingress[r] # n THEN stat[r]
     ELSE IF r \in Reported(request.counters)
       THEN [bytes |-> request.counters[r], active |-> r \in request.active]
     ELSE [bytes |-> stat[r].bytes, active |-> FALSE]]

ZeroedNever(r, n) == FALSE

Zeroed(r, n) == row[r].node = n

\* postgres.go: the node's rows are zeroed, then the rules it is the ingress of
\* are inserted, or updated in all but their node.
PostgresRows(n, request) ==
  [r \in Rules |->
     IF ingress[r] = n /\ r \in Reported(request.counters)
       THEN [node |-> IF row[r].node = None THEN n ELSE row[r].node,
             bytes |-> request.counters[r], active |-> r \in request.active]
     ELSE IF Zeroed(r, n)
       THEN [node |-> row[r].node, bytes |-> row[r].bytes, active |-> FALSE]
     ELSE row[r]]

Overtaken(request) == [counters |-> request.counters, active |-> request.active, late |-> TRUE]

\* agentHeartbeat and UpdateAgentHeartbeat; the heartbeats sent before are late.
ServeHeartbeat(n, i) ==
  LET request == requests[n][i] IN
    /\ request.late => InAll(recounts) < MaxRecounts
    /\ samples' = Sampled(n, Total(request.counters))
    /\ stat' = MemoryStats(n, request)
    /\ row' = PostgresRows(n, request)
    /\ requests' = [requests EXCEPT ![n] =
         RemoveAt([j \in DOMAIN @ |-> IF j < i THEN Overtaken(@[j]) ELSE @[j]], i)]
    /\ recounts' = [recounts EXCEPT ![n] = @ + IF request.late THEN 1 ELSE 0]
    /\ UNCHANGED <<scenario, now, ingress, counters, forwarded, moved>>

\* UpdateForwardRule gives a rule another ingress node; statistics are kept.
MoveRule(r, n) ==
  /\ r \in scenario.runs[n] /\ ingress[r] \notin {n, None}
  /\ ingress' = [ingress EXCEPT ![r] = n]
  /\ moved' = moved \cup {r}
  /\ UNCHANGED <<scenario, now, recounts>> /\ UNCHANGED agentVars /\ UNCHANGED storeVars

\* DeleteForwardRule; the row goes with the rule.
DeleteRule(r) ==
  /\ ingress[r] # None
  /\ ingress' = [ingress EXCEPT ![r] = None]
  /\ stat' = [stat EXCEPT ![r] = NoStat] /\ row' = [row EXCEPT ![r] = NoRow]
  /\ UNCHANGED <<scenario, now, samples, recounts, moved>> /\ UNCHANGED agentVars

Tick ==
  /\ now < scenario.minutes
  /\ now' = now + 1
  /\ UNCHANGED <<scenario, ingress, recounts, moved>> /\ UNCHANGED agentVars /\ UNCHANGED storeVars

Next ==
  \/ \E n \in Nodes, r \in Rules : Start(n, r) \/ Stop(n, r) \/ Transfer(n, r) \/ MoveRule(r, n)
  \/ \E n \in Nodes : Restart(n) \/ \E active \in SUBSET Rules : SendHeartbeat(n, active)
  \/ \E n \in Nodes : \E i \in DOMAIN requests[n] : ServeHeartbeat(n, i) \/ Lose(n, i)
  \/ \E r \in Rules : DeleteRule(r)
  \/ Tick

Spec == Init /\ [][Next]_vars

--------------------------------------------------------------------------------
\* The traffic history.

Kept(n) == {m \in Minutes : samples[n][m] # None}

DeltaUnsigned(previous, current) == (current - previous) % (scenario.bytes + 2)

\* Counters that fell start anew: all they show was forwarded since.
Delta(previous, current) == IF current >= previous THEN current - previous ELSE current

\* memory.go: every sample up to `to' is compared with the one before it.
MemoryTraffic(n, from, to) ==
  LET seen == {m \in Kept(n) : m <= to}
      prior(m) == {k \in seen : k < m} IN
    SumFunction([m \in {t \in seen : t >= from /\ prior(t) # {}} |->
                   Delta(samples[n][Max(prior(m))], samples[n][m])])

PriorNone(n, from) == {}

\* postgres.go: the last sample before `from' ...
Prior(n, from) == LET before == {m \in Kept(n) : m < from} IN {m \in before : m = Max(before)}

InOrder(minutes) ==
  CHOOSE ordered \in [1 .. Cardinality(minutes) -> minutes] :
    \A i, j \in DOMAIN ordered : i < j => ordered[i] < ordered[j]

\* ... and those of the window in order of time, each beside the one LAG gives.
PostgresTraffic(n, from, to) ==
  LET ordered == InOrder({m \in Kept(n) : from <= m /\ m <= to} \cup Prior(n, from)) IN
    SumFunction([i \in {j \in DOMAIN ordered : j > 1 /\ ordered[j] >= from} |->
                   Delta(samples[n][ordered[i - 1]], samples[n][ordered[i]])])

\* The dashboard adds up the nodes.
TrafficHistory(from, to) == InAll([n \in Nodes |-> MemoryTraffic(n, from, to)])

\* What trafficHistory may ask for.
Windows == {window \in Minutes \X Minutes : window[1] <= window[2]}

--------------------------------------------------------------------------------
\* The statistics of a rule are the same in both stores, however heartbeats are
\* lost or overtake each other and whatever rules the agents run (UPDATE
\* rule_runtime_stats in postgres.go, reportedRules in memory.go): the in-memory
\* store, which the handlers are tested with, stands for PostgreSQL.  It does so
\* for a rule that kept its ingress node only: the row of a rule that moved keeps
\* the node that reported it first, and whether it has connections is cleared by
\* that node's heartbeats and not by those of the ingress.
StatsAgree ==
  \A r \in Rules :
    /\ row[r].bytes = stat[r].bytes
    /\ r \notin moved => row[r].active = stat[r].active

\* The traffic of a node in a window is the same in both stores, wherever the
\* window starts between samples that are missing or were deleted.
HistoriesAgree ==
  /\ TypeOK
  /\ \A n \in Nodes : \A window \in Windows :
       MemoryTraffic(n, window[1], window[2]) = PostgresTraffic(n, window[1], window[2])

\* The traffic trend is the difference of neighbouring counters and recognises
\* counters that were reset by a restart of the agent (README.md:168): it never
\* shows more than was forwarded, but for a rule that stops with bytes counted
\* or a heartbeat that is overtaken, each of which lets what the agent's
\* counters held be counted once more.
HistoryCounts ==
  TrafficHistory(0, LastMinute) <= InAll([n \in Nodes |-> forwarded[n] * (1 + recounts[n])])
================================================================================
