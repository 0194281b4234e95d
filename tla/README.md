# PortFlow: verification project

PortFlow forwards TCP and UDP ports. A *control plane* (`cmd/control`,
`internal/control`, `internal/store`) keeps rules in PostgreSQL; an *agent* on each
node (`cmd/agent`, `internal/agent`) fetches the rules of its node and runs them in a
*forwarding engine* (`internal/forward`). This directory holds TLA+ models of the
parts where order, concurrency and failure decide whether the program is right, the
TLC configurations that check them, and TLAPS proofs of their safety properties for every
value of the constants.

Run `tlc -config MCX.cfg MCX` for a module `X`, and `tlapm XProofs.tla` for each of the
eight modules with such a name.

## The system

| Component | State it keeps | Operations | What is hard |
|---|---|---|---|
| Rule model, `domain/model.go`, `forward.prepareRules` | none | `Validate`, `prepareRules` | direct and relay rules, ingress and egress view of one rule |
| Manager, `forward/tcp.go` `Manager` | forwarders by network, limiters, `closed` | `Apply`, `Close`, `Stats` | failure of any listen call, the order of opening, installing and closing, clients meanwhile |
| TCP forwarder, `forward/tcp.go` | listener, tracked sockets, sessions, active counter, config | accept loop, `handle`, copies, `close` | `close` against every step of a connection; the counter on every way out |
| UDP forwarder, `forward/udp.go` | packet socket, sessions by client, active counter, config | read loop, `sessionFor`, response loops, `update`, `close` | a mutex given up during a dial, three closers of one session, stale configuration |
| Limiter, `forward/bandwidth.go` | tokens, rate, last refill, notify channel, queue | `Wait`, `Update`, `Close` | one waiter sleeps with the queue mutex held while the rate changes or the limiter closes |
| Agent runtime, `agent/runtime.go`, `config.go`, `control.go` | current config, file, attempted version, last error | `Run`, `synchronize`, `Load`, `Save` | crashes, lost and late requests, failing writes and rollbacks |
| Log pipeline, `agent/log_buffer.go`, heartbeat handler, `agent_logs` | bounded buffer, batch, rows | `Logger`, `Pending`, `Acknowledge`, insertion | eviction during a batch, retries, refusal |
| Rule store, `store/postgres` | rules, versions of nodes | create, update, delete, `ConfigForAgent` | overlapping transactions, two-statement reads, lock order |
| Heartbeat storage, both stores | reported versions, statistics, snapshots, samples | `UpdateAgentHeartbeat` | late heartbeats; two implementations that must agree |
| Members, sessions, enrollment | users, sessions, tokens, nodes | handlers of `control/server.go` | overlapping requests, lost answers |
| Traffic and metric history | one sample for each node and minute | `TrafficHistory`, `NodeMetricHistory` | differences of counters that may fall, samples that are missing |
| In-memory store, `store/memory.go` | rules, versions, a cached configuration for each node, statistics | every operation under one mutex | it stands for PostgreSQL in the tests of the handlers |
| Two-factor codes, web interface, installer | | | nothing concurrent |

An administrator's request changes rules in the store, which raises the version of
every node concerned. The agent's heartbeat is answered with the version; if it is not
the agent's, the agent fetches the configuration, applies it with `Manager.Apply`,
writes its file and reports the version in the next heartbeat. The manager calls
`start`, `update` and `close` of the forwarders, whose goroutines share the rule's
limiter. Log entries travel in heartbeats.

What makes each component right, in one sentence: the manager replaces rule sets
all-or-nothing without dropping what is kept; a forwarder counts and closes exactly
what it opened; a node sees rules only with versions that grow; what is shown as
applied runs and survives a crash; a log entry is stored once unless the buffer was
full; an active administrator remains and a token makes one node; a rule never passes more
bytes than its rate earned; the stores show the same numbers and count no traffic that
was not forwarded.

## Modules

| Module | Models | Actions correspond to |
|---|---|---|
| `PrepareRules` | rules, `Validate`, `prepareRules` | operators only; a rule set is a function from ids to what the node runs, or `None` |
| `RuleTransaction` | abstract: a rule set is replaced or left alone | |
| `ForwardManager` | `Apply`, `Close` | one step for each listen call, forwarder installed, forwarder closed; `pc` is the place in `Apply` while `manager.mu` is held; clients and other processes act between any two |
| `ForwardManagerProofs` | theorems about it | |
| `TcpForwarder` | accept loop, `handle`, copies, `close` | one step for each counter operation, mutex section, dial and deferred call |
| `TcpForwarderProofs` | theorems about it, and about `BandwidthLimiter`, which implements `RateLimit` | |
| `UdpForwarder` | read loop, sessions, `update`, `close` | one step for each load or store of the configuration, mutex section, dial, half of `session.close` |
| `UdpForwarderProofs` | theorems about it | |
| `RateLimit` | abstract: an allowance that is earned all the time and spent by those who ask | |
| `BandwidthLimiter` | `Wait`, `Update`, `Close` | one step for each section under `limiter.mu`, each acquisition of `limiter.queue`, each way out of the `select`; `since` is the time since `lastRefill` |
| `ConfigSource` | abstract, for one node: a version that grows with each change of what is served | |
| `MemoryStore` | rules of the in-memory store, versions, `agentConfigs` | one step for each operation, as the store's mutex makes it |
| `RuleStore` | rule transactions, `ConfigForAgent`, the tunnel addresses that heartbeats write | one step for each statement that takes a lock; writes appear at commit; each read joins the relay hosts of its moment |
| `RuleStoreProofs` | theorems about it and about `MemoryStore` | |
| `ConfigSync` | agent runtime and its side of the control plane | one step for each request, answer, `Apply`, `Save`; `phase` is the place in `synchronize` |
| `ConfigSyncProofs` | theorems about it | |
| `LogDelivery` | abstract: a queue that loses only its oldest entry when full, and stores an entry once | |
| `Membership` | members, enrollment tokens, enrolled nodes | one step for each statement of a transaction and each handler that starts one |
| `MembershipProofs` | theorems about it | |
| `LogPipeline` | log buffer to table | one step for each logged entry, batch, answer |
| `LogPipelineProofs` | theorems about it | |
| `Telemetry` | counters, heartbeats that carry them, statistics and samples of both stores, histories | one step for each heartbeat sent or served, for each forwarder that starts, counts or stops; the histories are operators |
| `TelemetryProofs` | theorems about it, and the lemmas about sums and ordered minutes they need | |

The `MC` modules give the constants for TLC.

Layers. `ForwardManager` implements `RuleTransaction`, which is what `ConfigSync`
assumes of `Apply` (one step, all or nothing); it treats accepting and closing of a forwarder
as single steps, and that `close` returns and leaves nothing is what the two forwarder
modules check. These take a copy that waits for the limiter as one that has not ended,
because a closed limiter or a closed session lets every caller go, which is what
`BandwidthLimiter` checks. `RuleStore` (transactions of PostgreSQL) implements
`MemoryStore` (one step for each operation) in everything but relay hosts, which PostgreSQL joins
at each read and the in-memory store keeps in what it has built. A node of the in-memory store
is a `ConfigSource`; a node of PostgreSQL is one but for heartbeats that report another
tunnel address, which change relay hosts without a version; the store that `ConfigSync` assumes
is one, as long as it is not put back (`StoreIsSource`). All of this is proved. What is shown of the
agent therefore holds with the in-memory store, and with PostgreSQL while the tunnel
addresses that the node is sent do not change. In the other direction `RulesChangeAsAWhole` proves that the
agent uses the manager as `RuleTransaction` allows: its rules change by a whole valid map or
end with the process.

## Runs

| Run | Bounds | What it shows |
|---|---|---|
| `forward_manager` | 2 rules, 3 listen addresses of which two clash, 9 rule lists | `NoLeakedListener`, `LimiterOpen`, `Settled`, `FailedApplyIsInvisible`, `NewBeforeOld`, `KeptConnectionsSurvive`, and `ImplementsTransactions`, with a failing listen at any place, clients and foreign ports |
| `tcp_forwarder` | 3 connections, 2 changes of the configuration | the counter is exact (`ActiveExact`), `close` reaches every socket (`SocketsReachable`), `CloseReturns` |
| `udp_forwarder` | 2 clients, 3 sessions, 2 updates | sessions, sockets and counter agree (`SessionsAccounted`); a new target misses at most one session (`AtMostOneBehind`); `CloseReturns` |
| `bandwidth_limiter` | 2 callers, rates 0, 1, 2 and 5, buckets of 3 to 5, requests of 1 and 7 | `ImplementsRateLimit`: no byte passes before it was earned, also over a change of rate; `CloseReleases`: the sleeping caller and those in the queue; `WaitEnds` |
| `rule_store` | 2 nodes of which one changes its tunnel address, 2 overlapping requests, 2 rules, 4 inputs (relays both ways), versions to 3 | `ListenersDistinct`, `AppliedMeansSent`, `SameVersionSameRules`, `NoLockCycle`, `ImplementsMemory`: overlapping transactions have the effect of one operation after the other, and an agent is sent what the in-memory store would send, relay hosts apart |
| `config_sync` | 2 rules, 7 configurations, versions to 4, one abandoned heartbeat, a contested port | `NoFalseSuccess`, `ShownIsServed`, `AppliedIsDurable` |
| `config_sync_live` | 2 configurations, versions to 3, one abandoned heartbeat, a contested port, one restored backup | `Converges`, `FailureIsShown`, of a refused older configuration too |
| `membership` | 3 users, 2 tokens, 2 names, 2 overlapping requests | an active administrator remains (`AdministratorRemains`); a token makes one node, however often it is presented (`TokenMakesOneNode`); deleting a member never fails for its tokens (`DeleteNeverBlocked`) |
| `log_pipeline` | buffer 3, batch 2, 4 entries, 2 faults, 1 refused entry | `ImplementsDelivery`: nothing is lost but from a full buffer or by a dead agent, and nothing is stored twice; `RefusalPasses` |
| `telemetry` | two scenarios: 2 rules on one node for 4 minutes with 2 bytes; 1 rule that runs on 2 nodes in turn, within a minute. 2 heartbeats under way, one stop or overtaken heartbeat, samples kept for 2 minutes | `StatsAgree`, `HistoriesAgree` (the two stores show the same), `HistoryCounts` (nothing counted that was not forwarded) |
| `delete_and_reuse` | 3 configurations, versions to 4 | counterexample to `DeletedRuleStops` |
| `egress_listener_conflict` | as `rule_store`, 2 inputs | counterexample to `NodeListenersDistinct` |

Why the bounds are enough. Every hazard here needs at most two rules (one gives up
what the other wants), two connections of which one is at the limit, two requests in
each other's way, two versions and a late heartbeat of the first. The runs have one more
of what matters where the cost allows: a third connection, a third session, a version
after the failing one. `MaxUpdates`, `MaxSessions`, `MaxConnections`, `MaxVersion`,
`MaxAbandoned`, `MaxRestores`, `MaxEmitted`, `MaxFaults`, `MaxRefused`, `MaxRequests`,
`MaxRecounts` and `LastMinute` bound counters that the program does not bound; so do
`minutes` and `bytes` of a scenario. `Reports` has three tunnel addresses, so that one node may
change its own while a relay leads to it from the other. `MaxKbps` bounds a rate. A backup is taken at any version and
restored once, which is enough for an agent to be ahead of the store, to be equal with other rules and
to be overtaken again. The limiter's `Quarter`, `MinBurst` and `MaxBurst` stand for the 250
milliseconds, 4 KiB and 256 KiB of the code: the rates 1, 2 and 5 have the smallest bucket, one in
between and the largest, and 7 bytes are more than any bucket holds. In `telemetry`
traffic and statistics are apart because they share nothing but the heartbeats: samples go by
node, statistics by rule. Samples of three minutes are kept, so that the first one of a window
may lie before it, be missing or be gone. `rule_store` uses the symmetry
of requests and rule ids, `membership` that of all its constants, with safety properties only. The two forwarder runs turn
deadlock checking off: a closed forwarder is at its end.

## Fairness

* Forwarders: goroutines run; a read of a socket closed here fails; a dial ends (its
  context has ten seconds). Clients, targets and the manager's next call are owed
  nothing. A response loop or copy whose socket is open need never end.
* `ConfigSync`: the loop of `Run` never ends, a supervisor restarts the process
  (`deploy/systemd`), requests have time-outs, and among repeated attempts one is
  answered, so these steps are strongly fair. Faults, changes and other processes are
  not fair, and the properties assume in their premises that they cease.
* `BandwidthLimiter`: goroutines run, and a Go mutex lets in whoever has waited for a
  millisecond, so the acquisition of the queue is strongly fair. Time is not fair: `WaitEnds`
  has in its premise that it passes. It also excepts a limit that is lifted and imposed again
  for ever, which no `Wait` is owed anything under; `CloseReleases` needs no time.
* `LogPipeline`: the agent sends, awaited requests are answered; lost ones are bounded by
  `MaxFaults`.

## Proofs

`ForwardManagerProofs` proves, for every set of rules, addresses and rule lists, all
the properties that run `forward_manager` checks on a small instance: `TypeOK`,
`NoLeakedListener`, `LimiterOpen`, `Settled`, `FailedApplyIsInvisible`, `NewBeforeOld`,
`KeptConnectionsSurvive` and `ImplementsTransactions`.

They rest on the assumptions named in `PrepareRules` and `ForwardManager`: the node is
one of the nodes, `Clash` relates every address to itself, `Other` is no rule id, `None`
is no rule and no forwarder, rule lists are sequences of rules. Induction needs more than the
properties say. While `Apply` is under way, a started forwarder must be one that is
wanted, with the address its rule listens at, on a network already reached, and not
retained; forwarders that are installed must run the desired rule; limiters must
exist for what is desired as well as for what runs; and the old maps must still be settled
as they were before `Apply` began. The inductive invariant is the conjunction of these
statements; each action has a step, and under it a step for each conjunct it can disturb.
`ImplementsTransactions` maps the rule set being served to the desired one from the
moment nothing can fail any more, so that a failed `Apply` is a step that changes nothing
and the installation of forwarders is invisible.

`MembershipProofs` proves all the properties of run `membership`, for every finite set of
user ids and every set of tokens, names and requests. The invariant has to say what the
locks give: only one transaction holds the members' lock (`Exclusive`), so what it has read
of its user is still so, and when its count has let it take an administrator away
another one is still there (`CountOK`; here the finite set is needed, to get from the count
to a witness); an identifier that was drawn belongs to one request until it is stored
(`FreshOK`); a claimed token is unused and neither claimed nor deleted by anyone else
(`ClaimOK`); a transaction is only at statements of its kind (`JobOK`). That a deletion
is never refused follows from the row lock: a token is inserted only when no
transaction holds its creator's row.

`RuleStoreProofs` proves all the properties of run `rule_store`, for every finite set of nodes
and every set of rules, requests and inputs. The invariant says what each transaction knows
(`Sound`): the row it has locked is there, its listener is free among the stored rules, the nodes
it concerns are those of the old rule and of the new one, and a version it has given is the
next one, given in the order of the nodes; and what two transactions cannot both hold
(`Apart`). `AppliedMeansSent` and `SameVersionSameRules` are inductive beside them because a
commit writes a rule together with the versions of all nodes concerned; both speak of relay
hosts of some time, because a heartbeat may change them between any two steps. `NoLockCycle` is
proved for any set of waiting requests: requests that wait for a row hold nothing,
those that wait for a listener hold a row, and among those that wait for nodes the one
that has got furthest waits for nobody who waits; the order of nodes (`Rank`) being
finite, there is such a one. `ImplementsMemory` maps a commit to the operation, a heartbeat to
a heartbeat and every other statement to nothing; it compares relay ports without hosts.

It proves too how far a node of the database is a `ConfigSource` (`ServesSources`): its version
grows by one with whatever changes of what is served, except in a heartbeat with another tunnel
address, which changes the relay hosts of the rules whose egress node it comes from, for both
ends of the relay, and neither a version nor anything else. In the second part of the module it is proved
that the in-memory store, whose configurations are built once and kept, is a `ConfigSource`
without exception (`MemoryServesSources`); what is kept is what is stored, but for addresses
reported since (`MemoryServesStored`). The first of these two needs that a cached
configuration carries the version its node's heartbeats are answered with; the second that
every operation that stores rules covers the nodes of the rule before and after (`Covers`).

`ConfigSyncProofs` proves the properties of run `config_sync`, for every set of rules and
configurations, any number of versions, abandoned heartbeats and contested ports, and of the
restored backups that the run leaves out: `AppliedIsDurable`, and that the file
never goes back (`FileNeverGoesBack`), hold with any number of restores (`Durable`).
`NoFalseSuccess` and `ShownIsServed` are proved up to the first restore and are false after
it: the store may come to a version the agent runs with other rules. Until then the
invariant has two parts. `Matching`: versions grow from the file to the heartbeat's answer,
to what is fetched and to the store, and whoever has the store's version has its rules, even
though `ConfigForAgent` reads the version first and the rules afterwards. `OutOfStep`: an
agent whose rules are not those of its configuration says so, and is behind the store, so
that no answer makes it think that it is up to date. From the same invariant follows that the
agent's file is ahead of the store only after a restore (`FileFollowsStore`). The last part
of the module is about `Apply` as one step: what an agent runs is always a map that
`prepareRules` accepts, with no listener in the hands of another process
(`RunsWhatApplyAccepts`), and it changes only by a successful call of `Apply`, in the three
places that make one, or by the death of the process (`RulesChangeAsAWhole`). With
`Transactional` of `ForwardManagerProofs` this is what entitles `ConfigSync` to one step.

`TcpForwarderProofs` proves `TypeOK`, `ActiveExact` and `SocketsReachable` for any number of
connections and changes of the configuration. The invariant adds where everybody can be
(`Places`: connections get handlers in the order of their acceptance, the one in the accept
loop's hands has none, the listener is closed before `close` looks at the connections) and
that a socket is tracked only between the two calls of its handler (`TrackedByHandler`). With
one more part, that only a handler at its copy has an entry in `sessions` or copies (`Ended`), it
gives that a `close` that has returned leaves nothing (`ClosedLeavesNothing`).

`UdpForwarderProofs` proves `SessionsAccounted`, `AtMostOneBehind` and that a `close` that has
returned leaves nothing (`ClosedLeavesNothing`, the safe half of `CloseReturns`), for any
finite set of clients and any number of sessions and configurations. The invariant says what
the read loop holds at each place (`HandsOK`), that a session is closed by the one goroutine
that `sync.Once` lets through (`OnceOK`), and for `AtMostOneBehind` that of the sessions
`closeSessions` has not before it only one has another target, and none while the read
loop is still on its way to add one (`LateOK`).

The last part of `TcpForwarderProofs` proves `ImplementsRateLimit` of the limiter that the copies
wait for, for any callers, rates and byte counts and any bounds of the burst (`KeepsTheLimit`,
with what `BandwidthLimiter` assumes of its constants as hypothesis `Proper`). `RateLimit` earns with every unit of time and spills what is
more than the burst; the limiter credits all of it when somebody looks. The two agree because the
bucket never holds more than the burst, and because the time since the last refill may stop
growing at `MaxBurst`, where every rate but 0 has filled the bucket. `NoWakeUpIsLost` is the safe
half of `CloseReleases`: a caller that sleeps when the limiter is closed or the limit lifted has
been notified, and the queue is held by nobody who has left.

`LogPipelineProofs` proves that `LogPipeline` implements `LogDelivery`, for any sizes of the
buffer and of a batch and any number of entries and faults. The awaited heartbeat has to be
known to carry the batch that `synchronize` has taken (`AwaitedIsBatch`), and one that was answered
with success to have stored it (`AnsweredIsStored`); only then is removing the batch
from the buffer harmless. That no entry has two rows is `NeverTwice`. `AnswersHaveReasons` is
the safe half of `RefusalPasses`: an error is always about an entry of the batch just sent, and
what is refused has no row.

`TelemetryProofs` proves all the properties of run `telemetry`, for every finite set of nodes
and rules and every number of heartbeats, lost, late and overtaken ones included. For
`StatsAgree` the invariant has to say which node a row belongs to: a rule that was not moved has a
row of its ingress or none, so the heartbeats that zero the row are those the in-memory store
goes by.

The histories compare sums over the samples of a node, and sums over finite sets are what the
library computes by recursion over them. The facts about sums (`SumTakesSome`, `SumTakes`,
`SumAtMost`, `SumEqual`, `SumRenamed`) are therefore proved first, each for a given function
on a given set, from one lemma: among the subsets of a finite set that lack a property there is a
least one, because strict inclusion is well-founded on them. `HistoriesAlwaysAgree` needs, next
to these, that the ordered list of a window's minutes has all of them once and in order
(`InOrderSorts`); then the differences of neighbours in memory are the differences `LAG` gives in
PostgreSQL, and it follows from `TypeOK` alone.

`HistoryCountsOnce` needs an account of what is still to come (`Accounted`): what the history of
a node shows now, with all it will gain when the heartbeats under way are served and the counters are
reported at last, stays within what is due. Without those, a byte that is counted but not
reported could be shown in one minute and again in the next. A heartbeat may be served in any
order, or lost, so the account gives each heartbeat that was not overtaken an amount of its own
(`Fits`), from which the next can start: losing one is then harmless because what two
steps of a counter show is no less than what one shows, and overtaking one costs what a reset
costs, which is what `recounts` counts. Deleting old samples shows less at most
(`ExpiryShowsLess`).

The bounds that TLC needs (`MaxUpdates` and the like) are constants here too, so the theorems
hold for every value of them. The inductive invariants were checked by TLC, on the constants of
the runs, before they were proved.

Every safety property of the runs is stated by a theorem. Only model-checked are the liveness
properties: `Converges`, `FailureIsShown`, `CloseReturns` of both forwarders, `CloseReleases`,
`WaitEnds` and `RefusalPasses`. The proof system has no rule for fairness and `ENABLED`; what
they say of the state that is reached is proved where it is more than a guard
(`ClosedLeavesNothing` of both forwarders, `NoWakeUpIsLost`, `AnswersHaveReasons`).

Induction is used in the form of a least counterexample, because the library's induction
theorems take the property as a parameter, which the backends cannot instantiate.

## Disagreements found

* **A reused address blocks an agent** (run `delete_and_reuse`). `Apply` opens every new
  listener before it closes an old one and knows listeners by rule id
  (`tcp.go:134`). If a rule is deleted and its address given to a new rule before
  the agent has fetched the deletion, `Apply` fails on the address each time, and the
  deleted rule goes on listening; a restart loads the old file and changes nothing.
  `README.md:85` says that a deletion makes the node stop listening. A change of the
  new rule's address or a version fetched in between ends it.
* **Relay listeners are not compared with direct ones** (run `egress_listener_conflict`).
  `ensureListenerAvailable` (`postgres.go:746`) looks at rules of the same ingress, and
  the index of migration 0007 at relay ports. A direct rule on the tunnel address and relay port of
  its node is stored; the agent of that node rejects its whole configuration.
  `README.md:145` promises a 409.

Some more observations are no findings, because nothing in the repository speaks of them.

* A heartbeat writes the node's tunnel address (`postgres.go:402`), which `cmd/agent/main.go:92` lets
  an operator change, and raises no version (`ServesSources`): an ingress agent that has read its
  configuration is told that nothing has changed, and dials the old address until some rule of its
  node changes. An egress agent whose file holds the enabled rule refuses another address
  (`config.go:51`), so this takes a change between the storing of the rule and the egress
  agent's fetching it. `README.md:133` says that the ingress connects through the egress node's address, and
  not what happens when it changes.
* A UDP session may be added to the old target after `update` has returned (`udp.go:104`);
  `AtMostOneBehind` is the strongest bound that holds.
* When the answer to an enrollment is lost (`agent/enroll.go:52`), the token is used and the
  node exists: the agent's next attempt is refused as it should be, but no agent has
  that node's credential and its name stays taken.
* The row of a rule that moves from one node to another keeps the first node's id
  (`postgres.go:478`). That node's heartbeats go on setting the rule's connections to zero, and those of
  the new ingress do not when they omit the rule; the in-memory store (`memory.go:345`) does it the other
  way round.
* The traffic trend handles the fall of a counter as a restart (`README.md:168`). A rule that is
  stopped or deleted takes its bytes out of the node's sum, and what the other rules have counted
  is then counted once more; a heartbeat that is overtaken does the same. `HistoryCounts` says
  that nothing else does, and how much it can be.
* A heartbeat that inserts a rule's first statistics refers to the rule's row while it holds its
  node's (`postgres.go:477`); an update of that rule takes them in the other order. PostgreSQL then
  aborts one of the two.
* After a restore to exactly the version an agent has, an agent that failed to write its file and to
  go back to its old rules is shown without an error, because the version is the same
  (`runtime.go:103`).

## Not modelled, and why

* Two-factor codes, passwords, cookies, web interface, installer, release scripts:
  cryptography, presentation and I/O.
* Host metrics, percentages and the list of connections in a heartbeat: each is written as it comes, or
  read from the system.
* Users, sessions and tokens of the in-memory store: `Membership` models them as PostgreSQL keeps them.
* A restore that brings a version number back with other rules: agent and store agree on
  the number and no code can tell. `ShownIsServed` is therefore checked without restores, and
  `Converges` excepts such a store (`Behind`).
* Tunnel addresses that change under a running agent: `ConfigSync` has one node and takes the relay hosts
  it is sent as part of a version's rules.
* An agent that is started while another process has a port of its rules exits before its first
  heartbeat (`runtime.go:34`). `Start` is only taken when the rules can be applied, so `Converges`
  and `FailureIsShown` say nothing of such an agent.
* An address handed from rule to rule takes four versions, which with a restored backup is more than TLC
  can do for the liveness properties; `config_sync` has it, and `delete_and_reuse` is about it.
* Bytes, half-closed streams and buffers: the forwarders' properties do not depend on
  what is copied. In `Telemetry` a byte is forwarded when a forwarder counts it, which for TCP is
  when a copy has ended (`tcp.go:617`).
* Retention of logs by age.

## Plan

1. Done: the engine (`PrepareRules`, `ForwardManager`, `TcpForwarder`, `UdpForwarder`,
   `BandwidthLimiter`), both stores' rules (`RuleStore`, `MemoryStore`), the synchronisation
   (`ConfigSync`), the log pipeline, counters and history (`Telemetry`), members and enrollment
   (`Membership`); the proofs of all their safety properties and of the refinements.
2. Next, models: connection snapshots, sessions and their expiry; users, sessions and
   tokens of the in-memory store, to be compared with `Membership`.
