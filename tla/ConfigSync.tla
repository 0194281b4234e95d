------------------------------- MODULE ConfigSync -------------------------------
(***************************************************************************)
(* How a node comes to run the rules the control plane has for it: the     *)
(* agent's Run and synchronize (internal/agent/runtime.go) with its        *)
(* configuration file (internal/agent/config.go), and the control plane's  *)
(* agentHeartbeat and agentConfig (internal/control/server.go) over the    *)
(* store (UpdateAgentHeartbeat and ConfigForAgent).                        *)
(*                                                                         *)
(* The rules of a version are what the node's forwarding manager makes of  *)
(* them: a map as Desired of PrepareRules gives it.  Apply is one step, as *)
(* RuleTransaction describes it: it replaces the map or changes nothing.   *)
(* HTTP requests may be lost, and the agent may give up on one that the    *)
(* control plane still answers later; the agent may die at any point; the  *)
(* file may fail to be written; other processes hold ports of the host;    *)
(* the database may be put back to a backup.                               *)
(***************************************************************************)
EXTENDS FiniteSets, PrepareRules

CONSTANTS
  Configs,       \* the rule maps administrators configure for the node
  Contested,     \* networks and addresses that other processes of the host may hold
  MaxVersion,    \* bound on the versions, for model checking
  MaxRestores,   \* bound on the number of times the database is restored
  MaxAbandoned   \* bound on the requests the agent gave up on that are under way

ASSUME ConfigsAssumption == Configs \subseteq RuleMaps /\ NoRules \in Configs
ASSUME BoundsAssumption == MaxVersion \in Nat /\ MaxRestores \in Nat /\ MaxAbandoned \in Nat
ASSUME ContestedAssumption == Contested \subseteq Nets \X Addrs

VARIABLES
  version, rules,     \* the store: config_version of the node and what it is sent
  shown,              \* the store: what the node's last heartbeat said
  backup,             \* a copy of the store, None when there is none
  restores,           \* how often the store was restored
  requests,           \* heartbeats under way
  reply,              \* configVersion in the response to the agent's heartbeat
  fetch,              \* the configuration being fetched, then the candidate
  held,               \* listeners of other processes
  disk,               \* the agent's configuration file
  current,            \* Run's config
  running,            \* the rules the forwarding manager runs
  attempted,          \* runtime.attemptedConfigVersion
  failed,             \* runtime.lastConfigError is not empty
  phase               \* where synchronize is

storeVars == <<version, rules, shown, backup, restores>>
agentVars == <<disk, current, running, attempted, failed, phase>>
vars == <<version, rules, shown, backup, restores, requests, reply, fetch, held,
          disk, current, running, attempted, failed, phase>>

Config == [version : Nat, rules : RuleMaps]
Shown == [applied : Nat, attempted : Nat, failed : BOOLEAN]
Heartbeat == [applied : Nat, attempted : Nat, failed : BOOLEAN, awaited : BOOLEAN]
NoFetch == [version |-> None, rules |-> None]

\* The heartbeat the agent waits for, if it still is under way.
Awaited == {request \in requests : request.awaited}

TypeOK ==
  /\ version \in Nat /\ rules \in RuleMaps
  /\ shown \in Shown
  /\ backup \in [version : Nat, rules : RuleMaps, shown : Shown] \cup {None}
  /\ restores \in 0 .. MaxRestores
  /\ requests \subseteq Heartbeat /\ Cardinality(Awaited) <= 1
  /\ reply \in Nat \cup {None}
  /\ fetch \in [version : Nat \cup {None}, rules : RuleMaps \cup {None}]
  /\ held \subseteq Contested
  /\ disk \in Config /\ current \in Config
  /\ running \in RuleMaps
  /\ attempted \in Nat /\ failed \in BOOLEAN
  /\ phase \in {"down", "idle", "sent", "fetching", "applied"}
  /\ Awaited # {} => phase = "sent" /\ reply = None
  /\ fetch # NoFetch => phase \in {"fetching", "applied"}

First == [version |-> 1, rules |-> NoRules]

\* A node that has just enrolled: its file is written, its agent not started.
Init ==
  /\ version = 1 /\ rules = NoRules
  /\ shown = [applied |-> 1, attempted |-> 1, failed |-> FALSE]
  /\ backup = None /\ restores = 0
  /\ requests = {} /\ reply = None /\ fetch = NoFetch
  /\ held = {}
  /\ disk = First /\ current = First
  /\ running = NoRules
  /\ attempted = 0 /\ failed = FALSE
  /\ phase = "down"

--------------------------------------------------------------------------------
\* An administrator creates, changes or deletes a rule: a step of ConfigSource.
Change(map) ==
  /\ version < MaxVersion
  /\ \E id \in RuleIds : \A other \in RuleIds \ {id} : map[other] = rules[other]
  /\ version' = version + 1
  /\ rules' = map
  /\ UNCHANGED <<shown, backup, restores, requests, reply, fetch, held>> /\ UNCHANGED agentVars

\* pg_dump, and pg_restore of what it wrote; a restore stands for the last one
\* from its dump.
Backup ==
  /\ restores < MaxRestores /\ backup = None
  /\ backup' = [version |-> version, rules |-> rules, shown |-> shown]
  /\ UNCHANGED <<version, rules, shown, restores, requests, reply, fetch, held>>
  /\ UNCHANGED agentVars

Restore ==
  /\ restores < MaxRestores /\ backup # None
  /\ version' = backup.version /\ rules' = backup.rules /\ shown' = backup.shown
  /\ backup' = None
  /\ restores' = restores + 1
  /\ UNCHANGED <<requests, reply, fetch, held>> /\ UNCHANGED agentVars

Listens(map, id, net, addr) ==
  map[id] # None /\ net \in map[id].nets /\ map[id].listen = addr

\* Apply succeeds: prepareRules accepts the map, and each listener of a rule
\* that does not already have it can be opened while all the old ones are.
CanApply(map) ==
  /\ Disjoint(map)
  /\ \A id \in RuleIds : map[id] # None =>
       \A net \in map[id].nets :
         \/ Listens(running, id, net, map[id].listen)
         \/ /\ <<net, map[id].listen>> \notin held
            /\ \A other \in RuleIds : ~Listens(running, other, net, map[id].listen)

\* Load of the file and the first Apply; when it fails the process exits and
\* its supervisor starts it again.
Start ==
  /\ phase = "down"
  /\ CanApply(disk.rules)
  /\ current' = disk
  /\ running' = disk.rules
  /\ attempted' = 0 /\ failed' = FALSE
  /\ phase' = "idle"
  /\ UNCHANGED storeVars /\ UNCHANGED <<requests, reply, fetch, held, disk>>

\* The agent stops waiting for its heartbeat; the control plane may not notice.
Abandoned ==
  {[applied |-> request.applied, attempted |-> request.attempted, failed |-> request.failed,
    awaited |-> FALSE] : request \in requests}

\* The process dies: its sockets are gone, the file stays.
Crash ==
  /\ phase # "down"
  /\ Cardinality(Abandoned) <= MaxAbandoned
  /\ requests' = Abandoned
  /\ reply' = None /\ fetch' = NoFetch
  /\ running' = NoRules
  /\ phase' = "down"
  /\ UNCHANGED storeVars /\ UNCHANGED <<held, disk, current, attempted, failed>>

ReportAttempted ==
  LET attempt == IF attempted = 0 THEN current.version ELSE attempted IN
    [applied |-> attempt, attempted |-> attempt, failed |-> failed, awaited |-> TRUE]

Report ==
  [applied |-> current.version,
   attempted |-> IF attempted = 0 THEN current.version ELSE attempted,
   failed |-> failed, awaited |-> TRUE]

SendHeartbeat ==
  /\ phase = "idle"
  /\ requests' = requests \cup {Report}
  /\ phase' = "sent"
  /\ UNCHANGED storeVars
  /\ UNCHANGED <<reply, fetch, held, disk, current, running, attempted, failed>>

AtMost(n, m) == IF n <= m THEN n ELSE m

\* agentHeartbeat: the node's row is updated and the answer is on its way.
ServeHeartbeat(request) ==
  /\ request \in requests
  /\ shown' = [applied |-> AtMost(request.applied, version),
               attempted |-> AtMost(request.attempted, version), failed |-> request.failed]
  /\ requests' = requests \ {request}
  /\ reply' = IF request.awaited THEN version ELSE reply
  /\ UNCHANGED <<version, rules, backup, restores, fetch, held>> /\ UNCHANGED agentVars

LoseHeartbeat(request) ==
  /\ request \in requests
  /\ requests' = requests \ {request}
  /\ UNCHANGED storeVars /\ UNCHANGED <<reply, fetch, held>> /\ UNCHANGED agentVars

GiveUpStillWaiting ==
  /\ phase = "sent"
  /\ reply' = None
  /\ phase' = "idle"
  /\ UNCHANGED storeVars
  /\ UNCHANGED <<requests, fetch, held, disk, current, running, attempted, failed>>

\* SendHeartbeat returns an error: a time-out, a lost request or a lost answer.
GiveUpHeartbeat ==
  /\ phase = "sent"
  /\ Cardinality(Abandoned) <= MaxAbandoned
  /\ requests' = Abandoned
  /\ reply' = None
  /\ phase' = "idle"
  /\ UNCHANGED storeVars /\ UNCHANGED <<fetch, held, disk, current, running, attempted, failed>>

\* synchronize returns: with an error recorded for a version, or without one.
Return(attempt, failure) ==
  /\ attempted' = attempt /\ failed' = failure
  /\ phase' = "idle"
  /\ reply' = None /\ fetch' = NoFetch

ReceiveReplyOncePerVersion ==
  /\ phase = "sent" /\ reply # None
  /\ IF reply \in {current.version, attempted}
       THEN Return(attempted, failed)
       ELSE phase' = "fetching" /\ UNCHANGED <<attempted, failed, reply, fetch>>
  /\ UNCHANGED storeVars /\ UNCHANGED <<requests, held, disk, current, running>>

\* The answer says whether there is another version than the agent's.
ReceiveReply ==
  /\ phase = "sent" /\ reply # None
  /\ IF reply = current.version
       THEN Return(current.version, FALSE)
       ELSE phase' = "fetching" /\ UNCHANGED <<attempted, failed, reply, fetch>>
  /\ UNCHANGED storeVars /\ UNCHANGED <<requests, held, disk, current, running>>

NextReadRulesFirst == IF fetch.rules = None THEN "rules" ELSE "version"

\* ConfigForAgent reads the version first.
NextRead == IF fetch.version = None THEN "version" ELSE "rules"

Read(part) ==
  /\ phase = "fetching"
  /\ fetch.version = None \/ fetch.rules = None
  /\ part = NextRead
  /\ fetch' = IF part = "version" THEN [version |-> version, rules |-> fetch.rules]
                                  ELSE [version |-> fetch.version, rules |-> rules]
  /\ UNCHANGED storeVars /\ UNCHANGED <<requests, reply, held>> /\ UNCHANGED agentVars

\* FetchConfig returns an error.
FetchFails ==
  /\ phase = "fetching"
  /\ Return(reply, TRUE)
  /\ UNCHANGED storeVars /\ UNCHANGED <<requests, held, disk, current, running>>

Fetched == phase = "fetching" /\ fetch.version # None /\ fetch.rules # None

Newer == fetch.version > current.version

\* The fetched configuration is older than the agent's, or the same version.
RefuseOld ==
  /\ Fetched
  /\ ~Newer
  /\ Return(fetch.version, fetch.version < current.version)
  /\ UNCHANGED storeVars /\ UNCHANGED <<requests, held, disk, current, running>>

ApplyFailsUnrecorded ==
  /\ Fetched
  /\ Newer
  /\ ~CanApply(fetch.rules)
  /\ Return(attempted, failed)
  /\ UNCHANGED storeVars /\ UNCHANGED <<requests, held, disk, current, running>>

\* Validate or Apply fails.
ApplyFails ==
  /\ Fetched
  /\ Newer
  /\ ~CanApply(fetch.rules)
  /\ Return(fetch.version, TRUE)
  /\ UNCHANGED storeVars /\ UNCHANGED <<requests, held, disk, current, running>>

ApplyNew ==
  /\ Fetched
  /\ Newer
  /\ CanApply(fetch.rules)
  /\ running' = fetch.rules
  /\ phase' = "applied"
  /\ UNCHANGED storeVars
  /\ UNCHANGED <<requests, reply, fetch, held, disk, current, attempted, failed>>

\* The new file replaces the old one: the rename is what commits it.
Save ==
  /\ phase = "applied"
  /\ disk' = fetch /\ current' = fetch
  /\ Return(fetch.version, FALSE)
  /\ UNCHANGED storeVars /\ UNCHANGED <<requests, held, running>>

SaveFailsAdvancing ==
  /\ phase = "applied"
  /\ current' = fetch
  /\ Return(fetch.version, TRUE)
  /\ UNCHANGED storeVars /\ UNCHANGED <<requests, held, disk, running>>

SaveFailsUnrecorded ==
  /\ phase = "applied"
  /\ running' = IF CanApply(current.rules) THEN current.rules ELSE running
  /\ Return(fetch.version, CanApply(current.rules))
  /\ UNCHANGED storeVars /\ UNCHANGED <<requests, held, disk, current>>

\* The file could not be written: the old rules are applied again, if they can be.
SaveFails ==
  /\ phase = "applied"
  /\ running' = IF CanApply(current.rules) THEN current.rules ELSE running
  /\ Return(fetch.version, TRUE)
  /\ UNCHANGED storeVars /\ UNCHANGED <<requests, held, disk, current>>

\* Another process of the host opens a listener, or closes one.
Grab(listener) ==
  /\ listener \notin held
  /\ \A id \in RuleIds : ~Listens(running, id, listener[1], listener[2])
  /\ held' = held \cup {listener}
  /\ UNCHANGED storeVars /\ UNCHANGED <<requests, reply, fetch>> /\ UNCHANGED agentVars

Release(listener) ==
  /\ listener \in held
  /\ held' = held \ {listener}
  /\ UNCHANGED storeVars /\ UNCHANGED <<requests, reply, fetch>> /\ UNCHANGED agentVars

Next ==
  \/ \E map \in Configs : Change(map)
  \/ Backup \/ Restore
  \/ Start \/ Crash
  \/ SendHeartbeat \/ GiveUpHeartbeat \/ ReceiveReply
  \/ \E request \in requests : ServeHeartbeat(request) \/ LoseHeartbeat(request)
  \/ \E part \in {"version", "rules"} : Read(part)
  \/ FetchFails \/ RefuseOld \/ ApplyFails \/ ApplyNew \/ Save \/ SaveFails
  \/ \E listener \in Contested : Grab(listener) \/ Release(listener)

Spec == Init /\ [][Next]_vars

--------------------------------------------------------------------------------
\* The agent runs the rules of the configuration it says it has applied, unless
\* it also reports an error: the one way out of step is a file that could not
\* be written and old rules that could not be applied again, and then the error
\* stays until a newer configuration is in place.
NoFalseSuccess ==
  phase \in {"idle", "sent", "fetching"} /\ ~failed => running = current.rules

\* What the control plane shows is true: when it shows a node's current version
\* as applied without an error, the agent runs exactly the rules of the store,
\* although heartbeats arrive late, out of order or after the agent gave up on
\* them and the version and the rules of an answer are read at two moments.
ShownIsServed ==
  shown.applied = version /\ ~shown.failed /\ phase # "down" => running = rules

\* A version that anyone has been told is applied survives the death of the
\* agent: the file is never older than a heartbeat, sent or recorded.
AppliedIsDurable ==
  /\ shown.applied <= disk.version
  /\ \A request \in requests : request.applied <= disk.version
  /\ phase # "down" => current.version <= disk.version

--------------------------------------------------------------------------------
\* The agent's loop goes on, a supervisor restarts it, requests are answered
\* or time out, an answer that can come again and again comes in the end, and
\* so does a write of the file.
Fairness ==
  /\ WF_vars(Start) /\ WF_vars(SendHeartbeat) /\ WF_vars(GiveUpHeartbeat)
  /\ SF_vars(\E request \in Awaited : ServeHeartbeat(request))
  /\ WF_vars(\E request \in requests \ Awaited : ServeHeartbeat(request) \/ LoseHeartbeat(request))
  /\ SF_vars(ReceiveReply)
  /\ SF_vars(Read("version")) /\ SF_vars(Read("rules"))
  /\ SF_vars(RefuseOld \/ ApplyFails \/ ApplyNew)
  /\ SF_vars(Save)

FairSpec == Spec /\ Fairness

\* A listener the stored rules need is taken, by another process or by a rule
\* of the agent's that is to give it up only when the new one has it.
Obstructed == rules # running /\ ~CanApply(rules)

InSync ==
  /\ running = rules
  /\ disk = [version |-> version, rules |-> rules] /\ current = disk
  /\ shown = [applied |-> version, attempted |-> version, failed |-> FALSE]

\* The store was put back to a backup: the agent's version is ahead, or it is the
\* same again and the agent does not ask, although it has other rules.
Behind ==
  /\ restores > 0
  /\ \/ version < current.version
     \/ version = current.version /\ (rules # current.rules \/ rules # running)

\* Whatever was lost, refused or interrupted before, an agent that stays up and
\* whose listeners can be opened ends up with the rules of the store, in memory
\* and on disk, and is shown to have them, unless the store is behind.
Converges == <>[](phase # "down" /\ ~Obstructed /\ ~Behind) => <>[]InSync

\* An agent that cannot apply the store's configuration is shown, in the end and
\* for good, as failing at exactly that version: no late heartbeat and no answer
\* it gave up on hides it.  So is an agent that refuses an older configuration.
FailureIsShown ==
  <>[](phase # "down" /\ version # current.version /\ (Obstructed \/ Behind)) =>
    <>[](shown.failed /\ shown.attempted = version)

\* DELETE removes a rule and makes the node stop listening (README.md:85).
DeletedRuleStops ==
  \A id \in RuleIds :
    <>[](phase # "down" /\ held = {} /\ rules[id] = None) => <>[](running[id] = None)
================================================================================
