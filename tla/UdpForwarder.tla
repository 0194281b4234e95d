------------------------------ MODULE UdpForwarder -------------------------------
(***************************************************************************)
(* A UDP forwarder, internal/forward/udp.go: the read loop that finds or   *)
(* makes a session for each datagram, the response loop of every session   *)
(* and the manager, which calls update and close one after the other.      *)
(*                                                                         *)
(* A step is what a goroutine does between two points at which others can  *)
(* get in its way: the atomic load or store of the configuration, a dial,  *)
(* a stretch under sessionsMu, one half of the session.close that sync.Once *)
(* lets one goroutine run while others wait for it.  Datagrams have no     *)
(* content; a wait for the limiter is part of the write it precedes, and   *)
(* may only fail once the forwarder is closed (LimiterOpen).               *)
(***************************************************************************)
EXTENDS Naturals, FiniteSets

CONSTANTS
  Clients,      \* addresses that datagrams come from
  Configs,      \* the configurations the forwarder is given: target, limit, denied clients
  MaxSessions,  \* bound on the sessions made, for model checking
  MaxUpdates,   \* bound on calls of update, for model checking
  None          \* no session, no client, no configuration

ASSUME NoneAssumption == None \notin Clients \cup Configs \cup Nat

ASSUME ClientsAssumption == IsFiniteSet(Clients)

\* No limit is 0.
ASSUME ConfigsAssumption == \A c \in Configs : c.max \in Nat

ASSUME BoundsAssumption == MaxSessions \in Nat /\ MaxUpdates \in Nat

Ids == 1 .. MaxSessions

VARIABLES
  config,    \* forwarder.config
  closed,    \* the channel forwarder.closed is closed
  socket,    \* the packet socket is open
  sessions,  \* forwarder.sessions, by client: the id of a session
  active,    \* forwarder.active
  client,    \* of each session
  target,    \* of each session
  open,      \* sessions whose target socket is open
  once,      \* closeOnce of each session: "no", who runs it, "done"
  loop,      \* response loop of each session: "none", "run", "close", "ended"
  reader,    \* the read loop: its place and what it holds
  manager,   \* the goroutine in update or close: its place
  todo,      \* the sessions that closeSessions has yet to close
  updates    \* calls of update so far

vars == <<config, closed, socket, sessions, active, client, target, open, once, loop,
          reader, manager, todo, updates>>

Targets == {c.target : c \in Configs}

Reader == [pc : {"read", "find", "dial", "insert", "write", "close", "ended"},
           client : Clients \cup {None}, config : Configs \cup {None}, session : Ids \cup {None}]

TypeOK ==
  /\ config \in Configs
  /\ closed \in BOOLEAN /\ socket \in BOOLEAN
  /\ sessions \in [Clients -> Ids \cup {None}]
  /\ active \in 0 .. Cardinality(Clients)
  /\ client \in [Ids -> Clients \cup {None}]
  /\ target \in [Ids -> Targets \cup {None}]
  /\ open \subseteq Ids
  /\ once \in [Ids -> {"no", "reader", "loop", "manager", "done"}]
  /\ loop \in [Ids -> {"none", "run", "close", "ended"}]
  /\ reader \in Reader
  /\ manager \in {"idle", "socket", "snapshot", "close", "wait", "done"}
  /\ todo \subseteq Ids
  /\ updates \in 0 .. MaxUpdates

\* The read loop with and without a datagram in its hands.
At(pc, session) ==
  [pc |-> pc, client |-> reader.client, config |-> reader.config, session |-> session]

Without(pc) == [pc |-> pc, client |-> None, config |-> None, session |-> None]

Idle == Without("read")

Init ==
  /\ config \in Configs
  /\ closed = FALSE /\ socket = TRUE
  /\ sessions = [c \in Clients |-> None] /\ active = 0
  /\ client = [s \in Ids |-> None] /\ target = [s \in Ids |-> None]
  /\ open = {} /\ once = [s \in Ids |-> "no"] /\ loop = [s \in Ids |-> "none"]
  /\ reader = Idle
  /\ manager = "idle" /\ todo = {} /\ updates = 0

Made == {s \in Ids : client[s] # None}
InMap == {s \in Made : sessions[client[s]] = s}

--------------------------------------------------------------------------------
\* session.close, which any goroutine may call.  sync.Once lets the first one
\* through; it closes the target socket, then takes sessionsMu.
BeginSessionClose(s, who) ==
  /\ once[s] = "no"
  /\ once' = [once EXCEPT ![s] = who]
  /\ open' = open \ {s}
  /\ UNCHANGED <<sessions, active>>

EndSessionClose(s, who) ==
  /\ once[s] = who
  /\ once' = [once EXCEPT ![s] = "done"]
  /\ IF s \in InMap THEN sessions' = [sessions EXCEPT ![client[s]] = None] /\ active' = active - 1
                    ELSE UNCHANGED <<sessions, active>>
  /\ UNCHANGED open

SessionClose(s, who) == BeginSessionClose(s, who) \/ EndSessionClose(s, who)

--------------------------------------------------------------------------------
\* The read loop has a datagram and loads the configuration.
Receive(c) ==
  /\ reader.pc = "read"
  /\ socket
  /\ c \notin config.denied
  /\ reader' = [pc |-> "find", client |-> c, config |-> config, session |-> None]
  /\ UNCHANGED <<config, closed, socket, sessions, active, client, target, open, once, loop,
                 manager, todo, updates>>

\* ReadFrom fails on the closed socket.
ReaderEnds ==
  /\ reader.pc = "read"
  /\ ~socket /\ closed
  /\ reader' = Without("ended")
  /\ UNCHANGED <<config, closed, socket, sessions, active, client, target, open, once, loop,
                 manager, todo, updates>>

Full == reader.config.max > 0 /\ Cardinality(InMap) >= reader.config.max

\* sessionFor, first stretch under sessionsMu.
Find ==
  /\ reader.pc = "find"
  /\ reader' =
       IF sessions[reader.client] # None
         THEN At("write", sessions[reader.client])
       ELSE IF Full THEN Idle
       ELSE At("dial", None)
  /\ UNCHANGED <<config, closed, socket, sessions, active, client, target, open, once, loop,
                 manager, todo, updates>>

\* The dial fails or gives a socket, the session of a number not used before.
DialFails ==
  /\ reader.pc = "dial"
  /\ reader' = Idle
  /\ UNCHANGED <<config, closed, socket, sessions, active, client, target, open, once, loop,
                 manager, todo, updates>>

Dial(s) ==
  /\ reader.pc = "dial"
  /\ s = Cardinality(Made) + 1
  /\ client' = [client EXCEPT ![s] = reader.client]
  /\ target' = [target EXCEPT ![s] = reader.config.target]
  /\ open' = open \cup {s}
  /\ reader' = At("insert", s)
  /\ UNCHANGED <<config, closed, socket, sessions, active, once, loop, manager, todo, updates>>

Add(s) ==
  /\ sessions' = [sessions EXCEPT ![reader.client] = s]
  /\ active' = active + 1
  /\ loop' = [loop EXCEPT ![s] = "run"]
  /\ reader' = At("write", s)
  /\ UNCHANGED <<open, once>>

InsertUnchecked ==
  /\ reader.pc = "insert"
  /\ Add(reader.session)
  /\ UNCHANGED <<config, closed, socket, client, target, manager, todo, updates>>

\* sessionFor, second stretch under sessionsMu: not for a closed forwarder, and
\* not beside another session of the client.
Insert ==
  /\ reader.pc = "insert"
  /\ LET s == reader.session
         existing == sessions[reader.client]
     IN \/ /\ ~closed /\ existing = None
           /\ Add(s)
        \/ /\ closed \/ existing # None
           /\ open' = open \ {s}
           /\ once' = [once EXCEPT ![s] = "done"]
           /\ loop' = [loop EXCEPT ![s] = "ended"]
           /\ reader' = IF closed THEN Idle
                                  ELSE At("write", existing)
           /\ UNCHANGED <<sessions, active>>
  /\ UNCHANGED <<config, closed, socket, client, target, manager, todo, updates>>

\* The datagram is written; a failure closes the session.  The limiter gives up
\* once the forwarder is closed, and the read loop with it.
Write ==
  /\ reader.pc = "write"
  /\ \/ reader.session \in open /\ reader' = Idle
     \/ reader' = At("close", reader.session)
     \/ closed /\ reader' = Without("ended")
  /\ UNCHANGED <<config, closed, socket, sessions, active, client, target, open, once, loop,
                 manager, todo, updates>>

ReaderCloses ==
  /\ reader.pc = "close"
  /\ \/ SessionClose(reader.session, "reader") /\ UNCHANGED reader
     \/ /\ once[reader.session] = "done"
        /\ reader' = Idle
        /\ UNCHANGED <<sessions, active, open, once>>
  /\ UNCHANGED <<config, closed, socket, client, target, loop, manager, todo, updates>>

--------------------------------------------------------------------------------
LoopStopsAtOnce(s) ==
  /\ loop[s] = "run"
  /\ loop' = [loop EXCEPT ![s] = "ended"]
  /\ UNCHANGED <<config, closed, socket, sessions, active, client, target, open, once, reader,
                 manager, todo, updates>>

\* A response loop stops for a failed read or write, or for sixty idle seconds.
LoopStops(s) ==
  /\ loop[s] = "run"
  /\ loop' = [loop EXCEPT ![s] = "close"]
  /\ UNCHANGED <<config, closed, socket, sessions, active, client, target, open, once, reader,
                 manager, todo, updates>>

LoopCloses(s) ==
  /\ loop[s] = "close"
  /\ \/ SessionClose(s, "loop") /\ UNCHANGED loop
     \/ /\ once[s] = "done"
        /\ loop' = [loop EXCEPT ![s] = "ended"]
        /\ UNCHANGED <<sessions, active, open, once>>
  /\ UNCHANGED <<config, closed, socket, client, target, reader, manager, todo, updates>>

--------------------------------------------------------------------------------
UpdateComparingLate(c) ==
  /\ manager = "idle" /\ updates < MaxUpdates
  /\ updates' = updates + 1
  /\ config' = c
  /\ UNCHANGED <<closed, socket, sessions, active, client, target, open, once, loop, reader,
                 manager, todo>>

\* update stores the configuration; a new target closes the sessions.
Update(c) ==
  /\ manager = "idle" /\ updates < MaxUpdates
  /\ updates' = updates + 1
  /\ config' = c
  /\ manager' = IF c.target # config.target THEN "snapshot" ELSE "idle"
  /\ UNCHANGED <<closed, socket, sessions, active, client, target, open, once, loop, reader, todo>>

BeginClose ==
  /\ manager = "idle"
  /\ closed' = TRUE
  /\ manager' = "socket"
  /\ UNCHANGED <<config, socket, sessions, active, client, target, open, once, loop, reader,
                 todo, updates>>

CloseSocket ==
  /\ manager = "socket"
  /\ socket' = FALSE
  /\ manager' = "snapshot"
  /\ UNCHANGED <<config, closed, sessions, active, client, target, open, once, loop, reader,
                 todo, updates>>

\* closeSessions copies the map under sessionsMu and closes the copies after it.
Snapshot ==
  /\ manager = "snapshot"
  /\ todo' = InMap
  /\ manager' = "close"
  /\ UNCHANGED <<config, closed, socket, sessions, active, client, target, open, once, loop,
                 reader, updates>>

ManagerCloses(s) ==
  /\ manager = "close" /\ s \in todo
  /\ \/ SessionClose(s, "manager") /\ UNCHANGED todo
     \/ /\ once[s] = "done"
        /\ todo' = todo \ {s}
        /\ UNCHANGED <<sessions, active, open, once>>
  /\ UNCHANGED <<config, closed, socket, client, target, loop, reader, manager, updates>>

SessionsClosed ==
  /\ manager = "close" /\ todo = {}
  /\ manager' = IF closed THEN "wait" ELSE "idle"
  /\ UNCHANGED <<config, closed, socket, sessions, active, client, target, open, once, loop,
                 reader, todo, updates>>

\* close returns when the read loop and every response loop have ended.
Waited ==
  /\ manager = "wait"
  /\ reader.pc = "ended"
  /\ \A s \in Made : loop[s] = "ended"
  /\ manager' = "done"
  /\ UNCHANGED <<config, closed, socket, sessions, active, client, target, open, once, loop,
                 reader, todo, updates>>

Reads ==
  \/ ReaderEnds \/ Find \/ DialFails \/ Insert \/ Write \/ ReaderCloses
  \/ \E s \in Ids : Dial(s)

Loops(s) == LoopStops(s) \/ LoopCloses(s)

Manages ==
  \/ CloseSocket \/ Snapshot \/ SessionsClosed \/ Waited
  \/ \E s \in Ids : ManagerCloses(s)

Next ==
  \/ \E c \in Clients : Receive(c)
  \/ Reads
  \/ \E s \in Ids : Loops(s)
  \/ \E c \in Configs : Update(c)
  \/ BeginClose
  \/ Manages

Spec == Init /\ [][Next]_vars

--------------------------------------------------------------------------------
\* No session is lost and none is counted that is not there, although a session
\* may be closed by the read loop, its own loop and the manager at once: a target
\* socket that is open can be found in the map, or is still in the read loop's
\* hands, an ended response loop leaves neither socket nor entry, and an entry
\* whose socket is closed is about to go.
SessionsAccounted ==
  /\ TypeOK
  /\ active = Cardinality(InMap)
  /\ \A c \in Clients : sessions[c] # None => client[sessions[c]] = c
  /\ \A s \in Made :
       /\ s \in open => s \in InMap \/ (reader.pc = "insert" /\ reader.session = s)
       /\ loop[s] = "ended" => s \notin open \cup InMap
       /\ s \in InMap \ open => once[s] \in {"reader", "loop", "manager"}

\* A new target reaches every session but the one that the read loop was about
\* to add with the configuration it had loaded before: once update has returned
\* at most one client is still forwarded to another target.
AtMostOneBehind ==
  manager = "idle" => Cardinality({s \in InMap : target[s] # config.target}) <= 1

\* Goroutines run, a read of a closed socket fails and a dial takes ten seconds
\* at most.  Clients and the manager's next call are not owed anything.
Fairness ==
  /\ WF_vars(Reads) /\ WF_vars(Manages)
  /\ \A s \in Ids : WF_vars(LoopCloses(s)) /\ WF_vars(s \notin open /\ LoopStops(s))

FairSpec == Spec /\ Fairness

\* close returns, whatever the read loop is in the middle of, and then nothing of
\* the forwarder is left: no session, no target socket, no goroutine.
CloseReturns ==
  closed ~> /\ manager = "done" /\ reader.pc = "ended"
            /\ open = {} /\ active = 0 /\ \A s \in Made : loop[s] = "ended"
================================================================================
