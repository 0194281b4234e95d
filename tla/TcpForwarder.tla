------------------------------ MODULE TcpForwarder -------------------------------
(***************************************************************************)
(* A TCP forwarder, internal/forward/tcp.go: the accept loop, a handler    *)
(* and two copying goroutines for each connection, and the manager, which  *)
(* replaces the configuration and closes the forwarder.                    *)
(*                                                                         *)
(* A step is one atomic operation on the counter, one stretch under a      *)
(* mutex, one dial, or the end of a goroutine; handlers undo what they did *)
(* in the order of their deferred calls.  What is copied has no content: a *)
(* copy may end at any time, with its peer or for an error, and must when  *)
(* the socket it reads from is closed here.                                *)
(***************************************************************************)
EXTENDS Naturals, FiniteSets

CONSTANTS
  Clients,         \* where connections come from
  Configs,         \* configurations: the limit and the denied clients
  MaxConnections,  \* bound on the connections accepted, for model checking
  MaxUpdates       \* bound on the configurations stored, for model checking

ASSUME BoundsAssumption == MaxConnections \in Nat /\ MaxUpdates \in Nat
ASSUME ConfigsAssumption == \A c \in Configs : c.max \in Nat

Ids == 1 .. MaxConnections
Sides == {"client", "target"}

VARIABLES
  config,     \* forwarder.config
  closed,     \* the channel forwarder.closed is closed
  listening,  \* the listener is open
  acceptor,   \* the accept loop: its place, the limit it has loaded
  accepted,   \* connections accepted so far, the last one is the loop's
  handler,    \* the place of each connection's handler
  copying,    \* the directions each connection is still copied in
  open,       \* sockets of connections that are open here
  tracked,    \* forwarder.connections
  listed,     \* forwarder.sessions
  active,     \* forwarder.active
  manager,    \* the place of the manager's call of close
  updates     \* configurations stored so far

vars == <<config, closed, listening, acceptor, accepted, handler, copying, open, tracked, listed,
          active, manager, updates>>

TypeOK ==
  /\ config \in Configs
  /\ closed \in BOOLEAN /\ listening \in BOOLEAN
  /\ acceptor \in [pc : {"accept", "count", "track", "uncount", "ended"}, max : Nat]
  /\ accepted \in 0 .. MaxConnections
  /\ handler \in [Ids -> {"none", "dial", "track", "list", "copy", "target", "client", "count",
                          "ended"}]
  /\ copying \in [Ids -> SUBSET {"in", "out"}]
  /\ open \subseteq Ids \X Sides
  /\ tracked \subseteq Ids \X Sides
  /\ listed \subseteq Ids
  /\ active \in 0 .. MaxConnections
  /\ manager \in {"idle", "listener", "connections", "wait", "done"}
  /\ updates \in 0 .. MaxUpdates

Init ==
  /\ config \in Configs
  /\ closed = FALSE /\ listening = TRUE
  /\ acceptor = [pc |-> "accept", max |-> 0] /\ accepted = 0
  /\ handler = [k \in Ids |-> "none"] /\ copying = [k \in Ids |-> {}]
  /\ open = {} /\ tracked = {} /\ listed = {} /\ active = 0
  /\ manager = "idle" /\ updates = 0

At(place) == [pc |-> place, max |-> acceptor.max]
Accepting == [pc |-> "accept", max |-> 0]

--------------------------------------------------------------------------------
\* The accept loop has a connection that the access lists permit.
Accept(c) ==
  /\ acceptor.pc = "accept"
  /\ listening
  /\ c \notin config.denied
  /\ accepted < MaxConnections
  /\ accepted' = accepted + 1
  /\ open' = open \cup {<<accepted', "client">>}
  /\ acceptor' = [pc |-> "count", max |-> config.max]
  /\ UNCHANGED <<config, closed, listening, handler, copying, tracked, listed, active, manager,
                 updates>>

\* Accept fails, or the loop is between two tries, and the forwarder is closed.
AcceptEnds ==
  /\ acceptor.pc = "accept"
  /\ closed
  /\ acceptor' = [pc |-> "ended", max |-> 0]
  /\ UNCHANGED <<config, closed, listening, accepted, handler, copying, open, tracked, listed,
                 active, manager, updates>>

\* The counter is raised first and compared with the limit after it.
Over == acceptor.max > 0 /\ active + 1 > acceptor.max

Count ==
  /\ acceptor.pc = "count"
  /\ active' = active + 1
  /\ acceptor' = IF Over THEN At("uncount") ELSE At("track")
  /\ UNCHANGED <<config, closed, listening, accepted, handler, copying, open, tracked, listed,
                 manager, updates>>

UncountForgotten ==
  /\ acceptor.pc = "uncount"
  /\ open' = open \ {<<accepted, "client">>}
  /\ acceptor' = Accepting
  /\ UNCHANGED <<config, closed, listening, accepted, handler, copying, tracked, listed, active,
                 manager, updates>>

\* A connection over the limit, or one accepted as the forwarder is closed.
Uncount ==
  /\ acceptor.pc = "uncount"
  /\ active' = active - 1
  /\ open' = open \ {<<accepted, "client">>}
  /\ acceptor' = Accepting
  /\ UNCHANGED <<config, closed, listening, accepted, handler, copying, tracked, listed, manager,
                 updates>>

TrackUncounting ==
  /\ acceptor.pc = "track"
  /\ IF closed
       THEN /\ open' = open \ {<<accepted, "client">>}
            /\ active' = active - 1
            /\ acceptor' = At("uncount")
            /\ UNCHANGED <<tracked, handler>>
       ELSE /\ tracked' = tracked \cup {<<accepted, "client">>}
            /\ handler' = [handler EXCEPT ![accepted] = "dial"]
            /\ acceptor' = Accepting
            /\ UNCHANGED <<open, active>>
  /\ UNCHANGED <<config, closed, listening, accepted, copying, listed, manager, updates>>

TrackUnchecked ==
  /\ acceptor.pc = "track"
  /\ tracked' = tracked \cup {<<accepted, "client">>}
  /\ handler' = [handler EXCEPT ![accepted] = "dial"]
  /\ acceptor' = Accepting
  /\ UNCHANGED <<config, closed, listening, accepted, copying, open, listed, active, manager,
                 updates>>

\* track of the client's socket, under connectionsMu, and the handler's start.
Track ==
  /\ acceptor.pc = "track"
  /\ IF closed
       THEN /\ open' = open \ {<<accepted, "client">>}
            /\ acceptor' = At("uncount")
            /\ UNCHANGED <<tracked, handler>>
       ELSE /\ tracked' = tracked \cup {<<accepted, "client">>}
            /\ handler' = [handler EXCEPT ![accepted] = "dial"]
            /\ acceptor' = Accepting
            /\ UNCHANGED open
  /\ UNCHANGED <<config, closed, listening, accepted, copying, listed, active, manager, updates>>

--------------------------------------------------------------------------------
\* handle: the dial, which closing the forwarder does not interrupt.
Dial(k) ==
  /\ handler[k] = "dial"
  /\ \/ /\ handler' = [handler EXCEPT ![k] = "client"]
        /\ UNCHANGED open
     \/ /\ handler' = [handler EXCEPT ![k] = "track"]
        /\ open' = open \cup {<<k, "target">>}
  /\ UNCHANGED <<config, closed, listening, acceptor, accepted, copying, tracked, listed, active,
                 manager, updates>>

TrackTargetUnchecked(k) ==
  /\ handler[k] = "track"
  /\ tracked' = tracked \cup {<<k, "target">>}
  /\ handler' = [handler EXCEPT ![k] = "list"]
  /\ UNCHANGED <<config, closed, listening, acceptor, accepted, copying, open, listed, active,
                 manager, updates>>

\* track of the target's socket.
TrackTarget(k) ==
  /\ handler[k] = "track"
  /\ IF closed
       THEN /\ open' = open \ {<<k, "target">>}
            /\ handler' = [handler EXCEPT ![k] = "client"]
            /\ UNCHANGED tracked
       ELSE /\ tracked' = tracked \cup {<<k, "target">>}
            /\ handler' = [handler EXCEPT ![k] = "list"]
            /\ UNCHANGED open
  /\ UNCHANGED <<config, closed, listening, acceptor, accepted, copying, listed, active, manager,
                 updates>>

\* The connection is entered in sessions, for Stats, and copied both ways.
List(k) ==
  /\ handler[k] = "list"
  /\ listed' = listed \cup {k}
  /\ copying' = [copying EXCEPT ![k] = {"in", "out"}]
  /\ handler' = [handler EXCEPT ![k] = "copy"]
  /\ UNCHANGED <<config, closed, listening, acceptor, accepted, open, tracked, active, manager,
                 updates>>

\* The socket a direction is read from.
Source(k, direction) == <<k, IF direction = "in" THEN "client" ELSE "target">>

\* One direction ends: its source is at its end, a read or a write has failed,
\* or the limiter's wait has been cut short.
CopyEnds(k, direction) ==
  /\ direction \in copying[k]
  /\ copying' = [copying EXCEPT ![k] = @ \ {direction}]
  /\ UNCHANGED <<config, closed, listening, acceptor, accepted, handler, open, tracked, listed,
                 active, manager, updates>>

\* Both directions have ended; the deferred calls follow.
Unlist(k) ==
  /\ handler[k] = "copy" /\ copying[k] = {}
  /\ listed' = listed \ {k}
  /\ handler' = [handler EXCEPT ![k] = "target"]
  /\ UNCHANGED <<config, closed, listening, acceptor, accepted, copying, open, tracked, active,
                 manager, updates>>

Drop(k, side, next) ==
  /\ handler[k] = side
  /\ open' = open \ {<<k, side>>}
  /\ tracked' = tracked \ {<<k, side>>}
  /\ handler' = [handler EXCEPT ![k] = next]
  /\ UNCHANGED <<config, closed, listening, acceptor, accepted, copying, listed, active, manager,
                 updates>>

DropTarget(k) == Drop(k, "target", "client")
DropClient(k) == Drop(k, "client", "count")

HandlerEnds(k) ==
  /\ handler[k] = "count"
  /\ active' = active - 1
  /\ handler' = [handler EXCEPT ![k] = "ended"]
  /\ UNCHANGED <<config, closed, listening, acceptor, accepted, copying, open, tracked, listed,
                 manager, updates>>

--------------------------------------------------------------------------------
\* Apply stores a changed rule's configuration.
Update(c) ==
  /\ manager = "idle" /\ updates < MaxUpdates
  /\ config' = c
  /\ updates' = updates + 1
  /\ UNCHANGED <<closed, listening, acceptor, accepted, handler, copying, open, tracked, listed,
                 active, manager>>

BeginClose ==
  /\ manager = "idle"
  /\ closed' = TRUE
  /\ manager' = "listener"
  /\ UNCHANGED <<config, listening, acceptor, accepted, handler, copying, open, tracked, listed,
                 active, updates>>

CloseListener ==
  /\ manager = "listener"
  /\ listening' = FALSE
  /\ manager' = "connections"
  /\ UNCHANGED <<config, closed, acceptor, accepted, handler, copying, open, tracked, listed,
                 active, updates>>

\* Every tracked socket is closed, under connectionsMu.
CloseConnections ==
  /\ manager = "connections"
  /\ open' = open \ tracked
  /\ manager' = "wait"
  /\ UNCHANGED <<config, closed, listening, acceptor, accepted, handler, copying, tracked, listed,
                 active, updates>>

\* close returns when the accept loop and the handlers have ended.
Waited ==
  /\ manager = "wait"
  /\ acceptor.pc = "ended"
  /\ \A k \in Ids : handler[k] \in {"none", "ended"}
  /\ manager' = "done"
  /\ UNCHANGED <<config, closed, listening, acceptor, accepted, handler, copying, open, tracked,
                 listed, active, updates>>

Accepts == AcceptEnds \/ Count \/ Uncount \/ Track

Handles(k) ==
  \/ Dial(k) \/ TrackTarget(k) \/ List(k)
  \/ Unlist(k) \/ DropTarget(k) \/ DropClient(k) \/ HandlerEnds(k)

Closes == CloseListener \/ CloseConnections \/ Waited

Next ==
  \/ \E c \in Clients : Accept(c)
  \/ Accepts
  \/ \E k \in Ids : Handles(k) \/ \E direction \in {"in", "out"} : CopyEnds(k, direction)
  \/ \E c \in Configs : Update(c)
  \/ BeginClose \/ Closes

Spec == Init /\ [][Next]_vars

--------------------------------------------------------------------------------
Handled == {k \in Ids : handler[k] \notin {"none", "ended"}}

\* Whatever way a connection goes, refused for the limit, caught by close at
\* either of the two calls of track, failed to reach its target or ended, it is
\* counted from its acceptance to its end and not a moment longer: a count left
\* behind would take a place of the rule's limit away for good.
ActiveExact ==
  active = Cardinality(Handled) + (IF acceptor.pc \in {"track", "uncount"} THEN 1 ELSE 0)

\* Close reaches every socket: one that is open is tracked, or still in the
\* hands of the goroutine that will track or close it, and after close has gone
\* through the connections none that is tracked is open.
SocketsReachable ==
  /\ \A k \in Ids : <<k, "client">> \in open \ tracked =>
       k = accepted /\ acceptor.pc \in {"count", "track", "uncount"}
  /\ \A k \in Ids : <<k, "target">> \in open \ tracked => handler[k] = "track"
  /\ manager \in {"wait", "done"} => open \cap tracked = {}

\* Goroutines run, a dial takes ten seconds at most and a read of a socket that
\* was closed here fails.  Clients, targets and the manager owe nothing.
Fairness ==
  /\ WF_vars(Accepts) /\ WF_vars(Closes)
  /\ \A k \in Ids :
       /\ WF_vars(Handles(k))
       /\ \A direction \in {"in", "out"} :
            WF_vars(Source(k, direction) \notin open /\ CopyEnds(k, direction))

FairSpec == Spec /\ Fairness

\* close returns, whatever connections are in the middle of, and leaves no
\* socket, no entry in either map and no count behind.
CloseReturns ==
  closed ~> manager = "done" /\ open = {} /\ tracked = {} /\ listed = {} /\ active = 0
================================================================================
