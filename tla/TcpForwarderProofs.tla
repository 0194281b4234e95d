---------------------------- MODULE TcpForwarderProofs ----------------------------
(***************************************************************************)
(* Theorems about TcpForwarder, for any clients, configurations and number *)
(* of connections: the active counter is exact and close reaches every     *)
(* socket.  And about BandwidthLimiter, which its copies wait for.         *)
(***************************************************************************)
EXTENDS TcpForwarder, FiniteSetTheorems, TLAPS

\* The accept loop has a connection in its hands.
Accepted == acceptor.pc \in {"count", "track", "uncount"}

\* TypeOK but for the bound on the counter, which follows from ActiveExact.
Typed ==
  /\ config \in Configs
  /\ closed \in BOOLEAN /\ listening \in BOOLEAN
  /\ acceptor \in [pc : {"accept", "count", "track", "uncount", "ended"}, max : Nat]
  /\ accepted \in 0 .. MaxConnections
  /\ handler \in [Ids -> {"none", "dial", "track", "list", "copy", "target", "client", "count",
                          "ended"}]
  /\ copying \in [Ids -> SUBSET {"in", "out"}]
  /\ open \subseteq Ids \X Sides
  /\ tracked \subseteq Ids \X Sides
  /\ listed \subseteq Ids
  /\ active \in Nat
  /\ manager \in {"idle", "listener", "connections", "wait", "done"}
  /\ updates \in 0 .. MaxUpdates

\* Connections have handlers in the order they are accepted, the one in the loop's
\* hands has none yet; the forwarder is closed as soon as close has begun and its
\* listener before close looks at the connections.
Places ==
  /\ \A k \in Ids : handler[k] # "none" => k <= accepted
  /\ Accepted => accepted \in Ids /\ handler[accepted] = "none"
  /\ manager = "idle" <=> ~closed
  /\ manager \in {"connections", "wait", "done"} => ~listening

\* A socket is tracked only between the two calls of its handler.
TrackedByHandler ==
  \A k \in Ids :
    /\ <<k, "client">> \in tracked =>
         handler[k] \in {"dial", "track", "list", "copy", "target", "client"}
    /\ <<k, "target">> \in tracked => handler[k] \in {"list", "copy", "target"}

IInv == Typed /\ Places /\ TrackedByHandler /\ SocketsReachable /\ ActiveExact

--------------------------------------------------------------------------------
(***************************************************************************)
(* The invariant is inductive.                                             *)
(***************************************************************************)

LEMMA InitIInv == Init => IInv
<1> SUFFICES ASSUME Init PROVE IInv
  OBVIOUS
<1>1. accepted \in 0 .. MaxConnections /\ updates \in 0 .. MaxUpdates
  BY BoundsAssumption DEF Init
<1>2. Typed
  BY <1>1 DEF Init, Typed
<1>3. Places /\ TrackedByHandler /\ SocketsReachable
  BY DEF Init, Places, Accepted, TrackedByHandler, SocketsReachable
<1>4. Handled = {}
  BY DEF Init, Handled
<1>5. ActiveExact
  BY <1>4, FS_EmptySet DEF Init, ActiveExact
<1> QED
  BY <1>2, <1>3, <1>5 DEF IInv

LEMMA HandledFinite == IsFiniteSet(Handled) /\ Cardinality(Handled) \in Nat
<1>1. IsFiniteSet(Ids)
  BY BoundsAssumption, FS_Interval DEF Ids
<1>2. Handled \subseteq Ids
  BY DEF Handled
<1>3. IsFiniteSet(Handled)
  BY <1>1, <1>2, FS_Subset
<1> QED
  BY <1>3, FS_CardinalityType

\* Whoever lowers the counter has raised it.
LEMMA CountedIsCounted ==
  ASSUME IInv
  PROVE  /\ acceptor.pc \in {"track", "uncount"} => active > 0
         /\ \A k \in Handled : active > 0
<1>1. active = Cardinality(Handled) + (IF acceptor.pc \in {"track", "uncount"} THEN 1 ELSE 0)
  BY DEF IInv, ActiveExact
<1>2. ASSUME NEW k \in Handled PROVE active > 0
  <2>1. Cardinality(Handled) # 0
    BY HandledFinite, FS_EmptySet
  <2> QED
    BY <1>1, <2>1, HandledFinite
<1> QED
  BY <1>1, <1>2, HandledFinite

LEMMA TypedStep ==
  ASSUME IInv, Next
  PROVE  Typed'
<1> USE DEF Typed
<1>0. Typed /\ Places
  BY DEF IInv
<1>1. ASSUME NEW c \in Clients, Accept(c) PROVE Typed'
  BY <1>0, <1>1, ConfigsAssumption, BoundsAssumption DEF Accept, Ids, Sides
<1>2. CASE AcceptEnds
  BY <1>0, <1>2 DEF AcceptEnds
<1>3. CASE Count
  BY <1>0, <1>3 DEF Count, At
<1>4. CASE Uncount
  BY <1>0, <1>4, CountedIsCounted DEF Uncount, Accepting
<1>5. CASE Track
  BY <1>0, <1>5 DEF Track, At, Accepting, Places, Accepted, Sides
<1>6. ASSUME NEW k \in Ids, Dial(k) PROVE Typed'
  BY <1>0, <1>6 DEF Dial, Sides
<1>7. ASSUME NEW k \in Ids, TrackTarget(k) PROVE Typed'
  BY <1>0, <1>7 DEF TrackTarget, Sides
<1>8. ASSUME NEW k \in Ids, List(k) PROVE Typed'
  BY <1>0, <1>8 DEF List
<1>9. ASSUME NEW k \in Ids, Unlist(k) PROVE Typed'
  BY <1>0, <1>9 DEF Unlist
<1>10. ASSUME NEW k \in Ids, DropTarget(k) \/ DropClient(k) PROVE Typed'
  BY <1>0, <1>10 DEF DropTarget, DropClient, Drop
<1>11. ASSUME NEW k \in Ids, HandlerEnds(k) PROVE Typed'
  <2>1. active > 0
    BY <1>11, CountedIsCounted DEF HandlerEnds, Handled
  <2> QED
    BY <1>0, <1>11, <2>1 DEF HandlerEnds
<1>12. ASSUME NEW k \in Ids, NEW direction \in {"in", "out"}, CopyEnds(k, direction) PROVE Typed'
  BY <1>0, <1>12 DEF CopyEnds
<1>13. ASSUME NEW c \in Configs, Update(c) PROVE Typed'
  BY <1>0, <1>13, BoundsAssumption DEF Update
<1>14. CASE BeginClose \/ Closes
  BY <1>0, <1>14 DEF BeginClose, Closes, CloseListener, CloseConnections, Waited
<1> QED
  BY <1>1, <1>2, <1>3, <1>4, <1>5, <1>6, <1>7, <1>8, <1>9, <1>10, <1>11, <1>12, <1>13, <1>14
  DEF Next, Accepts, Handles

LEMMA PlacesStep ==
  ASSUME IInv, Next
  PROVE  Places'
<1> USE DEF Places, Accepted
<1>0. Typed /\ Places
  BY DEF IInv
<1>1. ASSUME NEW c \in Clients, Accept(c) PROVE Places'
  <2>1. /\ acceptor.pc = "accept" /\ acceptor'.pc = "count" /\ accepted' = accepted + 1
        /\ accepted \in Nat /\ accepted + 1 \in Ids
        /\ UNCHANGED <<handler, closed, listening, manager>>
    BY <1>0, <1>1, BoundsAssumption DEF Accept, Ids, Typed
  <2>2. handler[accepted + 1] = "none"
    BY <1>0, <2>1
  <2>3. \A k \in Ids : handler'[k] # "none" => k <= accepted'
    BY <1>0, <2>1 DEF Ids
  <2> QED
    BY <1>0, <2>1, <2>2, <2>3
<1>2. CASE AcceptEnds \/ Count \/ Uncount
  BY <1>0, <1>2 DEF AcceptEnds, Count, At, Uncount, Accepting, Typed
<1>3. CASE Track
  <2>1. accepted \in Ids /\ acceptor'.pc \in {"accept", "uncount"}
    BY <1>0, <1>3 DEF Track, At, Accepting
  <2>2. CASE closed
    BY <1>0, <1>3, <2>2 DEF Track, At
  <2>3. CASE ~closed
    <3>1. handler' = [handler EXCEPT ![accepted] = "dial"] /\ acceptor'.pc = "accept"
      BY <1>3, <2>3 DEF Track, Accepting
    <3>2. \A k \in Ids : handler'[k] # "none" => k <= accepted
      BY <1>0, <2>1, <3>1, BoundsAssumption DEF Typed, Ids
    <3> QED
      BY <1>0, <1>3, <3>1, <3>2 DEF Track
  <2> QED
    BY <2>2, <2>3
<1>4. ASSUME NEW k \in Ids, Handles(k) PROVE Places'
  BY <1>0, <1>4 DEF Handles, Dial, TrackTarget, List, Unlist, DropTarget, DropClient, Drop,
     HandlerEnds, Typed
<1>5. ASSUME NEW k \in Ids, NEW direction \in {"in", "out"}, CopyEnds(k, direction) PROVE Places'
  BY <1>0, <1>5 DEF CopyEnds
<1>6. ASSUME NEW c \in Configs, Update(c) PROVE Places'
  BY <1>0, <1>6 DEF Update
<1>7. CASE BeginClose \/ Closes
  BY <1>0, <1>7 DEF BeginClose, Closes, CloseListener, CloseConnections, Waited, Typed
<1> QED
  BY <1>1, <1>2, <1>3, <1>4, <1>5, <1>6, <1>7 DEF Next, Accepts

LEMMA TrackedStep ==
  ASSUME IInv, Next
  PROVE  TrackedByHandler'
<1> USE DEF TrackedByHandler
<1>0. Typed /\ Places /\ TrackedByHandler
  BY DEF IInv
<1>1. ASSUME NEW c \in Clients, Accept(c) PROVE TrackedByHandler'
  BY <1>0, <1>1 DEF Accept
<1>2. CASE AcceptEnds \/ Count \/ Uncount
  BY <1>0, <1>2 DEF AcceptEnds, Count, Uncount
<1>3. CASE Track
  <2>1. accepted \in Ids /\ handler[accepted] = "none"
    BY <1>0, <1>3 DEF Track, Places, Accepted
  <2>2. CASE closed
    BY <1>0, <1>3, <2>2 DEF Track
  <2>3. CASE ~closed
    <3>1. /\ handler' = [handler EXCEPT ![accepted] = "dial"]
          /\ tracked' = tracked \cup {<<accepted, "client">>}
      BY <1>3, <2>3 DEF Track
    <3> QED
      BY <1>0, <2>1, <3>1 DEF Typed
  <2> QED
    BY <2>2, <2>3
<1>4. ASSUME NEW k \in Ids, Handles(k) PROVE TrackedByHandler'
  <2>1. CASE Dial(k)
    BY <1>0, <2>1 DEF Dial, Typed
  <2>2. CASE TrackTarget(k)
    <3>1. CASE closed
      BY <1>0, <2>2, <3>1 DEF TrackTarget, Typed
    <3>2. CASE ~closed
      <4>1. /\ handler' = [handler EXCEPT ![k] = "list"]
            /\ tracked' = tracked \cup {<<k, "target">>}
            /\ handler[k] = "track"
        BY <2>2, <3>2 DEF TrackTarget
      <4> QED
        BY <1>0, <4>1 DEF Typed
    <3> QED
      BY <3>1, <3>2
  <2>3. CASE List(k) \/ Unlist(k) \/ HandlerEnds(k)
    BY <1>0, <2>3 DEF List, Unlist, HandlerEnds, Typed
  <2>4. CASE DropTarget(k)
    BY <1>0, <2>4 DEF DropTarget, Drop, Typed
  <2>5. CASE DropClient(k)
    BY <1>0, <2>5 DEF DropClient, Drop, Typed
  <2> QED
    BY <1>4, <2>1, <2>2, <2>3, <2>4, <2>5 DEF Handles
<1>5. ASSUME NEW k \in Ids, NEW direction \in {"in", "out"}, CopyEnds(k, direction)
      PROVE TrackedByHandler'
  BY <1>0, <1>5 DEF CopyEnds
<1>6. ASSUME NEW c \in Configs, Update(c) PROVE TrackedByHandler'
  BY <1>0, <1>6 DEF Update
<1>7. CASE BeginClose \/ Closes
  BY <1>0, <1>7 DEF BeginClose, Closes, CloseListener, CloseConnections, Waited
<1> QED
  BY <1>1, <1>2, <1>3, <1>4, <1>5, <1>6, <1>7 DEF Next, Accepts

LEMMA SocketsStep ==
  ASSUME IInv, Next
  PROVE  SocketsReachable'
<1> USE DEF SocketsReachable
<1>0. Typed /\ Places /\ TrackedByHandler /\ SocketsReachable
  BY DEF IInv
<1>1. ASSUME NEW c \in Clients, Accept(c) PROVE SocketsReachable'
  BY <1>0, <1>1 DEF Accept, Typed, Places
<1>2. CASE AcceptEnds \/ Count
  BY <1>0, <1>2 DEF AcceptEnds, Count, At
<1>3. CASE Uncount
  BY <1>0, <1>3 DEF Uncount, Accepting
<1>4. CASE Track
  BY <1>0, <1>4 DEF Track, At, Accepting, Typed, Places, Accepted
<1>5. ASSUME NEW k \in Ids, Dial(k) PROVE SocketsReachable'
  <2>1. handler[k] = "dial" /\ UNCHANGED <<acceptor, accepted, tracked, manager>>
    BY <1>5 DEF Dial
  <2>2. <<k, "target">> \notin tracked
    BY <1>0, <2>1 DEF TrackedByHandler
  <2>3. CASE handler' = [handler EXCEPT ![k] = "client"] /\ open' = open
    BY <1>0, <2>1, <2>3 DEF Typed
  <2>4. CASE /\ handler' = [handler EXCEPT ![k] = "track"]
             /\ open' = open \cup {<<k, "target">>}
    <3>1. \A j \in Ids : handler'[j] = IF j = k THEN "track" ELSE handler[j]
      BY <1>0, <2>4 DEF Typed
    <3>2. open' \cap tracked' = open \cap tracked
      BY <2>1, <2>2, <2>4
    <3> QED
      BY <1>0, <2>1, <2>4, <3>1, <3>2
  <2> QED
    BY <1>5, <2>3, <2>4 DEF Dial
<1>6. ASSUME NEW k \in Ids, TrackTarget(k) PROVE SocketsReachable'
  BY <1>0, <1>6 DEF TrackTarget, Typed, Places
<1>7. ASSUME NEW k \in Ids, List(k) \/ Unlist(k) \/ HandlerEnds(k) PROVE SocketsReachable'
  BY <1>0, <1>7 DEF List, Unlist, HandlerEnds, Typed
<1>8. ASSUME NEW k \in Ids, DropTarget(k) \/ DropClient(k) PROVE SocketsReachable'
  BY <1>0, <1>8 DEF DropTarget, DropClient, Drop, Typed
<1>9. ASSUME NEW k \in Ids, NEW direction \in {"in", "out"}, CopyEnds(k, direction)
      PROVE SocketsReachable'
  BY <1>0, <1>9 DEF CopyEnds
<1>10. ASSUME NEW c \in Configs, Update(c) PROVE SocketsReachable'
  BY <1>0, <1>10 DEF Update
<1>11. CASE BeginClose \/ Closes
  BY <1>0, <1>11 DEF BeginClose, Closes, CloseListener, CloseConnections, Waited
<1> QED
  BY <1>1, <1>2, <1>3, <1>4, <1>5, <1>6, <1>7, <1>8, <1>9, <1>10, <1>11
  DEF Next, Accepts, Handles

LEMMA CountStep ==
  ASSUME IInv, Next
  PROVE  ActiveExact'
<1> USE DEF ActiveExact
<1>0. Typed /\ Places /\ ActiveExact
  BY DEF IInv
<1>1. ASSUME Handled' = Handled, active' = active,
             acceptor.pc \in {"track", "uncount"} <=> acceptor'.pc \in {"track", "uncount"}
      PROVE  ActiveExact'
  BY <1>0, <1>1
<1>2. ASSUME NEW c \in Clients, Accept(c) PROVE ActiveExact'
  BY <1>1, <1>2 DEF Accept, Handled
<1>3. CASE AcceptEnds
  BY <1>1, <1>3 DEF AcceptEnds, Handled
<1>4. CASE Count \/ Uncount
  <2>1. Handled' = Handled
    BY <1>4 DEF Count, Uncount, Handled
  <2> QED
    BY <1>0, <1>4, <2>1, HandledFinite DEF Count, At, Uncount, Accepting
<1>5. CASE Track /\ closed
  BY <1>1, <1>5 DEF Track, At, Handled
<1>6. CASE Track /\ ~closed
  <2>1. accepted \in Ids /\ accepted \notin Handled
    BY <1>0, <1>6 DEF Track, Places, Accepted, Handled
  <2>2. Handled' = Handled \cup {accepted}
    BY <1>0, <1>6, <2>1 DEF Track, Typed, Handled
  <2>3. Cardinality(Handled') = Cardinality(Handled) + 1
    BY <2>1, <2>2, HandledFinite, FS_AddElement
  <2> QED
    BY <1>0, <1>6, <2>3, HandledFinite DEF Track, Accepting
<1>7. ASSUME NEW k \in Ids, HandlerEnds(k) PROVE ActiveExact'
  <2>1. k \in Handled
    BY <1>7 DEF HandlerEnds, Handled
  <2>2. Handled' = Handled \ {k}
    BY <1>0, <1>7, <2>1 DEF HandlerEnds, Typed, Handled
  <2>3. Cardinality(Handled') = Cardinality(Handled) - 1
    BY <2>1, <2>2, HandledFinite, FS_RemoveElement
  <2> QED
    BY <1>0, <1>7, <2>3, HandledFinite DEF HandlerEnds
<1>8. ASSUME NEW k \in Ids, Handles(k), ~HandlerEnds(k) PROVE ActiveExact'
  <2>1. Handled' = Handled
    BY <1>0, <1>8 DEF Handles, Dial, TrackTarget, List, Unlist, DropTarget, DropClient, Drop,
       Typed, Handled
  <2>2. active' = active /\ acceptor' = acceptor
    BY <1>8 DEF Handles, Dial, TrackTarget, List, Unlist, DropTarget, DropClient, Drop
  <2> QED
    BY <1>1, <2>1, <2>2
<1>9. ASSUME NEW k \in Ids, NEW direction \in {"in", "out"}, CopyEnds(k, direction)
      PROVE ActiveExact'
  BY <1>1, <1>9 DEF CopyEnds, Handled
<1>10. ASSUME NEW c \in Configs, Update(c) PROVE ActiveExact'
  BY <1>1, <1>10 DEF Update, Handled
<1>11. CASE BeginClose \/ Closes
  BY <1>1, <1>11 DEF BeginClose, Closes, CloseListener, CloseConnections, Waited, Handled
<1> QED
  BY <1>2, <1>3, <1>4, <1>5, <1>6, <1>7, <1>8, <1>9, <1>10, <1>11 DEF Next, Accepts

LEMMA StepIInv == IInv /\ [Next]_vars => IInv'
<1>1. ASSUME IInv, Next PROVE IInv'
  BY <1>1, TypedStep, PlacesStep, TrackedStep, SocketsStep, CountStep DEF IInv
<1>2. ASSUME IInv, UNCHANGED vars PROVE IInv'
  BY <1>2 DEF IInv, vars, Typed, Places, Accepted, TrackedByHandler, SocketsReachable, ActiveExact,
     Handled
<1> QED
  BY <1>1, <1>2

--------------------------------------------------------------------------------
(***************************************************************************)
(* The theorems.                                                           *)
(***************************************************************************)

LEMMA CardinalityUpTo ==
  ASSUME NEW n \in Nat, NEW S, S \subseteq 1 .. n
  PROVE  Cardinality(S) <= n
<1>1. IsFiniteSet(1 .. n) /\ Cardinality(1 .. n) = IF 1 > n THEN 0 ELSE n - 1 + 1
  BY FS_Interval
<1>2. Cardinality(S) <= Cardinality(1 .. n)
  BY <1>1, FS_Subset
<1> QED
  BY <1>1, <1>2

\* The counter never exceeds the number of connections that were accepted: the one
\* in the loop's hands has no handler yet.
LEMMA Bounded == IInv => active <= accepted
<1> SUFFICES ASSUME IInv PROVE active <= accepted
  OBVIOUS
<1>0. accepted \in Nat /\ Typed /\ Places
  BY BoundsAssumption DEF IInv, Typed
<1>1. CASE acceptor.pc \in {"track", "uncount"}
  <2>1. Handled \subseteq 1 .. (accepted - 1)
    BY <1>0, <1>1 DEF Handled, Places, Accepted, Typed, Ids
  <2>2. accepted - 1 \in Nat
    BY <1>0, <1>1 DEF Places, Accepted, Ids
  <2>3. Cardinality(Handled) <= accepted - 1
    BY <2>1, <2>2, CardinalityUpTo
  <2> QED
    BY <1>0, <1>1, <2>3, HandledFinite DEF IInv, ActiveExact
<1>2. CASE acceptor.pc \notin {"track", "uncount"}
  <2>1. Handled \subseteq 1 .. accepted
    BY <1>0 DEF Handled, Places, Typed, Ids
  <2>2. Cardinality(Handled) <= accepted
    BY <1>0, <2>1, CardinalityUpTo
  <2> QED
    BY <1>0, <1>2, <2>2, HandledFinite DEF IInv, ActiveExact
<1> QED
  BY <1>1, <1>2

\* Every variable keeps its type, for any number of connections; the counter, an
\* unsigned integer that is lowered in three places, never goes below zero.
THEOREM TypeCorrect == Spec => []TypeOK
<1>1. IInv => TypeOK
  BY Bounded, BoundsAssumption DEF IInv, Typed, TypeOK
<1> QED
  BY <1>1, InitIInv, StepIInv, PTL DEF Spec

\* Whatever way a connection goes it is counted from its acceptance to its end and
\* not a moment longer (acceptLoop and handle in internal/forward/tcp.go).
THEOREM CounterExact == Spec => []ActiveExact
<1>1. IInv => ActiveExact
  BY DEF IInv
<1> QED
  BY <1>1, InitIInv, StepIInv, PTL DEF Spec

\* Every open socket is tracked or in the hands of a goroutine that will track or
\* close it, and close leaves no tracked one open (track, untrack and close in
\* internal/forward/tcp.go).
THEOREM CloseReachesSockets == Spec => []SocketsReachable
<1>1. IInv => SocketsReachable
  BY DEF IInv
<1> QED
  BY <1>1, InitIInv, StepIInv, PTL DEF Spec

\* Only a handler that is at its copy has an entry in sessions or goroutines that
\* copy; the accept loop ends only when the forwarder is closed, and when close has
\* returned nobody is left to begin anything.
Ended ==
  /\ \A k \in Ids : k \in listed \/ copying[k] # {} => handler[k] = "copy"
  /\ acceptor.pc = "ended" => closed
  /\ manager = "done" => /\ acceptor.pc = "ended"
                         /\ \A k \in Ids : handler[k] \in {"none", "ended"}

LEMMA EndedStep ==
  ASSUME IInv, Ended, Next
  PROVE  Ended'
<1> USE DEF Ended
<1>0. Typed /\ Places
  BY DEF IInv
<1>1. ASSUME NEW c \in Clients, Accept(c) PROVE Ended'
  BY <1>0, <1>1 DEF Accept
<1>2. CASE AcceptEnds \/ Count \/ Uncount
  BY <1>0, <1>2 DEF AcceptEnds, Count, Uncount, At, Accepting
<1>3. CASE Track
  <2>1. accepted \in Ids /\ handler[accepted] = "none" /\ manager # "done"
    BY <1>0, <1>3 DEF Track, Places, Accepted
  <2> QED
    BY <1>0, <1>3, <2>1 DEF Track, At, Accepting, Typed
<1>4. ASSUME NEW k \in Ids, Handles(k) PROVE Ended'
  <2>1. manager # "done"
    BY <1>4 DEF Handles, Dial, TrackTarget, List, Unlist, DropTarget, DropClient, Drop,
       HandlerEnds
  <2>2. CASE Dial(k) \/ TrackTarget(k) \/ HandlerEnds(k)
    BY <1>0, <2>1, <2>2 DEF Dial, TrackTarget, HandlerEnds, Typed
  <2>3. CASE List(k)
    BY <1>0, <2>1, <2>3 DEF List, Typed
  <2>4. CASE Unlist(k)
    BY <1>0, <2>1, <2>4 DEF Unlist, Typed
  <2>5. CASE DropTarget(k) \/ DropClient(k)
    BY <1>0, <2>1, <2>5 DEF DropTarget, DropClient, Drop, Typed
  <2> QED
    BY <1>4, <2>2, <2>3, <2>4, <2>5 DEF Handles
<1>5. ASSUME NEW k \in Ids, NEW direction \in {"in", "out"}, CopyEnds(k, direction) PROVE Ended'
  BY <1>0, <1>5 DEF CopyEnds, Typed
<1>6. ASSUME NEW c \in Configs, Update(c) PROVE Ended'
  BY <1>6 DEF Update
<1>7. CASE BeginClose \/ Closes
  BY <1>0, <1>7 DEF BeginClose, Closes, CloseListener, CloseConnections, Waited, Places
<1> QED
  BY <1>1, <1>2, <1>3, <1>4, <1>5, <1>6, <1>7 DEF Next, Accepts

\* When close has returned nothing of the forwarder is left: no socket, no entry in
\* connections or sessions, no count and no goroutine.  That it returns is
\* CloseReturns, which needs fairness (close in internal/forward/tcp.go).
THEOREM ClosedLeavesNothing ==
  Spec => [](manager = "done" =>
               /\ acceptor.pc = "ended" /\ \A k \in Ids : copying[k] = {}
               /\ open = {} /\ tracked = {} /\ listed = {} /\ active = 0)
<1>1. Init => Ended
  BY DEF Init, Ended
<1>2. IInv /\ Ended /\ [Next]_vars => Ended'
  <2>1. ASSUME Ended, UNCHANGED vars PROVE Ended'
    BY <2>1 DEF Ended, vars
  <2> QED
    BY <2>1, EndedStep
<1>3. ASSUME IInv, Ended, manager = "done"
      PROVE  /\ acceptor.pc = "ended" /\ \A k \in Ids : copying[k] = {}
             /\ open = {} /\ tracked = {} /\ listed = {} /\ active = 0
  <2>1. acceptor.pc = "ended" /\ \A k \in Ids : handler[k] \in {"none", "ended"}
    BY <1>3 DEF Ended
  <2>2. listed = {} /\ \A k \in Ids : copying[k] = {}
    BY <1>3, <2>1 DEF Ended, IInv, Typed
  <2>3. tracked = {}
    <3>1. tracked \subseteq Ids \X Sides /\ TrackedByHandler
      BY <1>3 DEF IInv, Typed
    <3>2. ASSUME NEW k \in Ids, NEW side \in Sides PROVE <<k, side>> \notin tracked
      BY <2>1, <3>1, <3>2 DEF TrackedByHandler, Sides
    <3> QED
      BY <3>1, <3>2
  <2>4. open = {}
    BY <1>3, <2>1, <2>3 DEF IInv, Typed, SocketsReachable, Sides
  <2>5. Handled = {}
    BY <2>1 DEF Handled
  <2>6. active = 0
    BY <1>3, <2>1, <2>5, FS_EmptySet DEF IInv, ActiveExact
  <2> QED
    BY <2>1, <2>2, <2>3, <2>4, <2>6
<1> QED
  BY <1>1, <1>2, <1>3, InitIInv, StepIInv, PTL DEF Spec

--------------------------------------------------------------------------------
(***************************************************************************)
(* The limiter that the copies of a rule wait for.  It implements          *)
(* RateLimit, for any callers, rates, burst limits and byte counts: what   *)
(* one refill credits late, when somebody looks at the bucket, is what     *)
(* would have been earned unit by unit, with what does not fit the burst   *)
(* running over.                                                           *)
(***************************************************************************)

CONSTANTS Callers, Rates, Quarter, MinBurst, MaxBurst, Sizes, Nobody

VARIABLES rate, tokens, since, shut, holder, pc, remaining, left, notified, done, result

Bucket == INSTANCE BandwidthLimiter WITH closed <- shut

\* What BandwidthLimiter assumes of its constants.
Proper ==
  /\ Rates \subseteq Nat /\ Rates # {}
  /\ Quarter \in Nat /\ MinBurst \in Nat \ {0} /\ MaxBurst \in Nat /\ MinBurst <= MaxBurst
  /\ Sizes \subseteq Nat \ {0}

\* The bucket holds no more than the burst of its rate, and Wait has returned
\* exactly when the caller is told so.
BucketInv ==
  /\ rate \in Rates /\ tokens \in 0 .. Bucket!Burst(rate) /\ since \in 0 .. MaxBurst
  /\ shut \in BOOLEAN
  /\ pc \in [Callers -> {"idle", "queue", "loop", "select"}]
  /\ remaining \in [Callers -> Nat]
  /\ result \in [Callers -> {"none", "nil", "error"}]
  /\ \A c \in Callers : pc[c] # "idle" <=> result[c] = "none"

\* No burst is greater than the most updateLocked allows.
LEMMA BurstType ==
  ASSUME Proper, NEW r \in Nat
  PROVE  Bucket!Burst(r) \in Nat /\ Bucket!Burst(r) <= MaxBurst
<1>1. r * Quarter \in Nat
  BY DEF Proper
<1> QED
  BY <1>1 DEF Proper, Bucket!Burst, Bucket!Least, Bucket!Greatest

\* What has been earned since the last refill can be counted then or later.
LEMMA RefilledType ==
  ASSUME Proper, BucketInv
  PROVE  /\ rate \in Nat /\ since * rate \in Nat
         /\ Bucket!Refilled \in Nat /\ Bucket!Refilled <= Bucket!Burst(rate)
<1>1. rate \in Nat /\ since \in Nat /\ tokens \in Nat
  BY BurstType DEF Proper, BucketInv
<1>2. since * rate \in Nat
  BY <1>1
<1>3. Bucket!Burst(rate) \in Nat
  BY <1>1, BurstType
<1> QED
  BY <1>1, <1>2, <1>3 DEF Bucket!Refilled, Bucket!Least

\* Nothing is left to be credited after a refill.
LEMMA JustRefilled ==
  ASSUME Proper, NEW r \in Nat, NEW n \in 0 .. Bucket!Burst(r)
  PROVE  Bucket!Least(Bucket!Burst(r), n + 0 * r) = n
BY BurstType DEF Bucket!Least

\* The bucket is full at first, with nobody waiting.
LEMMA BucketInit ==
  ASSUME Proper, Bucket!Init
  PROVE  BucketInv /\ Bucket!Limit!Init
<1>1. rate \in Nat /\ Bucket!Burst(rate) \in Nat
  BY BurstType DEF Proper, Bucket!Init
<1>2. tokens \in 0 .. Bucket!Burst(rate) /\ since \in 0 .. MaxBurst
  BY <1>1 DEF Proper, Bucket!Init
<1>3. BucketInv
  BY <1>2 DEF Bucket!Init, BucketInv
<1>4. Bucket!Refilled = Bucket!Burst(rate)
  BY <1>1, JustRefilled DEF Bucket!Init, Bucket!Refilled
<1> QED
  BY <1>3, <1>4 DEF Bucket!Init, Bucket!Limit!Init

\* Time that passes without a refill earns the same as with one: since stops at
\* MaxBurst, when any rate but 0 has filled the bucket.
LEMMA EarnsWhenTicked ==
  ASSUME Proper, BucketInv, Bucket!Tick
  PROVE  Bucket!Refilled' = Bucket!Least(Bucket!Burst(rate), Bucket!Refilled + rate)
<1>1. /\ rate \in Nat /\ since \in Nat /\ since <= MaxBurst /\ tokens \in Nat
      /\ Bucket!Burst(rate) \in Nat /\ Bucket!Burst(rate) <= MaxBurst /\ since * rate \in Nat
  BY BurstType, RefilledType DEF Proper, BucketInv
<1>2. since' = Bucket!Least(since + 1, MaxBurst) /\ rate' = rate /\ tokens' = tokens
  BY DEF Bucket!Tick
<1>3. Bucket!Refilled' = Bucket!Least(Bucket!Burst(rate), tokens + since' * rate)
  BY <1>2 DEF Bucket!Refilled
<1>4. CASE since < MaxBurst
  <2>1. since' = since + 1
    BY <1>1, <1>2, <1>4 DEF Proper, Bucket!Least
  <2>2. (since + 1) * rate = since * rate + rate
    BY <1>1
  <2> QED
    BY <1>1, <1>3, <2>1, <2>2 DEF Bucket!Refilled, Bucket!Least
<1>5. CASE since = MaxBurst
  <2>1. since' = since
    BY <1>1, <1>2, <1>5 DEF Bucket!Least
  <2>2. CASE rate = 0
    BY <1>1, <1>3, <2>1, <2>2 DEF Bucket!Refilled, Bucket!Least
  <2>3. CASE rate # 0
    <3>1. since * rate >= since
      BY <1>1, <2>3
    <3> QED
      BY <1>1, <1>3, <1>5, <2>1, <3>1 DEF Bucket!Refilled, Bucket!Least
  <2> QED
    BY <2>2, <2>3
<1> QED
  BY <1>1, <1>4, <1>5 DEF Proper

\* What every step has to show.
BucketKept == BucketInv' /\ [Bucket!Limit!Next]_Bucket!Limit!vars

\* A caller that comes, gets the queue, sleeps on or is woken takes nothing.
LEMMA SameAllowance ==
  ASSUME UNCHANGED Bucket!bucket
  PROVE  Bucket!Refilled' = Bucket!Refilled
BY DEF Bucket!bucket, Bucket!Refilled

\* A caller comes with a byte count: RateLimit is asked.
LEMMA EnterKeeps ==
  ASSUME Proper, BucketInv, NEW c \in Callers, NEW n \in Sizes, Bucket!Enter(c, n)
  PROVE  BucketKept
<1>1. BucketInv'
  BY DEF Proper, BucketInv, Bucket!Enter, Bucket!bucket
<1>2. Bucket!Limit!Ask(c, n)
  BY SameAllowance DEF BucketInv, Bucket!Enter, Bucket!Limit!Ask, Bucket!bucket
<1> QED
  BY <1>1, <1>2 DEF BucketKept, Bucket!Limit!Next

\* The queue, the notifications and the end are not seen by RateLimit.
LEMMA QuietKeeps ==
  ASSUME Proper, BucketInv,
         \/ \E c \in Callers : Bucket!Acquire(c) \/ Bucket!Wake(c) \/ Bucket!CloseDone(c)
         \/ Bucket!Close
  PROVE  BucketKept
<1>1. UNCHANGED <<rate, tokens, since, remaining, result>>
  BY DEF Bucket!Acquire, Bucket!Wake, Bucket!CloseDone, Bucket!Close, Bucket!bucket
<1>2. BucketInv'
  BY <1>1 DEF BucketInv, Bucket!Acquire, Bucket!Wake, Bucket!CloseDone, Bucket!Close, Bucket!bucket
<1>3. UNCHANGED Bucket!Limit!vars
  BY <1>1, SameAllowance DEF Bucket!Limit!vars, Bucket!Refilled
<1> QED
  BY <1>2, <1>3 DEF BucketKept

\* A caller leaves with an error and takes nothing.
LEMMA RefuseKeeps ==
  ASSUME Proper, BucketInv, NEW c \in Callers, Bucket!FailClosed(c) \/ Bucket!GiveUp(c)
  PROVE  BucketKept
<1>1. Bucket!Return(c, "error") /\ UNCHANGED Bucket!bucket /\ pc[c] # "idle"
  BY DEF Bucket!FailClosed, Bucket!GiveUp
<1>2. BucketInv'
  BY <1>1 DEF BucketInv, Bucket!Return, Bucket!bucket
<1>3. Bucket!Limit!Refuse(c)
  BY <1>1, SameAllowance DEF BucketInv, Bucket!Return, Bucket!bucket, Bucket!Limit!Refuse
<1> QED
  BY <1>2, <1>3 DEF BucketKept, Bucket!Limit!Next

\* At rate 0 a caller passes for nothing.
LEMMA UnlimitedKeeps ==
  ASSUME Proper, BucketInv, NEW c \in Callers, Bucket!PassUnlimited(c)
  PROVE  BucketKept
<1>1. /\ rate = 0 /\ since' = 0 /\ Bucket!Return(c, "nil") /\ pc[c] # "idle"
      /\ UNCHANGED <<rate, tokens, shut>>
  BY DEF Bucket!PassUnlimited
<1>2. 0 \in 0 .. MaxBurst
  BY DEF Proper
<1>3. BucketInv'
  BY <1>1, <1>2 DEF BucketInv, Bucket!Return
<1>4. Bucket!Refilled' = Bucket!Refilled
  BY <1>1, RefilledType DEF Proper, BucketInv, Bucket!Refilled
<1>5. Bucket!Limit!Unlimited(c)
  BY <1>1, <1>4 DEF BucketInv, Bucket!Return, Bucket!Limit!Unlimited
<1> QED
  BY <1>3, <1>5 DEF BucketKept, Bucket!Limit!Next

\* Wait takes what has been earned, as far as it needs it, and nothing else.
LEMMA TakeKeeps ==
  ASSUME Proper, BucketInv, NEW c \in Callers, Bucket!TakeTokens(c)
  PROVE  BucketKept
<1> DEFINE n == Bucket!Take(c)
<1>1. /\ pc[c] = "loop" /\ result[c] = "none" /\ rate' = rate /\ shut' = shut
      /\ tokens' = Bucket!Refilled - n /\ since' = 0
  BY DEF Bucket!TakeTokens, BucketInv
<1>2. /\ n \in Nat /\ n <= Bucket!Refilled /\ n <= remaining[c] /\ remaining[c] \in Nat
      /\ Bucket!Refilled \in Nat /\ Bucket!Refilled <= Bucket!Burst(rate)
      /\ rate \in Nat /\ Bucket!Burst(rate) \in Nat
  BY RefilledType, BurstType DEF BucketInv, Bucket!Take, Bucket!Least
<1> HIDE DEF n
<1>3. tokens' \in 0 .. Bucket!Burst(rate) /\ since' \in 0 .. MaxBurst
  BY <1>1, <1>2 DEF Proper
<1>4. Bucket!Refilled' = Bucket!Refilled - n
  BY <1>1, <1>2, <1>3, JustRefilled DEF Bucket!Refilled
<1>5. /\ remaining' = [remaining EXCEPT ![c] = remaining[c] - n]
      /\ result' = [result EXCEPT ![c] = IF n = remaining[c] THEN "nil" ELSE "none"]
      /\ pc' = [pc EXCEPT ![c] = IF n = remaining[c] THEN "idle" ELSE "select"]
  <2>1. CASE n = remaining[c]
    <3>1. Bucket!Return(c, "nil")
      BY <2>1 DEF Bucket!TakeTokens, n
    <3>2. remaining[c] - n = 0
      BY <1>2, <2>1
    <3> QED
      BY <2>1, <3>1, <3>2 DEF Bucket!Return
  <2>2. CASE n # remaining[c]
    <3>1. /\ remaining' = [remaining EXCEPT ![c] = remaining[c] - n] /\ result' = result
          /\ pc' = [pc EXCEPT ![c] = "select"]
      BY <2>2 DEF Bucket!TakeTokens, n
    <3> QED
      BY <1>1, <2>2, <3>1 DEF BucketInv
  <2> QED
    BY <2>1, <2>2
<1>6. remaining[c] - n \in Nat
  BY <1>2
<1>7. BucketInv'
  BY <1>1, <1>3, <1>5, <1>6 DEF BucketInv
<1>8. Bucket!Limit!Pass(c, n)
  BY <1>1, <1>2, <1>4, <1>5 DEF Bucket!Limit!Pass
<1>9. n \in 0 .. remaining[c]
  BY <1>2
<1> QED
  BY <1>7, <1>8, <1>9 DEF BucketKept, Bucket!Limit!Next

\* What has been earned at the old rate is credited before the new one counts.
LEMMA UpdateKeeps ==
  ASSUME Proper, BucketInv, NEW r \in Rates, Bucket!Update(r)
  PROVE  BucketKept
<1>1. /\ rate' = r /\ tokens' = Bucket!Least(Bucket!Burst(r), Bucket!Refilled) /\ since' = 0
      /\ UNCHANGED <<shut, pc, remaining, result>>
  BY DEF Bucket!Update
<1>2. r \in Nat /\ Bucket!Burst(r) \in Nat /\ Bucket!Refilled \in Nat
  BY BurstType, RefilledType DEF Proper
<1>3. tokens' \in 0 .. Bucket!Burst(r) /\ since' \in 0 .. MaxBurst
  BY <1>1, <1>2 DEF Proper, Bucket!Least
<1>4. Bucket!Refilled' = tokens'
  BY <1>1, <1>2, <1>3, JustRefilled DEF Bucket!Refilled
<1>5. BucketInv'
  BY <1>1, <1>3 DEF BucketInv
<1>6. Bucket!Limit!SetRate(r)
  BY <1>1, <1>4 DEF Bucket!Limit!SetRate, Bucket!Least, Bucket!Limit!Least
<1> QED
  BY <1>5, <1>6 DEF BucketKept, Bucket!Limit!Next

\* A unit of time earns the rate, up to the burst.
LEMMA TickKeeps ==
  ASSUME Proper, BucketInv, Bucket!Tick
  PROVE  BucketKept
<1>1. /\ since' = Bucket!Least(since + 1, MaxBurst)
      /\ UNCHANGED <<rate, tokens, shut, pc, remaining, result>>
  BY DEF Bucket!Tick
<1>2. since' \in 0 .. MaxBurst
  BY <1>1 DEF Proper, BucketInv, Bucket!Least
<1>3. BucketInv'
  BY <1>1, <1>2 DEF BucketInv
<1>4. Bucket!Limit!Earn
  BY <1>1, EarnsWhenTicked DEF Bucket!Limit!Earn, Bucket!Least, Bucket!Limit!Least
<1> QED
  BY <1>3, <1>4 DEF BucketKept, Bucket!Limit!Next

\* All the steps together.
LEMMA BucketStep ==
  ASSUME Proper, BucketInv, [Bucket!Next]_Bucket!vars
  PROVE  BucketKept
<1>1. CASE UNCHANGED Bucket!vars
  BY <1>1 DEF Bucket!vars, BucketKept, BucketInv, Bucket!Limit!vars, Bucket!Refilled
<1>2. ASSUME NEW c \in Callers, NEW n \in Sizes, Bucket!Enter(c, n) PROVE BucketKept
  BY <1>2, EnterKeeps
<1>3. ASSUME NEW c \in Callers, Bucket!Acquire(c) \/ Bucket!Wake(c) \/ Bucket!CloseDone(c)
      PROVE  BucketKept
  BY <1>3, QuietKeeps
<1>4. ASSUME NEW c \in Callers, Bucket!FailClosed(c) \/ Bucket!GiveUp(c) PROVE BucketKept
  BY <1>4, RefuseKeeps
<1>5. ASSUME NEW c \in Callers, Bucket!PassUnlimited(c) PROVE BucketKept
  BY <1>5, UnlimitedKeeps
<1>6. ASSUME NEW c \in Callers, Bucket!TakeTokens(c) PROVE BucketKept
  BY <1>6, TakeKeeps
<1>7. ASSUME NEW r \in Rates, Bucket!Update(r) PROVE BucketKept
  BY <1>7, UpdateKeeps
<1>8. CASE Bucket!Close
  BY <1>8, QuietKeeps
<1>9. CASE Bucket!Tick
  BY <1>9, TickKeeps
<1> QED
  BY <1>1, <1>2, <1>3, <1>4, <1>5, <1>6, <1>7, <1>8, <1>9 DEF Bucket!Next

\* Whoever waits together, at whatever rates, and whenever the rate is changed or
\* the limiter closed, Wait lets bytes through only as far as the rate has earned
\* them and the burst kept them, and returns nil only for bytes it took in full or
\* while there is no limit (Wait, Update and refillLocked of bandwidth.go).
THEOREM KeepsTheLimit ==
  ASSUME Proper
  PROVE  Bucket!Spec => Bucket!ImplementsRateLimit
<1>1. Bucket!Init => BucketInv /\ Bucket!Limit!Init
  BY BucketInit
<1>2. BucketInv /\ [Bucket!Next]_Bucket!vars => BucketInv' /\ [Bucket!Limit!Next]_Bucket!Limit!vars
  BY BucketStep DEF BucketKept
<1>3. Bucket!Spec => Bucket!Limit!Init /\ [][Bucket!Limit!Next]_Bucket!Limit!vars
  BY <1>1, <1>2, PTL DEF Bucket!Spec
<1> QED
  BY <1>3 DEF Bucket!ImplementsRateLimit, Bucket!Limit!Spec

--------------------------------------------------------------------------------
(***************************************************************************)
(* No wake-up is lost, the safe half of CloseReleases.                     *)
(***************************************************************************)

\* Only the caller that holds the queue is past it, and nobody who has left holds it.
QueueHeld ==
  /\ \A c \in Callers : pc[c] \in {"loop", "select"} => holder = c
  /\ holder # Nobody => holder \in Callers /\ pc[holder] \in {"loop", "select"}

\* A caller that has nothing to wait for any more, because the limiter was closed or
\* the limit lifted, does not sleep on: the channel it selects on is closed.
SleeperIsWoken ==
  \A c \in Callers : pc[c] = "select" /\ (shut \/ rate = 0) => notified

\* The queue is taken by one and given up by whoever has it.
LEMMA QueueStep ==
  ASSUME Proper, Nobody \notin Callers, BucketInv, QueueHeld, Bucket!Next
  PROVE  QueueHeld'
<1> USE DEF QueueHeld
<1>0. pc \in [Callers -> {"idle", "queue", "loop", "select"}]
  BY DEF BucketInv
<1>1. ASSUME NEW c \in Callers, NEW n \in Sizes, Bucket!Enter(c, n) PROVE QueueHeld'
  BY <1>0, <1>1 DEF Bucket!Enter
<1>2. ASSUME NEW c \in Callers, Bucket!Acquire(c) PROVE QueueHeld'
  BY <1>0, <1>2 DEF Bucket!Acquire
<1>3. ASSUME NEW c \in Callers, NEW outcome, Bucket!Return(c, outcome),
             pc[c] \in {"loop", "select"}
      PROVE  QueueHeld'
  BY <1>0, <1>3 DEF Bucket!Return
<1>4. ASSUME NEW c \in Callers,
             Bucket!FailClosed(c) \/ Bucket!PassUnlimited(c) \/ Bucket!GiveUp(c)
      PROVE  QueueHeld'
  BY <1>3, <1>4 DEF Bucket!FailClosed, Bucket!PassUnlimited, Bucket!GiveUp
<1>5. ASSUME NEW c \in Callers, Bucket!TakeTokens(c) PROVE QueueHeld'
  <2>1. pc[c] = "loop"
    BY <1>5 DEF Bucket!TakeTokens
  <2>2. CASE Bucket!Take(c) = remaining[c]
    BY <1>3, <1>5, <2>1, <2>2 DEF Bucket!TakeTokens
  <2>3. CASE Bucket!Take(c) # remaining[c]
    <3>1. pc' = [pc EXCEPT ![c] = "select"] /\ holder' = holder
      BY <1>5, <2>3 DEF Bucket!TakeTokens
    <3> QED
      BY <1>0, <2>1, <3>1
  <2> QED
    BY <2>2, <2>3
<1>6. ASSUME NEW c \in Callers, Bucket!Wake(c) PROVE QueueHeld'
  BY <1>0, <1>6 DEF Bucket!Wake
<1>7. ASSUME UNCHANGED <<pc, holder>> PROVE QueueHeld'
  BY <1>7
<1>8. ASSUME NEW c \in Callers, Bucket!CloseDone(c) PROVE QueueHeld'
  BY <1>7, <1>8 DEF Bucket!CloseDone
<1>9. CASE (\E r \in Rates : Bucket!Update(r)) \/ Bucket!Close \/ Bucket!Tick
  BY <1>7, <1>9 DEF Bucket!Update, Bucket!Close, Bucket!Tick
<1> QED
  BY <1>1, <1>2, <1>4, <1>5, <1>6, <1>8, <1>9 DEF Bucket!Next

\* Whatever ends a wait notifies the sleeper, and a notification is taken back only
\* by the caller it was for.
LEMMA WokenStep ==
  ASSUME Proper, Nobody \notin Callers, BucketInv, QueueHeld, SleeperIsWoken, Bucket!Next
  PROVE  SleeperIsWoken'
<1> USE DEF SleeperIsWoken
<1>0. pc \in [Callers -> {"idle", "queue", "loop", "select"}]
  BY DEF BucketInv
<1>1. ASSUME NEW c \in Callers, NEW n \in Sizes, Bucket!Enter(c, n) PROVE SleeperIsWoken'
  BY <1>0, <1>1 DEF Bucket!Enter, Bucket!bucket
<1>2. ASSUME NEW c \in Callers, Bucket!Acquire(c) PROVE SleeperIsWoken'
  BY <1>0, <1>2 DEF Bucket!Acquire, Bucket!bucket
<1>3. ASSUME NEW c \in Callers, pc[c] \in {"loop", "select"}, NEW place, place # "select",
             pc' = [pc EXCEPT ![c] = place]
      PROVE  SleeperIsWoken'
  <2>1. \A other \in Callers : pc'[other] # "select"
    BY <1>0, <1>3 DEF QueueHeld
  <2> QED
    BY <2>1
<1>4. ASSUME NEW c \in Callers,
             \/ Bucket!FailClosed(c) \/ Bucket!PassUnlimited(c)
             \/ Bucket!GiveUp(c) \/ Bucket!Wake(c)
      PROVE  SleeperIsWoken'
  BY <1>3, <1>4 DEF Bucket!FailClosed, Bucket!PassUnlimited, Bucket!GiveUp, Bucket!Wake,
     Bucket!Return
<1>5. ASSUME NEW c \in Callers, Bucket!TakeTokens(c) PROVE SleeperIsWoken'
  BY <1>5 DEF Bucket!TakeTokens, BucketInv, Proper
<1>6. ASSUME NEW c \in Callers, Bucket!CloseDone(c) PROVE SleeperIsWoken'
  BY <1>6 DEF Bucket!CloseDone, Bucket!bucket
<1>7. CASE (\E r \in Rates : Bucket!Update(r)) \/ Bucket!Close
  BY <1>7 DEF Bucket!Update, Bucket!Close
<1>8. CASE Bucket!Tick
  BY <1>8 DEF Bucket!Tick
<1> QED
  BY <1>1, <1>2, <1>4, <1>5, <1>6, <1>7, <1>8 DEF Bucket!Next

\* A caller asleep when the limiter is closed or its limit lifted has been notified
\* and sleeps no longer, and the queue is never left with somebody who has gone, so
\* that those behind can come and look: Wait captures the channel under the mutex
\* that Update and Close hold when they close it (bandwidth.go).
THEOREM NoWakeUpIsLost ==
  ASSUME Proper, Nobody \notin Callers
  PROVE  Bucket!Spec => [](QueueHeld /\ SleeperIsWoken)
<1> DEFINE Inv == BucketInv /\ QueueHeld /\ SleeperIsWoken
<1>1. Bucket!Init => Inv
  BY BucketInit DEF Bucket!Init, QueueHeld, SleeperIsWoken
<1>2. Inv /\ [Bucket!Next]_Bucket!vars => Inv'
  <2>1. ASSUME Inv, UNCHANGED Bucket!vars PROVE QueueHeld' /\ SleeperIsWoken'
    BY <2>1 DEF Bucket!vars, QueueHeld, SleeperIsWoken
  <2>2. ASSUME Inv, Bucket!Next PROVE QueueHeld' /\ SleeperIsWoken'
    BY <2>2, QueueStep, WokenStep
  <2> QED
    BY <2>1, <2>2, BucketStep DEF BucketKept
<1> QED
  BY <1>1, <1>2, PTL DEF Bucket!Spec
================================================================================
