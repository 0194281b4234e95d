---------------------------- MODULE UdpForwarderProofs ----------------------------
(***************************************************************************)
(* Theorems about UdpForwarder, for any clients, configurations and number *)
(* of sessions: the sessions and the active counter agree, a new target    *)
(* misses at most one session, and close leaves nothing behind.            *)
(***************************************************************************)
EXTENDS UdpForwarder, FiniteSetTheorems, TLAPS

--------------------------------------------------------------------------------
(***************************************************************************)
(* The inductive invariant.                                                *)
(***************************************************************************)

\* TypeOK but for the bound on the counter, which follows from CountOK.
Typed ==
  /\ config \in Configs
  /\ closed \in BOOLEAN /\ socket \in BOOLEAN
  /\ sessions \in [Clients -> Ids \cup {None}]
  /\ active \in Nat
  /\ client \in [Ids -> Clients \cup {None}]
  /\ target \in [Ids -> Targets \cup {None}]
  /\ open \subseteq Ids
  /\ once \in [Ids -> {"no", "reader", "loop", "manager", "done"}]
  /\ loop \in [Ids -> {"none", "run", "close", "ended"}]
  /\ reader \in Reader
  /\ manager \in {"idle", "socket", "snapshot", "close", "wait", "done"}
  /\ todo \subseteq Ids
  /\ updates \in 0 .. MaxUpdates

\* What the read loop holds at each place: the session it is about to add is its
\* own alone, open, and dialled with the configuration it has loaded.
HandsOK ==
  /\ reader.pc \in {"find", "dial", "insert", "write", "close"} =>
       reader.client \in Clients /\ reader.config \in Configs
  /\ reader.pc \in {"insert", "write", "close"} => reader.session \in Made
  /\ reader.pc = "insert" =>
       /\ client[reader.session] = reader.client
       /\ target[reader.session] = reader.config.target
       /\ once[reader.session] = "no" /\ loop[reader.session] = "none"
       /\ reader.session \in open

\* Sessions are numbered as they are made; one that is not made, or not yet added,
\* has no loop, and one that is not made has nothing at all.
NumbersOK ==
  /\ Made = 1 .. Cardinality(Made)
  /\ \A s \in Ids \ Made : once[s] = "no" /\ loop[s] = "none" /\ s \notin open

\* An entry of the map is a session of the client it is found under.
MapOK == \A c \in Clients : sessions[c] # None => client[sessions[c]] = c

\* sync.Once lets one goroutine through, which closes the socket first and has the
\* entry removed when it is done; a session is added with its loop.
OnceOK ==
  \A s \in Made :
    /\ once[s] # "no" => s \notin open
    /\ once[s] = "done" => s \notin InMap
    /\ s \in InMap => loop[s] # "none"
    /\ s \in InMap /\ s \notin open => once[s] # "no"
    /\ s \in open => s \in InMap \/ (reader.pc = "insert" /\ reader.session = s)
    /\ loop[s] = "ended" => s \notin open /\ s \notin InMap

CountOK == active = Cardinality(InMap)

\* The read loop is about to look for, to make or to add a session with a
\* configuration of another target.
Stale == reader.pc \in {"find", "dial", "insert"} /\ reader.config.target # config.target

\* Sessions of another target that closeSessions does not have before it.
Late == {s \in InMap \ todo : target[s] # config.target}

LateOK ==
  /\ \A s \in todo : s \in Made /\ loop[s] # "none"
  /\ manager = "idle" => todo = {}
  /\ manager \in {"idle", "close"} =>
       /\ Stale => Late = {}
       /\ \A r, s \in Late : r = s

\* When close has returned every goroutine has ended.
DoneOK == manager = "done" => reader.pc = "ended" /\ \A s \in Made : loop[s] = "ended"

IInv ==
  Typed /\ HandsOK /\ NumbersOK /\ MapOK /\ OnceOK /\ CountOK /\ LateOK /\ DoneOK

--------------------------------------------------------------------------------
(***************************************************************************)
(* The invariant is inductive.                                             *)
(***************************************************************************)

LEMMA InitIInv == Init => IInv
<1> SUFFICES ASSUME Init PROVE IInv
  OBVIOUS
<1>1. Made = {} /\ InMap = {}
  BY DEF Init, Made, InMap
<1>2. Cardinality({}) = 0
  BY FS_EmptySet
<1>3. updates \in 0 .. MaxUpdates /\ reader \in Reader
  BY BoundsAssumption DEF Init, Idle, Without, Reader
<1>8. Typed /\ HandsOK
  BY <1>3 DEF Init, Typed, HandsOK, Idle, Without
<1>4. NumbersOK /\ MapOK /\ OnceOK /\ CountOK
  BY <1>1, <1>2 DEF Init, NumbersOK, MapOK, OnceOK, CountOK
<1>5. LateOK /\ DoneOK
  BY <1>1 DEF Init, LateOK, Late, Stale, Idle, Without, DoneOK
<1> QED
  BY <1>4, <1>5, <1>8 DEF IInv

\* Sessions are finitely many.
LEMMA Finite ==
  /\ IsFiniteSet(Made) /\ Cardinality(Made) \in Nat
  /\ IsFiniteSet(InMap) /\ Cardinality(InMap) \in Nat
  /\ InMap \subseteq Made /\ Made \subseteq Ids
<1>1. IsFiniteSet(Ids)
  BY BoundsAssumption, FS_Interval DEF Ids
<1>2. InMap \subseteq Made /\ Made \subseteq Ids
  BY DEF InMap, Made
<1> QED
  BY <1>1, <1>2, FS_Subset, FS_CardinalityType

\* The map holds exactly the sessions of InMap.
LEMMA Found ==
  ASSUME IInv, NEW c \in Clients, sessions[c] # None
  PROVE  sessions[c] \in InMap /\ client[sessions[c]] = c
<1>1. client[sessions[c]] = c /\ sessions[c] \in Ids
  BY DEF IInv, MapOK, Typed
<1> QED
  BY <1>1, NoneAssumption DEF InMap, Made

\* As long as nobody touches the map or makes a session.
LEMMA SameSets ==
  ASSUME UNCHANGED <<sessions, client>>
  PROVE  InMap' = InMap /\ Made' = Made
BY DEF InMap, Made

\* What the read loop does between the stretches under sessionsMu.
LEMMA ReaderKeeps ==
  ASSUME IInv,
         \/ \E c \in Clients : Receive(c)
         \/ ReaderEnds \/ Find \/ DialFails \/ Write
         \/ reader.pc = "close" /\ reader' = Idle
             /\ UNCHANGED <<config, closed, socket, sessions, active, client, target, open, once,
                            loop, manager, todo, updates>>
  PROVE  IInv'
<1> USE DEF At, Without, Idle
<1>1. /\ UNCHANGED <<config, closed, socket, sessions, active, client, target, open, once, loop,
                     manager, todo, updates>>
      /\ reader' \in Reader
      /\ reader.pc # "ended" /\ reader.pc # "insert" /\ reader'.pc # "insert"
  BY DEF IInv, Typed, HandsOK, Receive, ReaderEnds, Find, DialFails, Write, Reader
<1>2. InMap' = InMap /\ Made' = Made
  BY <1>1, SameSets
<1>3. Typed' /\ NumbersOK' /\ MapOK' /\ OnceOK' /\ CountOK' /\ DoneOK'
  BY <1>1, <1>2 DEF IInv, Typed, NumbersOK, MapOK, OnceOK, CountOK, DoneOK
<1>4. HandsOK'
  <2>1. ASSUME NEW c \in Clients, Receive(c) PROVE HandsOK'
    BY <2>1 DEF Receive, HandsOK, IInv, Typed
  <2>2. CASE Find
    <3>1. reader.client \in Clients /\ reader.config \in Configs
      BY <2>2 DEF Find, IInv, HandsOK
    <3>2. sessions[reader.client] # None => sessions[reader.client] \in Made
      BY <3>1, Found, Finite
    <3> QED
      BY <1>2, <2>2, <3>1, <3>2 DEF Find, HandsOK
  <2>3. CASE ReaderEnds \/ DialFails \/ Write \/ reader' = Idle
    BY <1>1, <1>2, <2>3 DEF ReaderEnds, DialFails, Write, HandsOK, IInv
  <2> QED
    BY <2>1, <2>2, <2>3
<1>5. Stale' => Stale
  BY <1>1 DEF Stale, Receive, ReaderEnds, Find, DialFails, Write
<1>6. LateOK'
  BY <1>1, <1>2, <1>5 DEF IInv, LateOK, Late
<1> QED
  BY <1>3, <1>4, <1>6 DEF IInv
\* A dial that succeeds makes the session of the next number.
LEMMA DialKeeps ==
  ASSUME IInv, NEW s \in Ids, Dial(s)
  PROVE  IInv'
<1> DEFINE n == Cardinality(Made)
<1>0. n \in Nat /\ Made = 1 .. n /\ s = n + 1
  BY Finite DEF IInv, NumbersOK, Dial
<1>1. s \notin Made /\ once[s] = "no" /\ loop[s] = "none"
  BY <1>0 DEF IInv, NumbersOK
<1>2. reader.client \in Clients /\ reader.config \in Configs /\ reader.client # None
  BY NoneAssumption DEF Dial, IInv, HandsOK
<1>3. /\ client' = [client EXCEPT ![s] = reader.client]
      /\ target' = [target EXCEPT ![s] = reader.config.target]
      /\ open' = open \cup {s}
      /\ reader' = At("insert", s)
      /\ reader'.pc = "insert" /\ reader'.session = s /\ reader'.client = reader.client
      /\ reader'.config = reader.config /\ reader.pc = "dial"
      /\ UNCHANGED <<config, closed, socket, sessions, active, once, loop, manager, todo, updates>>
  BY DEF Dial, At
<1>4. Typed
  BY DEF IInv
<1>5. Made' = Made \cup {s}
  BY <1>2, <1>3, <1>4 DEF Made, Typed
<1>6. \A c \in Clients : sessions[c] # s
  BY <1>1, Found, Finite, NoneAssumption DEF Ids
<1>7. InMap' = InMap
  BY <1>1, <1>2, <1>3, <1>4, <1>5, <1>6 DEF InMap, Typed, Made
<1>8. Typed'
  <2>1. reader' \in Reader
    BY <1>2, <1>3 DEF Reader, At
  <2>2. reader.config.target \in Targets
    BY <1>2 DEF Targets
  <2> QED
    BY <1>2, <1>3, <1>4, <2>1, <2>2 DEF Typed
<1>9. HandsOK'
  BY <1>1, <1>2, <1>3, <1>4, <1>5 DEF HandsOK, Typed
<1>10. NumbersOK'
  <2>1. Cardinality(Made') = n + 1
    BY <1>1, <1>5, Finite, FS_AddElement
  <2>2. Made' = 1 .. n + 1
    BY <1>0, <1>5
  <2>3. \A r \in Ids \ Made' : once'[r] = "no" /\ loop'[r] = "none" /\ r \notin open'
    BY <1>3, <1>5 DEF IInv, NumbersOK
  <2> QED
    BY <2>1, <2>2, <2>3 DEF NumbersOK
<1>11. MapOK'
  BY <1>3, <1>4, <1>6 DEF IInv, MapOK, Typed
<1>12. OnceOK'
  <2>1. s \notin InMap
    BY <1>1, Finite
  <2> QED
    BY <1>1, <1>3, <1>5, <1>7, <2>1 DEF IInv, OnceOK
<1>13. CountOK'
  BY <1>3, <1>7 DEF IInv, CountOK
<1>14. LateOK'
  <2>1. Stale' <=> Stale
    BY <1>3 DEF Stale
  <2>2. \A r \in InMap : target'[r] = target[r]
    BY <1>1, <1>3, <1>4, Finite DEF Typed
  <2>3. Late' = Late
    BY <1>3, <1>7, <2>2 DEF Late
  <2> QED
    BY <1>3, <1>5, <2>1, <2>3 DEF IInv, LateOK
<1>15. DoneOK'
  BY <1>3 DEF IInv, DoneOK
<1> QED
  BY <1>8, <1>9, <1>10, <1>11, <1>12, <1>13, <1>14, <1>15 DEF IInv

\* The second stretch of sessionFor, when it adds the session.
LEMMA AddKeeps ==
  ASSUME IInv, reader.pc = "insert", ~closed, sessions[reader.client] = None, Insert
  PROVE  IInv'
<1> DEFINE s == reader.session
           c == reader.client
<1>1. /\ c \in Clients /\ s \in Made /\ s \in Ids /\ client[s] = c /\ s # None
      /\ target[s] = reader.config.target /\ once[s] = "no" /\ loop[s] = "none"
      /\ reader.config \in Configs /\ s \in open
  <2>1. s \in Made /\ s \in Ids
    BY Finite DEF IInv, HandsOK
  <2>2. s # None
    BY <2>1, NoneAssumption, BoundsAssumption DEF Ids
  <2> QED
    BY <2>1, <2>2 DEF IInv, HandsOK
<1>2. /\ sessions' = [sessions EXCEPT ![c] = s]
      /\ active' = active + 1
      /\ loop' = [loop EXCEPT ![s] = "run"]
      /\ reader' = At("write", s)
      /\ UNCHANGED <<config, closed, socket, client, target, open, once, manager, todo, updates>>
  BY DEF Insert, Add
<1>3. Typed
  BY DEF IInv
<1>4. s \notin InMap
  BY <1>1 DEF InMap
<1>5. Made' = Made
  BY <1>2 DEF Made
<1>6. InMap' = InMap \cup {s}
  <2>1. \A r \in Made : sessions'[client[r]] = r <=> sessions[client[r]] = r \/ r = s
    <3> SUFFICES ASSUME NEW r \in Made
                 PROVE  sessions'[client[r]] = r <=> sessions[client[r]] = r \/ r = s
      OBVIOUS
    <3>1. r \in Ids /\ client[r] \in Clients /\ r # None
      BY <1>3, Finite, NoneAssumption, BoundsAssumption DEF Typed, Made, Ids
    <3> QED
      BY <1>1, <1>2, <1>3, <3>1 DEF Typed
  <2> QED
    BY <1>1, <1>2, <1>5, <2>1 DEF InMap
<1>7. reader'.pc = "write" /\ reader'.client = c /\ reader'.config = reader.config
      /\ reader'.session = s /\ reader' \in Reader
  BY <1>1, <1>2 DEF At, Reader
<1>8. Typed'
  BY <1>1, <1>2, <1>3, <1>7 DEF Typed
<1>9. HandsOK'
  BY <1>1, <1>5, <1>7 DEF HandsOK
<1>10. NumbersOK'
  BY <1>1, <1>2, <1>5 DEF IInv, NumbersOK
<1>11. MapOK'
  BY <1>1, <1>2, <1>3 DEF IInv, MapOK, Typed
<1>12. OnceOK'
  BY <1>1, <1>2, <1>3, <1>5, <1>6, <1>7 DEF IInv, OnceOK, Typed
<1>13. CountOK'
  BY <1>2, <1>4, <1>6, Finite, FS_AddElement DEF IInv, CountOK
<1>14. LateOK'
  <2>1. ~Stale'
    BY <1>7 DEF Stale
  <2>2. target[s] # config.target => Stale
    BY <1>1 DEF Stale
  <2>3. s \notin todo
    BY <1>1 DEF IInv, LateOK
  <2>4. Late' = IF target[s] # config.target THEN Late \cup {s} ELSE Late
    BY <1>2, <1>6, <2>3 DEF Late
  <2>5. \A r \in todo' : r \in Made' /\ loop'[r] # "none"
    BY <1>2, <1>3, <1>5, <2>3 DEF IInv, LateOK, Typed
  <2> QED
    BY <1>2, <2>1, <2>2, <2>4, <2>5 DEF IInv, LateOK
<1>15. DoneOK'
  BY <1>2 DEF IInv, DoneOK
<1> QED
  BY <1>8, <1>9, <1>10, <1>11, <1>12, <1>13, <1>14, <1>15 DEF IInv

\* The second stretch of sessionFor, when the new socket is not wanted any more.
LEMMA RejectKeeps ==
  ASSUME IInv, reader.pc = "insert", closed \/ sessions[reader.client] # None, Insert
  PROVE  IInv'
<1> DEFINE s == reader.session
           existing == sessions[reader.client]
<1>1. /\ reader.client \in Clients /\ s \in Made /\ s \in Ids /\ reader.config \in Configs
      /\ client[s] = reader.client /\ once[s] = "no" /\ loop[s] = "none"
  BY Finite DEF IInv, HandsOK
<1>2. /\ open' = open \ {s}
      /\ once' = [once EXCEPT ![s] = "done"]
      /\ loop' = [loop EXCEPT ![s] = "ended"]
      /\ reader' = IF closed THEN Idle ELSE At("write", existing)
      /\ UNCHANGED <<config, closed, socket, sessions, active, client, target, manager, todo,
                     updates>>
  BY DEF Insert
<1>3. Typed
  BY DEF IInv
<1>4. InMap' = InMap /\ Made' = Made
  BY <1>2, SameSets
<1>5. s \notin InMap
  BY <1>1 DEF IInv, OnceOK
<1>6. ~closed => existing \in Made /\ existing \in Ids
  BY <1>1, Found, Finite
<1>7. reader' \in Reader /\ reader'.pc \in {"read", "write"}
  BY <1>1, <1>2, <1>6 DEF Reader, At, Idle, Without
<1>8. Typed'
  BY <1>1, <1>2, <1>3, <1>7 DEF Typed
<1>9. HandsOK'
  BY <1>1, <1>2, <1>4, <1>6 DEF HandsOK, At, Idle, Without
<1>10. NumbersOK'
  BY <1>1, <1>2, <1>3, <1>4 DEF IInv, NumbersOK, Typed
<1>11. MapOK' /\ CountOK'
  BY <1>2, <1>4 DEF IInv, MapOK, CountOK
<1>12. OnceOK'
  <2> SUFFICES ASSUME NEW r \in Made
               PROVE  /\ once'[r] # "no" => r \notin open'
                      /\ once'[r] = "done" => r \notin InMap
                      /\ r \in InMap => loop'[r] # "none"
                      /\ r \in InMap /\ r \notin open' => once'[r] # "no"
                      /\ r \in open' => r \in InMap
                      /\ loop'[r] = "ended" => r \notin open' /\ r \notin InMap
    BY <1>4 DEF OnceOK
  <2>1. CASE r = s
    BY <1>1, <1>2, <1>3, <1>5, <2>1 DEF Typed
  <2>2. CASE r # s
    BY <1>2, <1>3, <2>2, Finite DEF IInv, OnceOK, Typed
  <2> QED
    BY <2>1, <2>2
<1>13. LateOK'
  <2>1. ~Stale' /\ Late' = Late
    BY <1>2, <1>4, <1>7 DEF Stale, Late
  <2>2. \A r \in todo' : r \in Made' /\ loop'[r] # "none"
    BY <1>2, <1>3, <1>4 DEF IInv, LateOK, Typed
  <2> QED
    BY <1>2, <2>1, <2>2 DEF IInv, LateOK
<1>14. DoneOK'
  BY <1>2 DEF IInv, DoneOK
<1> QED
  BY <1>8, <1>9, <1>10, <1>11, <1>12, <1>13, <1>14 DEF IInv

\* session.close, by whichever goroutine, for a session that has been added or
\* given up.
LEMMA SessionCloseKeeps ==
  ASSUME IInv, NEW s \in Made, NEW who \in {"reader", "loop", "manager"},
         ~(reader.pc = "insert" /\ reader.session = s),
         SessionClose(s, who),
         UNCHANGED <<config, closed, socket, client, target, loop, reader, manager, todo, updates>>
  PROVE  IInv'
<1>1. s \in Ids /\ client[s] \in Clients /\ s # None
  BY Finite, NoneAssumption, BoundsAssumption DEF IInv, Typed, Made, Ids
<1>2. Typed /\ Made' = Made
  BY DEF IInv, Made
<1>3. CASE BeginSessionClose(s, who)
  <2>1. /\ once[s] = "no" /\ once' = [once EXCEPT ![s] = who]
        /\ open' = open \ {s}
        /\ UNCHANGED <<sessions, active>>
    BY <1>3 DEF BeginSessionClose
  <2>2. InMap' = InMap
    BY <2>1, SameSets
  <2>3. Typed' /\ HandsOK'
    BY <1>1, <1>2, <2>1 DEF IInv, Typed, HandsOK
  <2>4. NumbersOK' /\ MapOK' /\ CountOK' /\ DoneOK'
    BY <1>2, <2>1, <2>2 DEF IInv, NumbersOK, MapOK, CountOK, DoneOK, Typed
  <2>5. OnceOK'
    BY <1>2, <2>1, <2>2, Finite DEF IInv, OnceOK, Typed
  <2>6. LateOK'
    BY <1>2, <2>1, <2>2 DEF IInv, LateOK, Late, Stale
  <2> QED
    BY <2>3, <2>4, <2>5, <2>6 DEF IInv
<1>4. CASE EndSessionClose(s, who)
  <2>1. /\ once[s] = who /\ once' = [once EXCEPT ![s] = "done"] /\ open' = open
        /\ s \notin InMap => UNCHANGED <<sessions, active>>
        /\ s \in InMap => /\ sessions' = [sessions EXCEPT ![client[s]] = None]
                          /\ active' = active - 1
    BY <1>4 DEF EndSessionClose
  <2>2. s \notin open
    BY <2>1 DEF IInv, OnceOK
  <2>3. InMap' = InMap \ {s}
    <3>1. CASE s \notin InMap
      BY <2>1, <3>1, SameSets
    <3>2. CASE s \in InMap
      <4>1. \A r \in Made : sessions'[client[r]] = r <=> sessions[client[r]] = r /\ r # s
        <5> SUFFICES ASSUME NEW r \in Made
                     PROVE  sessions'[client[r]] = r <=> sessions[client[r]] = r /\ r # s
          OBVIOUS
        <5>1. r \in Ids /\ client[r] \in Clients /\ r # None
          BY <1>2, Finite, NoneAssumption, BoundsAssumption DEF Typed, Made, Ids
        <5>2. sessions[client[s]] = s
          BY <3>2 DEF InMap
        <5> QED
          BY <1>1, <1>2, <2>1, <3>2, <5>1, <5>2 DEF Typed
      <4> QED
        BY <1>2, <4>1 DEF InMap
    <3> QED
      BY <3>1, <3>2
  <2>4. active' = Cardinality(InMap') /\ active' \in Nat
    <3>1. CASE s \notin InMap
      BY <2>1, <2>3, <3>1, Finite DEF IInv, CountOK
    <3>2. CASE s \in InMap
      <4>1. Cardinality(InMap \ {s}) = Cardinality(InMap) - 1 /\ IsFiniteSet(InMap \ {s})
        BY <3>2, Finite, FS_RemoveElement
      <4>2. Cardinality(InMap \ {s}) \in Nat
        BY <4>1, FS_CardinalityType
      <4> QED
        BY <2>1, <2>3, <3>2, <4>1, <4>2 DEF IInv, CountOK
    <3> QED
      BY <3>1, <3>2
  <2>5. sessions' \in [Clients -> Ids \cup {None}]
    BY <1>1, <1>2, <2>1 DEF Typed
  <2>6. Typed' /\ HandsOK'
    BY <1>1, <1>2, <2>1, <2>4, <2>5 DEF IInv, Typed, HandsOK
  <2>7. NumbersOK' /\ CountOK' /\ DoneOK'
    BY <1>2, <2>1, <2>4 DEF IInv, NumbersOK, CountOK, DoneOK, Typed
  <2>8. MapOK'
    BY <1>1, <1>2, <2>1 DEF IInv, MapOK, Typed
  <2>9. OnceOK'
    BY <1>2, <2>1, <2>2, <2>3, Finite DEF IInv, OnceOK, Typed
  <2>10. LateOK'
    <3>1. Late' \subseteq Late /\ Stale' = Stale
      BY <2>3 DEF Late, Stale
    <3> QED
      BY <1>2, <3>1 DEF IInv, LateOK
  <2> QED
    BY <2>6, <2>7, <2>8, <2>9, <2>10 DEF IInv
<1> QED
  BY <1>3, <1>4 DEF SessionClose

LEMMA LoopsKeep ==
  ASSUME IInv, NEW s \in Ids, Loops(s)
  PROVE  IInv'
<1>1. s \in Made /\ ~(reader.pc = "insert" /\ reader.session = s)
  BY DEF IInv, NumbersOK, HandsOK, Loops, LoopStops, LoopCloses
<1>2. CASE LoopCloses(s) /\ SessionClose(s, "loop") /\ UNCHANGED loop
  BY <1>1, <1>2, SessionCloseKeeps DEF LoopCloses
<1>3. CASE \/ LoopStops(s)
           \/ /\ loop[s] = "close" /\ once[s] = "done" /\ loop' = [loop EXCEPT ![s] = "ended"]
              /\ UNCHANGED <<config, closed, socket, sessions, active, client, target, open, once,
                             reader, manager, todo, updates>>
  <2>1. /\ loop[s] \in {"run", "close"}
        /\ \/ loop' = [loop EXCEPT ![s] = "close"]
           \/ once[s] = "done" /\ loop' = [loop EXCEPT ![s] = "ended"]
        /\ UNCHANGED <<config, closed, socket, sessions, active, client, target, open, once,
                       reader, manager, todo, updates>>
    BY <1>3 DEF LoopStops
  <2>2. InMap' = InMap /\ Made' = Made
    BY <2>1, SameSets
  <2>3. Typed' /\ HandsOK'
    BY <1>1, <2>1, <2>2 DEF IInv, Typed, HandsOK
  <2>4. NumbersOK' /\ MapOK' /\ CountOK'
    BY <1>1, <2>1, <2>2 DEF IInv, NumbersOK, MapOK, CountOK, Typed
  <2>5. OnceOK'
    BY <1>1, <2>1, <2>2, Finite DEF IInv, OnceOK, Typed
  <2>6. LateOK'
    <3>1. Late' = Late /\ Stale' = Stale
      BY <2>1, <2>2 DEF Late, Stale
    <3> QED
      BY <2>1, <2>2, <3>1 DEF IInv, LateOK, Typed
  <2>7. DoneOK'
    BY <1>1, <2>1, <2>2 DEF IInv, DoneOK
  <2> QED
    BY <2>3, <2>4, <2>5, <2>6, <2>7 DEF IInv
<1> QED
  BY <1>2, <1>3 DEF Loops, LoopCloses

LEMMA ManagerKeeps ==
  ASSUME IInv,
         \/ \E c \in Configs : Update(c)
         \/ BeginClose \/ Manages
  PROVE  IInv'
<1>1. ASSUME NEW s \in Ids, ManagerCloses(s), SessionClose(s, "manager"), UNCHANGED todo
      PROVE  IInv'
  <2>1. s \in Made /\ ~(reader.pc = "insert" /\ reader.session = s)
    BY <1>1 DEF IInv, LateOK, HandsOK, ManagerCloses
  <2> QED
    BY <1>1, <2>1, SessionCloseKeeps DEF ManagerCloses
<1>2. CASE \/ \E c \in Configs : Update(c)
           \/ BeginClose \/ CloseSocket \/ Snapshot \/ SessionsClosed \/ Waited
           \/ \E s \in Ids : /\ manager = "close" /\ once[s] = "done" /\ todo' = todo \ {s}
                             /\ s \in todo
                             /\ UNCHANGED <<config, closed, socket, sessions, active, client,
                                            target, open, once, loop, reader, manager, updates>>
  <2>1. UNCHANGED <<sessions, active, client, target, open, once, loop, reader>>
    BY <1>2 DEF Update, BeginClose, CloseSocket, Snapshot, SessionsClosed, Waited
  <2>2. InMap' = InMap /\ Made' = Made
    BY <2>1, SameSets
  <2>3. Typed'
    <3>1. ASSUME NEW c \in Configs, Update(c) PROVE Typed'
      BY <2>1, <3>1, BoundsAssumption DEF IInv, Typed, Update
    <3>2. CASE Snapshot
      BY <2>1, <3>2, Finite DEF IInv, Typed, Snapshot
    <3>3. CASE ~Snapshot /\ ~\E c \in Configs : Update(c)
      BY <1>2, <2>1, <3>3 DEF IInv, Typed, BeginClose, CloseSocket, SessionsClosed, Waited
    <3> QED
      BY <3>1, <3>2, <3>3
  <2>4. HandsOK' /\ NumbersOK' /\ MapOK' /\ OnceOK' /\ CountOK'
    BY <2>1, <2>2 DEF IInv, HandsOK, NumbersOK, MapOK, OnceOK, CountOK
  <2>5. DoneOK'
    BY <1>2, <2>1, <2>2
    DEF IInv, DoneOK, Update, BeginClose, CloseSocket, Snapshot, SessionsClosed, Waited
  <2>6. LateOK'
    <3>1. ASSUME NEW c \in Configs, Update(c) PROVE LateOK'
      BY <2>1, <2>2, <3>1 DEF Update, IInv, LateOK, Late, Stale
    <3>2. CASE BeginClose \/ CloseSocket \/ Waited
      BY <2>1, <2>2, <3>2 DEF BeginClose, CloseSocket, Waited, IInv, LateOK, Late, Stale
    <3>3. CASE Snapshot
      <4>1. Late' = {} /\ todo' = InMap /\ manager' = "close"
        BY <2>2, <3>3 DEF Snapshot, Late
      <4>2. \A s \in todo' : s \in Made' /\ loop'[s] # "none"
        BY <2>1, <2>2, <4>1, Finite DEF IInv, OnceOK
      <4> QED
        BY <4>1, <4>2 DEF LateOK
    <3>4. CASE SessionsClosed
      BY <2>1, <2>2, <3>4 DEF SessionsClosed, IInv, LateOK, Late, Stale
    <3>5. ASSUME NEW s \in Ids, manager = "close", once[s] = "done", todo' = todo \ {s}, s \in todo,
                 UNCHANGED <<config, manager>>
          PROVE  LateOK'
      <4>1. s \notin InMap
        BY <3>5 DEF IInv, LateOK, OnceOK
      <4>2. Late' = Late /\ Stale' = Stale
        BY <2>1, <2>2, <3>5, <4>1 DEF Late, Stale
      <4> QED
        BY <2>1, <2>2, <3>5, <4>2 DEF IInv, LateOK
    <3> QED
      BY <1>2, <3>1, <3>2, <3>3, <3>4, <3>5
  <2> QED
    BY <2>3, <2>4, <2>5, <2>6 DEF IInv
<1> QED
  BY <1>1, <1>2 DEF Manages, ManagerCloses

LEMMA StepIInv == IInv /\ [Next]_vars => IInv'
<1> SUFFICES ASSUME IInv, [Next]_vars PROVE IInv'
  OBVIOUS
<1>1. CASE UNCHANGED vars
  <2>1. InMap' = InMap /\ Made' = Made
    BY <1>1, SameSets DEF vars
  <2> QED
    BY <1>1, <2>1 DEF vars, IInv, Typed, HandsOK, NumbersOK, MapOK, OnceOK, CountOK, LateOK, Late,
       Stale, DoneOK
<1>2. CASE \/ \E c \in Clients : Receive(c)
           \/ ReaderEnds \/ Find \/ DialFails \/ Write
  BY <1>2, ReaderKeeps
<1>3. CASE ReaderCloses
  <2>1. reader.session \in Made /\ reader.pc = "close"
    BY <1>3 DEF ReaderCloses, IInv, HandsOK
  <2>2. CASE SessionClose(reader.session, "reader") /\ UNCHANGED reader
    BY <1>3, <2>1, <2>2, SessionCloseKeeps DEF ReaderCloses
  <2>3. CASE reader' = Idle /\ UNCHANGED <<sessions, active, open, once>>
    BY <1>3, <2>1, <2>3, ReaderKeeps DEF ReaderCloses
  <2> QED
    BY <1>3, <2>2, <2>3 DEF ReaderCloses
<1>4. CASE \E s \in Ids : Dial(s)
  BY <1>4, DialKeeps
<1>5. CASE Insert
  <2>1. reader.pc = "insert" /\ closed \in BOOLEAN
    BY <1>5 DEF Insert, IInv, Typed
  <2> QED
    BY <1>5, <2>1, AddKeeps, RejectKeeps
<1>6. CASE \E s \in Ids : Loops(s)
  BY <1>6, LoopsKeep
<1>7. CASE (\E c \in Configs : Update(c)) \/ BeginClose \/ Manages
  BY <1>7, ManagerKeeps
<1> QED
  BY <1>1, <1>2, <1>3, <1>4, <1>5, <1>6, <1>7 DEF Next, Reads

--------------------------------------------------------------------------------
(***************************************************************************)
(* The theorems.                                                           *)
(***************************************************************************)

\* Every client has one session at most.
LEMMA CounterBounded == IInv => active \in 0 .. Cardinality(Clients)
<1> SUFFICES ASSUME IInv PROVE Cardinality(InMap) <= Cardinality(Clients)
  <2>1. Cardinality(Clients) \in Nat
    BY ClientsAssumption, FS_CardinalityType
  <2> QED
    BY <2>1, Finite DEF IInv, CountOK
<1> DEFINE owner == [s \in InMap |-> client[s]]
<1>1. owner \in [InMap -> Clients]
  BY Finite DEF IInv, Typed, InMap, Made
<1>2. \A r, s \in InMap : owner[r] = owner[s] => r = s
  BY DEF InMap
<1>3. owner \in Injection(InMap, Clients)
  BY <1>1, <1>2 DEF Injection, IsInjective
<1> QED
  BY <1>3, ClientsAssumption, Finite, FS_Injection DEF ExistsInjection

\* Sessions, sockets and the counter agree although a session is closed by the
\* read loop, its own loop and the manager at once, and sessionFor gives up the
\* mutex during a dial (internal/forward/udp.go), for any number of clients.
THEOREM SessionsAgree == Spec => []SessionsAccounted
<1>1. ASSUME IInv PROVE SessionsAccounted
  <2>1. TypeOK
    BY <1>1, CounterBounded DEF IInv, Typed, TypeOK
  <2>2. \A c \in Clients : sessions[c] # None => client[sessions[c]] = c
    BY <1>1 DEF IInv, MapOK
  <2>3. ASSUME NEW s \in InMap, s \notin open PROVE once[s] \in {"reader", "loop", "manager"}
    BY <1>1, <2>3, Finite DEF IInv, OnceOK, Typed
  <2> QED
    BY <1>1, <2>1, <2>2, <2>3 DEF IInv, CountOK, OnceOK, SessionsAccounted
<1> QED
  BY <1>1, InitIInv, StepIInv, PTL DEF Spec

\* Once update has returned at most one client is forwarded to another target, the
\* one whose datagram the read loop had taken before the configuration was stored:
\* closeSessions finds every other session (internal/forward/udp.go).
THEOREM NewTargetReaches == Spec => []AtMostOneBehind
<1>1. ASSUME IInv, manager = "idle"
      PROVE  Cardinality({s \in InMap : target[s] # config.target}) <= 1
  <2> DEFINE B == {s \in InMap : target[s] # config.target}
  <2>1. Late = B /\ \A r, s \in Late : r = s
    BY <1>1 DEF IInv, LateOK, Late
  <2>2. CASE B = {}
    <3>1. Cardinality({}) = 0
      BY FS_EmptySet
    <3> QED
      BY <2>2, <3>1
  <2>3. CASE B # {}
    <3>1. PICK s \in B : B = {s}
      BY <2>1, <2>3
    <3>2. Cardinality({s}) = 1
      BY FS_Singleton
    <3> QED
      BY <3>1, <3>2
  <2> QED
    BY <2>2, <2>3
<1>2. IInv => AtMostOneBehind
  BY <1>1 DEF AtMostOneBehind
<1> QED
  BY <1>2, InitIInv, StepIInv, PTL DEF Spec

\* Nothing of the forwarder is left when close has returned: no session, no socket,
\* no count, no goroutine.  That close returns is CloseReturns, which needs fairness.
THEOREM ClosedLeavesNothing ==
  Spec => [](manager = "done" =>
               /\ reader.pc = "ended" /\ open = {} /\ active = 0
               /\ \A s \in Made : loop[s] = "ended")
<1>1. ASSUME IInv, manager = "done"
      PROVE  reader.pc = "ended" /\ open = {} /\ active = 0 /\ \A s \in Made : loop[s] = "ended"
  <2>1. reader.pc = "ended" /\ \A s \in Made : loop[s] = "ended"
    BY <1>1 DEF IInv, DoneOK
  <2>2. open = {}
    BY <1>1, <2>1 DEF IInv, Typed, NumbersOK, OnceOK
  <2>3. InMap = {}
    BY <1>1, <2>1, Finite DEF IInv, OnceOK
  <2>4. active = 0
    BY <1>1, <2>3, FS_EmptySet DEF IInv, CountOK
  <2> QED
    BY <2>1, <2>2, <2>4
<1> QED
  BY <1>1, InitIInv, StepIInv, PTL DEF Spec
================================================================================
