----------------------------- MODULE ConfigSyncProofs -----------------------------
(***************************************************************************)
(* Theorems about ConfigSync, for any configurations, contested listeners  *)
(* and number of heartbeats, restores and crashes: what is reported as     *)
(* applied is on disk, and, as long as the database has not been put back, *)
(* what is reported and what is shown is what runs.                        *)
(***************************************************************************)
EXTENDS ConfigSync, FiniteSetTheorems, TLAPS

--------------------------------------------------------------------------------
(***************************************************************************)
(* The inductive invariant.                                                *)
(***************************************************************************)

Requesting == phase \in {"fetching", "applied"}

\* What the agent holds at each place of synchronize.
Holding ==
  /\ \A first, second \in Awaited : first = second
  /\ phase \in {"down", "idle"} => reply = None
  /\ Requesting => reply # None
  /\ phase = "applied" => /\ fetch.version # None /\ fetch.version > current.version
                          /\ fetch.rules # None /\ fetch.rules = running

\* The file and Run's config are the same while the agent is up, and no report
\* is ahead of the file, not even one that a backup keeps.
Durable ==
  /\ phase # "down" => current = disk
  /\ shown.applied <= disk.version
  /\ \A request \in requests : request.applied <= disk.version
  /\ backup # None => backup.shown.applied <= disk.version

\* Until the database is put back: a configuration with the store's version has
\* the store's rules, in the file and in the agent's hands, though its rules were
\* read after its version; and versions only grow from the file to the answer, to
\* what is fetched and to the store.
Matching ==
  /\ disk.version <= version
  /\ disk.version = version => disk.rules = rules
  /\ reply # None => disk.version <= reply /\ reply <= version
  /\ fetch.version # None => reply <= fetch.version /\ fetch.version <= version
  /\ fetch.rules # None => fetch.version # None
  /\ fetch.rules # None /\ fetch.version = version => fetch.rules = rules
  /\ Requesting => current.version < reply

\* Until the database is put back: rules that are not those of the agent's
\* configuration are reported as a failure, and the store has a newer version,
\* so no answer will make the agent believe that it is up to date.
OutOfStep ==
  phase \in {"idle", "sent", "fetching"} /\ running # current.rules =>
    /\ failed
    /\ current.version < version
    /\ reply # None => current.version < reply

IInv == TypeOK /\ Holding /\ Durable /\ (restores = 0 => Matching /\ OutOfStep)

--------------------------------------------------------------------------------
(***************************************************************************)
(* The invariant is inductive.                                             *)
(***************************************************************************)

LEMMA AtMostOneElement ==
  ASSUME NEW S, \A first, second \in S : first = second
  PROVE  Cardinality(S) <= 1
<1>1. CASE S = {}
  BY <1>1, FS_EmptySet
<1>2. CASE S # {}
  <2>1. PICK x \in S : TRUE
    BY <1>2
  <2>2. S = {x}
    BY <2>1
  <2> QED
    BY <2>2, FS_Singleton
<1> QED
  BY <1>1, <1>2

LEMMA NoRulesIsAMap == NoRules \in RuleMaps
BY ConfigsAssumption

LEMMA AbandonedRequests ==
  ASSUME requests \subseteq Heartbeat
  PROVE  /\ Abandoned \subseteq Heartbeat
         /\ \A request \in Abandoned : request.awaited = FALSE
         /\ \A request \in Abandoned : \E other \in requests : request.applied = other.applied
<1>1. ASSUME NEW request \in Abandoned
      PROVE  /\ request \in Heartbeat /\ request.awaited = FALSE
             /\ \E other \in requests : request.applied = other.applied
  <2>1. PICK other \in requests :
          request = [applied |-> other.applied, attempted |-> other.attempted,
                     failed |-> other.failed, awaited |-> FALSE]
    BY <1>1 DEF Abandoned
  <2>2. other.applied \in Nat /\ other.attempted \in Nat /\ other.failed \in BOOLEAN
    BY DEF Heartbeat
  <2> QED
    BY <2>1, <2>2 DEF Heartbeat
<1> QED
  BY <1>1

LEMMA InitIInv == Init => IInv
<1> SUFFICES ASSUME Init PROVE IInv
  OBVIOUS
<1>1. Awaited = {} /\ Cardinality(Awaited) <= 1
  BY FS_EmptySet DEF Init, Awaited
<1>2. restores \in 0 .. MaxRestores
  BY BoundsAssumption DEF Init
<1>3. First \in Config
  BY NoRulesIsAMap DEF First, Config
<1>4. shown \in Shown
  BY DEF Init, Shown
<1>5. NoFetch \in [version : Nat \cup {None}, rules : RuleMaps \cup {None}]
  BY DEF NoFetch
<1>6. TypeOK
  BY <1>1, <1>2, <1>3, <1>4, <1>5, NoRulesIsAMap DEF Init, TypeOK
<1>7. Holding
  BY <1>1 DEF Init, Holding, Requesting
<1>8. Durable
  BY DEF Init, Durable, First
<1>9. Matching /\ OutOfStep
  BY DEF Init, Matching, OutOfStep, Requesting, First, NoFetch
<1> QED
  BY <1>6, <1>7, <1>8, <1>9 DEF IInv

\* The heartbeat that is waited for: there is at most one, and only in one place.
LEMMA AwaitedStep ==
  ASSUME IInv, Next
  PROVE  /\ requests' \subseteq Heartbeat
         /\ Awaited' # {} => phase' = "sent" /\ reply' = None
         /\ \A first, second \in Awaited' : first = second
<1> DEFINE Same == /\ requests' \subseteq requests
                   /\ phase' = phase \/ Awaited = {}
                   /\ reply' = reply \/ Awaited' = {}
           Goal == /\ requests' \subseteq Heartbeat
                   /\ Awaited' # {} => phase' = "sent" /\ reply' = None
                   /\ \A first, second \in Awaited' : first = second
<1>0. TypeOK /\ Holding
  BY DEF IInv
<1>1. ASSUME Same PROVE Goal
  BY <1>0, <1>1 DEF TypeOK, Holding, Awaited
<1>2. CASE \/ \E map \in Configs : Change(map)
           \/ Backup \/ Restore \/ Start
           \/ \E part \in {"version", "rules"} : Read(part)
           \/ \E listener \in Contested : Grab(listener) \/ Release(listener)
  <2>1. requests' = requests /\ reply' = reply
    BY <1>2 DEF Change, Backup, Restore, Start, Read, Grab, Release
  <2>2. phase' = phase \/ phase = "down"
    BY <1>2 DEF Change, Backup, Restore, Start, Read, Grab, Release, agentVars
  <2> QED
    BY <1>0, <1>1, <2>1, <2>2 DEF TypeOK
<1>3. CASE Crash \/ GiveUpHeartbeat
  <2>1. requests' = Abandoned
    BY <1>3 DEF Crash, GiveUpHeartbeat
  <2>2. Awaited' = {}
    BY <1>0, <2>1, AbandonedRequests DEF TypeOK, Awaited
  <2> QED
    BY <1>0, <2>1, <2>2, AbandonedRequests DEF TypeOK
<1>4. CASE SendHeartbeat
  <2>1. requests' = requests \cup {Report} /\ phase = "idle" /\ phase' = "sent" /\ reply' = reply
    BY <1>4 DEF SendHeartbeat
  <2>2. Report \in Heartbeat
    BY <1>0 DEF TypeOK, Report, Heartbeat, Config
  <2>3. Awaited = {} /\ reply = None
    BY <1>0, <2>1 DEF TypeOK, Holding
  <2>4. Awaited' \subseteq {Report}
    BY <2>1, <2>3 DEF Awaited
  <2> QED
    BY <1>0, <2>1, <2>2, <2>3, <2>4 DEF TypeOK
<1>5. ASSUME NEW request \in requests, ServeHeartbeat(request) PROVE Goal
  <2>1. requests' = requests \ {request} /\ phase' = phase
    BY <1>5 DEF ServeHeartbeat, agentVars
  <2>2. CASE request.awaited
    <3>1. Awaited' = {}
      BY <1>0, <2>1, <2>2 DEF Awaited, Holding
    <3> QED
      BY <1>0, <2>1, <3>1 DEF TypeOK
  <2>3. CASE ~request.awaited
    BY <1>1, <1>5, <2>1, <2>3 DEF ServeHeartbeat
  <2> QED
    BY <2>2, <2>3
<1>6. ASSUME NEW request \in requests, LoseHeartbeat(request) PROVE Goal
  BY <1>1, <1>6 DEF LoseHeartbeat, agentVars
<1>7. CASE ReceiveReply \/ FetchFails \/ RefuseOld \/ ApplyFails \/ ApplyNew \/ Save \/ SaveFails
  <2>1. requests' = requests
    BY <1>7 DEF ReceiveReply, FetchFails, RefuseOld, ApplyFails, ApplyNew, Save, SaveFails
  <2>2. Awaited = {}
    BY <1>0, <1>7 DEF ReceiveReply, FetchFails, RefuseOld, ApplyFails, ApplyNew, Save, SaveFails,
       Fetched, TypeOK
  <2>3. Awaited' = {}
    BY <2>1, <2>2 DEF Awaited
  <2> QED
    BY <1>0, <2>1, <2>3 DEF TypeOK
<1> QED
  BY <1>2, <1>3, <1>4, <1>5, <1>6, <1>7 DEF Next

LEMMA TypeStep ==
  ASSUME IInv, Next
  PROVE  TypeOK'
<1>0. TypeOK /\ Holding
  BY DEF IInv
<1>1. /\ requests' \subseteq Heartbeat
      /\ Awaited' # {} => phase' = "sent" /\ reply' = None
      /\ Cardinality(Awaited') <= 1
  BY AwaitedStep, AtMostOneElement
<1>2. NoFetch \in [version : Nat \cup {None}, rules : RuleMaps \cup {None}]
  BY DEF NoFetch
<1>3. CASE (\E map \in Configs : Change(map)) \/ Backup \/ Restore
  <2>1. agentVars' = agentVars /\ reply' = reply /\ fetch' = fetch /\ held' = held
    BY <1>3 DEF Change, Backup, Restore
  <2>2. /\ version' \in Nat /\ rules' \in RuleMaps /\ shown' \in Shown
        /\ backup' \in [version : Nat, rules : RuleMaps, shown : Shown] \cup {None}
        /\ restores' \in 0 .. MaxRestores
    <3>1. CASE \E map \in Configs : Change(map)
      BY <1>0, <3>1, ConfigsAssumption DEF Change, TypeOK
    <3>2. CASE Backup
      BY <1>0, <3>2 DEF Backup, TypeOK
    <3>3. CASE Restore
      BY <1>0, <3>3, BoundsAssumption DEF Restore, TypeOK
    <3> QED
      BY <1>3, <3>1, <3>2, <3>3
  <2> QED
    BY <1>0, <1>1, <2>1, <2>2 DEF TypeOK, agentVars
<1>4. CASE Start \/ Crash \/ SendHeartbeat \/ GiveUpHeartbeat
  <2>1. disk.rules \in RuleMaps
    BY <1>0 DEF TypeOK, Config
  <2>2. CASE Start
    BY <1>0, <1>1, <2>1, <2>2 DEF Start, TypeOK, storeVars
  <2>3. CASE Crash
    BY <1>0, <1>1, <1>2, <2>3, NoRulesIsAMap DEF Crash, TypeOK, storeVars
  <2>4. CASE SendHeartbeat
    BY <1>0, <1>1, <2>4 DEF SendHeartbeat, TypeOK, storeVars
  <2>5. CASE GiveUpHeartbeat
    BY <1>0, <1>1, <2>5 DEF GiveUpHeartbeat, TypeOK, storeVars
  <2> QED
    BY <1>4, <2>2, <2>3, <2>4, <2>5
<1>5. ASSUME NEW request \in requests, ServeHeartbeat(request) \/ LoseHeartbeat(request)
      PROVE  TypeOK'
  <2>1. CASE ServeHeartbeat(request)
    <3>1. request \in Heartbeat /\ version \in Nat
      BY <1>0 DEF TypeOK
    <3>2. shown' \in Shown
      BY <2>1, <3>1 DEF ServeHeartbeat, Heartbeat, Shown, AtMost
    <3>3. reply' \in Nat \cup {None}
      BY <1>0, <2>1 DEF ServeHeartbeat, TypeOK
    <3> QED
      BY <1>0, <1>1, <2>1, <3>2, <3>3 DEF ServeHeartbeat, TypeOK, agentVars
  <2>2. CASE LoseHeartbeat(request)
    BY <1>0, <1>1, <2>2 DEF LoseHeartbeat, TypeOK, storeVars, agentVars
  <2> QED
    BY <1>5, <2>1, <2>2
<1>6. ASSUME NEW part \in {"version", "rules"}, Read(part) PROVE TypeOK'
  <2>1. fetch' \in [version : Nat \cup {None}, rules : RuleMaps \cup {None}]
    BY <1>0, <1>6 DEF Read, TypeOK
  <2> QED
    BY <1>0, <1>1, <1>6, <2>1 DEF Read, TypeOK, storeVars, agentVars
<1>7. CASE ReceiveReply
  BY <1>0, <1>1, <1>2, <1>7 DEF ReceiveReply, Return, TypeOK, Config, storeVars
<1>8. CASE FetchFails \/ RefuseOld \/ ApplyFails
  <2>1. attempted' \in Nat /\ failed' \in BOOLEAN
    <3>1. CASE FetchFails
      BY <1>0, <3>1 DEF FetchFails, Return, Holding, Requesting, TypeOK
    <3>2. CASE RefuseOld
      <4>1. fetch.version \in Nat /\ current.version \in Nat
        BY <1>0, <3>2 DEF RefuseOld, Fetched, TypeOK, Config
      <4>2. (fetch.version < current.version) \in BOOLEAN
        BY <4>1
      <4> QED
        BY <3>2, <4>1, <4>2 DEF RefuseOld, Return
    <3>3. CASE ApplyFails
      BY <1>0, <3>3 DEF ApplyFails, Fetched, Return, TypeOK
    <3> QED
      BY <1>8, <3>1, <3>2, <3>3
  <2>2. reply' = None /\ fetch' = NoFetch /\ phase' = "idle" /\ UNCHANGED storeVars
        /\ UNCHANGED <<held, disk, current, running>>
    BY <1>8 DEF FetchFails, RefuseOld, ApplyFails, Return
  <2> QED
    BY <1>0, <1>1, <1>2, <2>1, <2>2 DEF TypeOK, storeVars
<1>9. CASE ApplyNew
  BY <1>0, <1>1, <1>9 DEF ApplyNew, Fetched, TypeOK, storeVars
<1>10. CASE Save \/ SaveFails
  <2>1. fetch \in Config /\ fetch.version \in Nat
    BY <1>0, <1>10 DEF Save, SaveFails, Holding, TypeOK, Config
  <2>2. current.rules \in RuleMaps
    BY <1>0 DEF TypeOK, Config
  <2> QED
    BY <1>0, <1>1, <1>2, <1>10, <2>1, <2>2 DEF Save, SaveFails, Return, TypeOK, storeVars
<1>11. ASSUME NEW listener \in Contested, Grab(listener) \/ Release(listener) PROVE TypeOK'
  BY <1>0, <1>1, <1>11 DEF Grab, Release, TypeOK, storeVars, agentVars
<1> QED
  BY <1>3, <1>4, <1>5, <1>6, <1>7, <1>8, <1>9, <1>10, <1>11 DEF Next

LEMMA HoldingStep ==
  ASSUME IInv, Next
  PROVE  Holding'
<1> USE DEF Holding, Requesting
<1>0. TypeOK /\ Holding /\ Durable
  BY DEF IInv
<1>1. \A first, second \in Awaited' : first = second
  BY AwaitedStep
<1>2. CASE \/ \E map \in Configs : Change(map)
           \/ Backup \/ Restore
           \/ \E listener \in Contested : Grab(listener) \/ Release(listener)
  <2>1. agentVars' = agentVars /\ reply' = reply /\ fetch' = fetch
    BY <1>2 DEF Change, Backup, Restore, Grab, Release
  <2> QED
    BY <1>0, <1>1, <2>1 DEF agentVars
<1>3. CASE Start \/ Crash \/ SendHeartbeat \/ GiveUpHeartbeat
  BY <1>0, <1>1, <1>3 DEF Start, Crash, SendHeartbeat, GiveUpHeartbeat
<1>4. ASSUME NEW request \in requests, ServeHeartbeat(request) \/ LoseHeartbeat(request)
      PROVE  Holding'
  <2>1. request.awaited => phase = "sent"
    BY <1>0 DEF TypeOK, Awaited
  <2> QED
    BY <1>0, <1>1, <1>4, <2>1 DEF ServeHeartbeat, LoseHeartbeat, agentVars
<1>5. ASSUME NEW part \in {"version", "rules"}, Read(part) PROVE Holding'
  BY <1>0, <1>1, <1>5 DEF Read, agentVars
<1>6. CASE ReceiveReply
  BY <1>0, <1>1, <1>6 DEF ReceiveReply, Return, TypeOK
<1>7. CASE FetchFails \/ RefuseOld \/ ApplyFails \/ Save \/ SaveFails
  BY <1>0, <1>1, <1>7 DEF FetchFails, RefuseOld, ApplyFails, Save, SaveFails, Return
<1>8. CASE ApplyNew
  BY <1>0, <1>1, <1>8 DEF ApplyNew, Fetched, Newer, TypeOK
<1> QED
  BY <1>2, <1>3, <1>4, <1>5, <1>6, <1>7, <1>8 DEF Next

LEMMA DurableStep ==
  ASSUME IInv, Next
  PROVE  Durable' /\ disk.version <= disk'.version
<1> USE DEF Durable
<1>0. TypeOK /\ Holding /\ Durable
  BY DEF IInv
<1>1. /\ version \in Nat /\ disk.version \in Nat /\ shown.applied \in Nat
      /\ \A request \in requests : request.applied \in Nat
  BY <1>0 DEF TypeOK, Config, Shown, Heartbeat
<1>2. CASE \/ \E map \in Configs : Change(map)
           \/ \E listener \in Contested : Grab(listener) \/ Release(listener)
           \/ \E part \in {"version", "rules"} : Read(part)
           \/ \E request \in requests : LoseHeartbeat(request)
  <2>1. agentVars' = agentVars /\ shown' = shown /\ backup' = backup /\ requests' \subseteq requests
    BY <1>2 DEF Change, Grab, Release, Read, LoseHeartbeat, storeVars
  <2> QED
    BY <1>0, <1>1, <2>1 DEF agentVars
<1>3. CASE Backup
  BY <1>0, <1>1, <1>3 DEF Backup, agentVars
<1>4. CASE Restore
  BY <1>0, <1>1, <1>4 DEF Restore, agentVars
<1>5. ASSUME NEW request \in requests, ServeHeartbeat(request) PROVE Durable' /\ disk.version <= disk'.version
  <2>1. shown'.applied = AtMost(request.applied, version)
    BY <1>5 DEF ServeHeartbeat
  <2>2. shown'.applied <= disk.version
    BY <1>0, <1>1, <2>1 DEF AtMost
  <2> QED
    BY <1>0, <1>1, <1>5, <2>2 DEF ServeHeartbeat, agentVars
<1>6. CASE Start
  BY <1>0, <1>1, <1>6 DEF Start, storeVars
<1>7. CASE Crash \/ GiveUpHeartbeat
  <2>1. \A request \in requests' : request.applied <= disk.version
    BY <1>0, <1>7, AbandonedRequests DEF Crash, GiveUpHeartbeat, TypeOK
  <2> QED
    BY <1>0, <1>1, <1>7, <2>1 DEF Crash, GiveUpHeartbeat, storeVars
<1>8. CASE SendHeartbeat
  <2>1. Report.applied = disk.version
    BY <1>0, <1>8 DEF SendHeartbeat, Report
  <2> QED
    BY <1>0, <1>1, <1>8, <2>1 DEF SendHeartbeat, storeVars
<1>9. CASE ReceiveReply \/ FetchFails \/ RefuseOld \/ ApplyFails \/ ApplyNew \/ SaveFails
  BY <1>0, <1>1, <1>9
  DEF ReceiveReply, FetchFails, RefuseOld, ApplyFails, ApplyNew, SaveFails, Return, Fetched, storeVars
<1>10. CASE Save
  <2>1. fetch.version \in Nat /\ disk.version < fetch.version /\ disk' = fetch
    BY <1>0, <1>1, <1>10 DEF Save, Holding, TypeOK
  <2>2. backup # None => backup.shown.applied \in Nat
    BY <1>0 DEF TypeOK, Shown
  <2>3. \A n \in Nat : n <= disk.version => n <= disk'.version
    BY <1>1, <2>1
  <2> QED
    BY <1>0, <1>1, <1>10, <2>1, <2>2, <2>3 DEF Save, storeVars
<1> QED
  BY <1>2, <1>3, <1>4, <1>5, <1>6, <1>7, <1>8, <1>9, <1>10 DEF Next

\* The restores are counted up: without one there was none before.
LEMMA NoRestore ==
  ASSUME IInv, Next, restores' = 0
  PROVE  restores = 0 /\ ~Restore
<1>1. restores \in Nat
  BY BoundsAssumption DEF IInv, TypeOK
<1>2. ~Restore
  BY <1>1 DEF Restore
<1>3. restores' = restores
  BY <1>2 DEF Next, Backup, Change, Start, Crash, SendHeartbeat, GiveUpHeartbeat, ReceiveReply,
     ServeHeartbeat, LoseHeartbeat, Read, FetchFails, RefuseOld, ApplyFails, ApplyNew, Save,
     SaveFails, Grab, Release, storeVars
<1> QED
  BY <1>2, <1>3

LEMMA MatchingStep ==
  ASSUME IInv, Next, restores' = 0
  PROVE  Matching'
<1> USE DEF Matching, Requesting
<1>0. TypeOK /\ Holding /\ Durable /\ Matching /\ ~Restore
  BY NoRestore DEF IInv
<1>1. /\ version \in Nat /\ disk.version \in Nat /\ current.version \in Nat
      /\ reply # None => reply \in Nat
      /\ fetch.version # None => fetch.version \in Nat
  BY <1>0 DEF TypeOK, Config
<1>2. ASSUME NEW map \in Configs, Change(map) PROVE Matching'
  BY <1>0, <1>1, <1>2 DEF Change, agentVars, Holding
<1>3. CASE \/ Backup
           \/ \E listener \in Contested : Grab(listener) \/ Release(listener)
           \/ \E request \in requests : LoseHeartbeat(request)
  <2>1. UNCHANGED <<version, rules, reply, fetch, agentVars>>
    BY <1>3 DEF Backup, Grab, Release, LoseHeartbeat, storeVars
  <2> QED
    BY <1>0, <2>1 DEF agentVars
<1>4. CASE Start \/ SendHeartbeat \/ ApplyNew
  BY <1>0, <1>4 DEF Start, SendHeartbeat, ApplyNew, Fetched, storeVars
<1>5. CASE Crash \/ GiveUpHeartbeat
  <2>1. fetch'.version = None /\ fetch'.rules = None
    BY <1>0, <1>5 DEF Crash, GiveUpHeartbeat, NoFetch, TypeOK
  <2> QED
    BY <1>0, <1>5, <2>1 DEF Crash, GiveUpHeartbeat, storeVars
<1>6. ASSUME NEW request \in requests, ServeHeartbeat(request) PROVE Matching'
  <2>1. request.awaited => phase = "sent" /\ fetch.version = None
    BY <1>0 DEF TypeOK, Awaited, NoFetch
  <2> QED
    BY <1>0, <1>1, <1>6, <2>1 DEF ServeHeartbeat, agentVars
<1>7. CASE ReceiveReply
  <2>1. CASE reply = current.version
    BY <1>0, <1>7, <2>1 DEF ReceiveReply, Return, NoFetch, storeVars
  <2>2. CASE reply # current.version
    BY <1>0, <1>1, <1>7, <2>2 DEF ReceiveReply, Durable, storeVars
  <2> QED
    BY <2>1, <2>2
<1>8. ASSUME NEW part \in {"version", "rules"}, Read(part) PROVE Matching'
  <2>1. UNCHANGED <<version, rules, reply, disk, current, phase>>
    BY <1>8 DEF Read, storeVars, agentVars
  <2>2. CASE fetch.version = None
    <3>1. fetch' = [version |-> version, rules |-> fetch.rules]
      BY <1>8, <2>2 DEF Read, NextRead
    <3> QED
      BY <1>0, <1>1, <1>8, <2>1, <2>2, <3>1 DEF Read, Holding
  <2>3. CASE fetch.version # None
    <3>1. fetch' = [version |-> fetch.version, rules |-> rules]
      BY <1>8, <2>3 DEF Read, NextRead
    <3> QED
      BY <1>0, <1>1, <2>1, <2>3, <3>1
  <2> QED
    BY <2>2, <2>3
<1>9. CASE FetchFails \/ RefuseOld \/ ApplyFails \/ SaveFails
  <2>1. UNCHANGED <<version, rules, disk, current>>
    BY <1>9 DEF FetchFails, RefuseOld, ApplyFails, SaveFails, storeVars
  <2>2. reply' = None /\ fetch' = NoFetch /\ phase' = "idle"
    BY <1>9 DEF FetchFails, RefuseOld, ApplyFails, SaveFails, Return
  <2> QED
    BY <1>0, <2>1, <2>2 DEF NoFetch
<1>10. CASE Save
  <2>1. fetch.version # None /\ fetch.rules # None
    BY <1>0, <1>10 DEF Save, Holding
  <2> QED
    BY <1>0, <1>10, <2>1 DEF Save, Return, NoFetch, storeVars
<1> QED
  BY <1>0, <1>2, <1>3, <1>4, <1>5, <1>6, <1>7, <1>8, <1>9, <1>10 DEF Next

LEMMA OutOfStepStep ==
  ASSUME IInv, Next, restores' = 0
  PROVE  OutOfStep'
<1> USE DEF OutOfStep
<1>0. TypeOK /\ Holding /\ Durable /\ Matching /\ OutOfStep /\ ~Restore
  BY NoRestore DEF IInv
<1>1. /\ version \in Nat /\ disk.version \in Nat /\ current.version \in Nat
      /\ reply # None => reply \in Nat
      /\ fetch.version # None => fetch.version \in Nat
  BY <1>0 DEF TypeOK, Config
<1>2. ASSUME NEW map \in Configs, Change(map) PROVE OutOfStep'
  BY <1>0, <1>1, <1>2 DEF Change, agentVars
<1>3. CASE \/ Backup
           \/ \E listener \in Contested : Grab(listener) \/ Release(listener)
           \/ \E request \in requests : LoseHeartbeat(request)
           \/ \E part \in {"version", "rules"} : Read(part)
  <2>1. UNCHANGED <<version, reply, agentVars>>
    BY <1>3 DEF Backup, Grab, Release, LoseHeartbeat, Read, storeVars
  <2> QED
    BY <1>0, <2>1 DEF agentVars
<1>4. CASE Start \/ Crash \/ SendHeartbeat \/ GiveUpHeartbeat \/ ApplyNew
  BY <1>0, <1>4 DEF Start, Crash, SendHeartbeat, GiveUpHeartbeat, ApplyNew, storeVars
<1>5. ASSUME NEW request \in requests, ServeHeartbeat(request) PROVE OutOfStep'
  BY <1>0, <1>5 DEF ServeHeartbeat, agentVars
\* An answer with the agent's version comes only when its rules run.
<1>6. CASE ReceiveReply
  <2>1. CASE reply = current.version
    <3>1. running = current.rules
      BY <1>0, <1>1, <1>6, <2>1 DEF ReceiveReply
    <3> QED
      BY <1>6, <3>1 DEF ReceiveReply
  <2>2. CASE reply # current.version
    BY <1>0, <1>6, <2>2 DEF ReceiveReply, storeVars
  <2> QED
    BY <2>1, <2>2
<1>7. CASE FetchFails \/ ApplyFails
  BY <1>0, <1>7 DEF FetchFails, ApplyFails, Fetched, Return, storeVars
\* An older configuration is not fetched unless the database was put back.
<1>8. ~RefuseOld
  BY <1>0, <1>1 DEF RefuseOld, Fetched, Newer, Matching, Requesting, Holding
<1>9. CASE Save
  BY <1>0, <1>9 DEF Save, Holding
<1>10. CASE SaveFails
  <2>1. current.version < version
    BY <1>0, <1>1, <1>10 DEF SaveFails, Holding, Matching, TypeOK
  <2> QED
    BY <1>10, <2>1 DEF SaveFails, Return, storeVars
<1> QED
  BY <1>0, <1>2, <1>3, <1>4, <1>5, <1>6, <1>7, <1>8, <1>9, <1>10 DEF Next

LEMMA StepIInv == IInv /\ [Next]_vars => IInv'
<1>1. ASSUME IInv, Next PROVE IInv'
  BY <1>1, TypeStep, HoldingStep, DurableStep, MatchingStep, OutOfStepStep DEF IInv
<1>2. ASSUME IInv, UNCHANGED vars PROVE IInv'
  <2>1. TypeOK'
    BY <1>2 DEF IInv, vars, TypeOK, Awaited
  <2>2. Holding' /\ Durable'
    BY <1>2 DEF IInv, vars, Holding, Durable, Awaited, Requesting
  <2>3. restores' = 0 => Matching' /\ OutOfStep'
    BY <1>2 DEF IInv, vars, Matching, OutOfStep, Requesting
  <2> QED
    BY <2>1, <2>2, <2>3 DEF IInv
<1> QED
  BY <1>1, <1>2

--------------------------------------------------------------------------------
(***************************************************************************)
(* The theorems.                                                           *)
(***************************************************************************)

\* Every variable keeps its type; at most one heartbeat is waited for, and only
\* while synchronize is at its call of SendHeartbeat (internal/agent/runtime.go).
THEOREM TypeCorrect == Spec => []TypeOK
<1>1. IInv => TypeOK
  BY DEF IInv
<1> QED
  BY <1>1, InitIInv, StepIInv, PTL DEF Spec

\* Nothing that was reported or shown as applied is lost with the process, whatever
\* is late, lost or put back: runtime.go saves the file before it takes over the
\* version, and reports only the version it has taken over.
THEOREM AppliedSurvives == Spec => []AppliedIsDurable
<1>1. IInv => AppliedIsDurable
  <2> SUFFICES ASSUME IInv PROVE AppliedIsDurable
    OBVIOUS
  <2>1. disk.version \in Nat
    BY DEF IInv, TypeOK, Config
  <2> QED
    BY <2>1 DEF IInv, Durable, AppliedIsDurable
<1> QED
  BY <1>1, InitIInv, StepIInv, PTL DEF Spec

\* The agent's file never goes back to an older version, not even when the store is
\* put back to a backup: the comparison of versions in synchronize comes before
\* every Save.
THEOREM FileNeverGoesBack == Spec => [][disk.version <= disk'.version]_vars
<1>1. IInv /\ [Next]_vars => [disk.version <= disk'.version]_vars
  BY DurableStep
<1> QED
  BY <1>1, InitIInv, StepIInv, PTL DEF Spec

\* Until the database is put back, an agent that reports no failure runs the rules
\* of the configuration it reports: every failure of synchronize that leaves other
\* rules running is recorded, and cleared only when the rules are in place.
THEOREM SuccessIsTrue == Spec => [](restores = 0 => NoFalseSuccess)
<1>1. IInv => (restores = 0 => NoFalseSuccess)
  BY DEF IInv, OutOfStep, NoFalseSuccess
<1> QED
  BY <1>1, InitIInv, StepIInv, PTL DEF Spec

\* Until the database is put back, a node that is shown with the current version
\* runs exactly the rules of the store, through lost, late and repeated heartbeats,
\* crashes, failing writes and answers read in two statements (ConfigForAgent).
THEOREM ShownIsTrue == Spec => [](restores = 0 => ShownIsServed)
<1>1. ASSUME IInv, restores = 0, shown.applied = version, phase # "down"
      PROVE  running = rules
  <2>0. /\ version \in Nat /\ disk.version \in Nat
        /\ reply # None => reply \in Nat
    BY <1>1 DEF IInv, TypeOK, Config
  <2>1. disk.version = version /\ current = disk /\ disk.rules = rules
    BY <1>1, <2>0 DEF IInv, Durable, Matching
  <2>2. phase # "applied"
    BY <1>1, <2>0, <2>1 DEF IInv, Matching, Holding, Requesting
  <2>3. running = current.rules
    BY <1>1, <2>0, <2>1, <2>2 DEF IInv, OutOfStep, TypeOK
  <2> QED
    BY <2>1, <2>3
<1>2. IInv => (restores = 0 => ShownIsServed)
  BY <1>1 DEF ShownIsServed
<1> QED
  BY <1>2, InitIInv, StepIInv, PTL DEF Spec

Source == INSTANCE ConfigSource WITH served <- rules, Empty <- NoRules

\* What the agent is up against is what the stores provide: when the database is
\* never put back, the version and the rules of a node here are a ConfigSource, as
\* those of every node of the store are (ServesSources of RuleStoreProofs).
THEOREM StoreIsSource ==
  ASSUME MaxRestores = 0
  PROVE  Spec => Source!Spec
<1>1. Init => Source!Init
  BY DEF Init, Source!Init
<1>2. ASSUME IInv, [Next]_vars PROVE [Source!Next]_<<version, rules>>
  <2>1. restores \in 0 .. MaxRestores
    BY <1>2 DEF IInv, TypeOK
  <2>2. ~Restore
    BY <2>1 DEF Restore
  <2>3. CASE \E map \in Configs : Change(map)
    BY <2>3 DEF Change, Source!Next
  <2>4. CASE Next /\ ~\E map \in Configs : Change(map)
    <3>1. UNCHANGED <<version, rules>>
      BY <2>2, <2>4 DEF Next, Backup, Start, Crash, SendHeartbeat, GiveUpHeartbeat,
         ReceiveReply, ServeHeartbeat, LoseHeartbeat, Read, FetchFails, RefuseOld, ApplyFails,
         ApplyNew, Save, SaveFails, Grab, Release, storeVars
    <3> QED
      BY <3>1
  <2>5. CASE UNCHANGED vars
    BY <2>5 DEF vars
  <2> QED
    BY <1>2, <2>3, <2>4, <2>5
<1> QED
  BY <1>1, <1>2, InitIInv, StepIInv, PTL DEF Spec, Source!Spec

\* Until the database is put back, the agent's file is never ahead of the store, and
\* a file of the store's version holds the store's rules: only then may synchronize
\* (runtime.go) take an answer that bears its own version as a reason not to fetch.
THEOREM FileFollowsStore ==
  Spec => [](restores = 0 => /\ disk.version <= version
                             /\ disk.version = version => disk.rules = rules)
<1>1. IInv => (restores = 0 => /\ disk.version <= version
                               /\ disk.version = version => disk.rules = rules)
  BY DEF IInv, Matching
<1> QED
  BY <1>1, InitIInv, StepIInv, PTL DEF Spec

--------------------------------------------------------------------------------
(***************************************************************************)
(* Apply as one step.  ConfigSync takes a call of Manager.Apply that       *)
(* succeeds as the Call and the Commit of a RuleTransaction; these are the *)
(* conditions under which that is one.                                     *)
(***************************************************************************)

\* The rules being run could have been given to Apply, and their listeners are the
\* agent's own, not those of another process.
Accepted ==
  /\ Disjoint(running)
  /\ \A id \in RuleIds : running[id] # None =>
       \A net \in running[id].nets : <<net, running[id].listen>> \notin held

\* A call that succeeds, where Run and synchronize make one: another valid map as a
\* whole, whose new listeners are free while all the old ones are open.
CallCommit ==
  /\ phase \in {"down", "fetching", "applied"}
  /\ running' \in RuleMaps
  /\ CanApply(running')
  /\ held' = held

\* The process dies and its sockets with it.
Dies == phase # "down" /\ phase' = "down" /\ running' = NoRules

LEMMA NoRulesAccepted == Disjoint(NoRules)
BY DEF Disjoint, NoRules

LEMMA RunningChanges ==
  ASSUME IInv, Next
  PROVE  running' = running \/ CallCommit \/ Dies
<1>0. TypeOK /\ Holding
  BY DEF IInv
<1>1. CASE Start
  BY <1>0, <1>1 DEF Start, CallCommit, CanApply, TypeOK, Config
<1>2. CASE Crash
  BY <1>2 DEF Crash, Dies
<1>3. CASE ApplyNew
  BY <1>0, <1>3 DEF ApplyNew, Fetched, CallCommit, CanApply, TypeOK
<1>4. CASE SaveFails
  BY <1>0, <1>4 DEF SaveFails, CallCommit, CanApply, TypeOK, Config
<1>5. CASE Next /\ ~(Start \/ Crash \/ ApplyNew \/ SaveFails)
  BY <1>5 DEF Next, Change, Backup, Restore, SendHeartbeat, GiveUpHeartbeat, ReceiveReply,
     ServeHeartbeat, LoseHeartbeat, Read, FetchFails, RefuseOld, ApplyFails, Save, Grab,
     Release, Return, agentVars
<1> QED
  BY <1>1, <1>2, <1>3, <1>4, <1>5

LEMMA AcceptedStep ==
  ASSUME IInv, Next, Accepted
  PROVE  Accepted'
<1>1. CASE running' = running
  <2>1. CASE \E listener \in Contested : Grab(listener)
    <3>1. PICK listener \in Contested : Grab(listener)
      BY <2>1
    <3>2. ASSUME NEW id \in RuleIds, running[id] # None, NEW net \in running[id].nets
          PROVE  <<net, running[id].listen>> # listener
      BY <3>1, <3>2 DEF Grab, Listens
    <3> QED
      BY <1>1, <3>1, <3>2 DEF Grab, Accepted
  <2>2. CASE ~\E listener \in Contested : Grab(listener)
    <3>1. held' \subseteq held
      BY <2>2 DEF Next, Change, Backup, Restore, Start, Crash, SendHeartbeat, GiveUpHeartbeat,
         ReceiveReply, ServeHeartbeat, LoseHeartbeat, Read, FetchFails, RefuseOld, ApplyFails,
         ApplyNew, Save, SaveFails, Release
    <3> QED
      BY <1>1, <3>1 DEF Accepted
  <2> QED
    BY <2>1, <2>2
<1>2. CASE CallCommit
  <2>1. ASSUME NEW id \in RuleIds, running'[id] # None, NEW net \in running'[id].nets
        PROVE  <<net, running'[id].listen>> \notin held
    <3>1. CASE Listens(running, id, net, running'[id].listen)
      BY <3>1 DEF Listens, Accepted
    <3>2. CASE ~Listens(running, id, net, running'[id].listen)
      BY <1>2, <2>1, <3>2 DEF CallCommit, CanApply
    <3> QED
      BY <3>1, <3>2
  <2> QED
    BY <1>2, <2>1 DEF CallCommit, CanApply, Accepted
<1>3. CASE Dies
  BY <1>3, NoRulesAccepted DEF Dies, Accepted, NoRules
<1> QED
  BY <1>1, <1>2, <1>3, RunningChanges

LEMMA AcceptedAlways == Spec => [](IInv /\ Accepted)
<1>1. Init => Accepted
  BY NoRulesAccepted DEF Init, Accepted, NoRules
<1>2. IInv /\ Accepted /\ [Next]_vars => Accepted'
  <2>1. ASSUME Accepted, UNCHANGED vars PROVE Accepted'
    BY <2>1 DEF vars, Accepted
  <2> QED
    BY <2>1, AcceptedStep
<1> QED
  BY <1>1, <1>2, InitIInv, StepIInv, PTL DEF Spec

\* What an agent runs is at all times a map that prepareRules (tcp.go) accepts, and
\* no listener of it belongs to another process: also after Apply has been called to
\* go back to the old rules, and although processes open and close listeners.
THEOREM RunsWhatApplyAccepts == Spec => []Accepted
BY AcceptedAlways, PTL

\* The rules an agent runs change as RuleTransaction lets them, and in no other way:
\* one accepted map replaces another as a whole, through a call of Apply that could
\* open what it needs, or the process ends and serves nothing.
THEOREM RulesChangeAsAWhole == Spec => [][running' = running \/ CallCommit \/ Dies]_vars
<1>1. IInv /\ [Next]_vars => [running' = running \/ CallCommit \/ Dies]_vars
  BY RunningChanges
<1> QED
  BY <1>1, InitIInv, StepIInv, PTL DEF Spec
================================================================================
