------------------------------ MODULE LogPipeline -------------------------------
(***************************************************************************)
(* How an agent's log entries reach the control plane: LogBuffer of        *)
(* internal/agent/log_buffer.go, the heartbeats of Run and synchronize     *)
(* that carry them (internal/agent/runtime.go), agentHeartbeat's check of  *)
(* the batch and the insertion into agent_logs with its key of node and    *)
(* event id.                                                               *)
(*                                                                         *)
(* Goroutines log at any time, also while a batch is under way.  An entry  *)
(* is its place in the order in which entries are appended; a new process  *)
(* draws a new prefix, so identifiers never come back.  A heartbeat that   *)
(* fails is itself logged.  The clean-up of old rows is left out: a        *)
(* heartbeat is not under way for the fourteen days it takes.              *)
(***************************************************************************)
EXTENDS Naturals, FiniteSets

CONSTANTS
  Capacity,     \* entries the buffer holds, 1000 in cmd/agent
  BatchSize,    \* entries of a heartbeat, 100 in synchronize
  MaxEmitted,   \* bound on the entries that other goroutines log, for model checking
  MaxFaults,    \* bound on heartbeats lost or given up on and on deaths of the agent
  MaxRefused    \* bound on the entries that agentHeartbeat refuses

ASSUME SizesAssumption == Capacity \in Nat \ {0} /\ BatchSize \in Nat \ {0}

VARIABLES
  emitted,    \* the number of entries appended so far
  refused,    \* the ones agentHeartbeat refuses: a time too far ahead, a text too long
  buffer,     \* the entries of the buffer
  copies,     \* rows of agent_logs, by entry
  requests,   \* heartbeats under way
  batch,      \* what synchronize has taken from the buffer for its heartbeat
  reply,      \* the answer to it: "none", "ok" or "error"
  sending,    \* synchronize waits for its heartbeat
  logged,     \* entries that other goroutines logged
  faults      \* heartbeats lost or given up on and deaths so far

vars == <<emitted, refused, buffer, copies, requests, batch, reply, sending, logged, faults>>

Entries == Nat \ {0}
Heartbeat == [batch : SUBSET Entries, awaited : BOOLEAN]

\* The rows of an entry.
Copies(e) == IF e \in DOMAIN copies THEN copies[e] ELSE 0

Stored == {e \in 1 .. emitted : Copies(e) > 0}

TypeOK ==
  /\ emitted \in Nat
  /\ refused \subseteq 1 .. emitted
  /\ buffer \subseteq 1 .. emitted /\ Cardinality(buffer) <= Capacity
  /\ copies \in [1 .. emitted -> Nat]
  /\ requests \subseteq Heartbeat
  /\ \A request \in requests : request.batch \subseteq 1 .. emitted
  /\ batch \subseteq 1 .. emitted
  /\ reply \in {"none", "ok", "error"}
  /\ sending \in BOOLEAN
  /\ logged \in Nat /\ faults \in Nat

Init ==
  /\ emitted = 0 /\ refused = {} /\ buffer = {} /\ copies = <<>>
  /\ requests = {} /\ batch = {} /\ reply = "none" /\ sending = FALSE
  /\ logged = 0 /\ faults = 0

--------------------------------------------------------------------------------
Oldest == CHOOSE e \in buffer : \A f \in buffer : e <= f

AppendGrowing == buffer \cup {emitted + 1}

\* append: the oldest entry goes when the buffer is full.
Appended ==
  IF Cardinality(buffer) = Capacity THEN (buffer \ {Oldest}) \cup {emitted + 1}
                                    ELSE buffer \cup {emitted + 1}

Log(ok) ==
  /\ emitted' = emitted + 1
  /\ buffer' = Appended
  /\ refused' = IF ok THEN refused ELSE refused \cup {emitted + 1}
  /\ copies' = [e \in 1 .. emitted + 1 |-> Copies(e)]

\* Another goroutine logs.
Emit(ok) ==
  /\ logged < MaxEmitted
  /\ ~ok => Cardinality(refused) < MaxRefused
  /\ Log(ok)
  /\ logged' = logged + 1
  /\ UNCHANGED <<requests, batch, reply, sending, faults>>

\* Pending: the first entries of the buffer, which stay in it.
Pending == {e \in buffer : Cardinality({f \in buffer : f < e}) < BatchSize}

Send ==
  /\ ~sending
  /\ batch' = Pending
  /\ requests' = requests \cup {[batch |-> Pending, awaited |-> TRUE]}
  /\ reply' = "none" /\ sending' = TRUE
  /\ UNCHANGED <<emitted, refused, buffer, copies, logged, faults>>

\* INSERT ... ON CONFLICT(node_id, event_id) DO NOTHING for each entry.
Insert(entries) ==
  [e \in 1 .. emitted |-> IF e \in entries /\ Copies(e) = 0 THEN 1 ELSE Copies(e)]

\* agentHeartbeat refuses the whole heartbeat for one entry it refuses.
Serve(request) ==
  /\ request \in requests
  /\ LET ok == request.batch \cap refused = {} IN
       /\ copies' = IF ok THEN Insert(request.batch) ELSE copies
       /\ reply' = IF request.awaited THEN IF ok THEN "ok" ELSE "error" ELSE reply
  /\ requests' = requests \ {request}
  /\ UNCHANGED <<emitted, refused, buffer, batch, sending, logged, faults>>

AcknowledgedByCount ==
  {e \in buffer : Cardinality({f \in buffer : f < e}) >= Cardinality(batch)}

\* Acknowledge: the entries of the batch that are still in the buffer go.
Acknowledged == buffer \ batch

Succeed ==
  /\ sending /\ reply = "ok"
  /\ buffer' = Acknowledged
  /\ batch' = {} /\ reply' = "none" /\ sending' = FALSE
  /\ UNCHANGED <<emitted, refused, copies, requests, logged, faults>>

\* Heartbeats the agent no longer waits for may still be served.
Abandoned == {[batch |-> request.batch, awaited |-> FALSE] : request \in requests}

FailSilently ==
  /\ batch' = {} /\ reply' = "none" /\ sending' = FALSE
  /\ requests' = Abandoned
  /\ UNCHANGED <<emitted, buffer, refused, copies>>

\* synchronize returns an error, and Run logs it.
Fail ==
  /\ Log(TRUE)
  /\ batch' = {} /\ reply' = "none" /\ sending' = FALSE
  /\ requests' = Abandoned

Rejected ==
  /\ sending /\ reply = "error"
  /\ Fail
  /\ UNCHANGED <<logged, faults>>

GiveUp ==
  /\ sending /\ faults < MaxFaults
  /\ Fail
  /\ faults' = faults + 1
  /\ UNCHANGED logged

\* A heartbeat nobody waits for is never served.
Lose(request) ==
  /\ request \in requests /\ ~request.awaited
  /\ requests' = requests \ {request}
  /\ UNCHANGED <<emitted, refused, buffer, copies, batch, reply, sending, logged, faults>>

\* The agent dies and is started again with an empty buffer.
Die ==
  /\ faults < MaxFaults
  /\ faults' = faults + 1
  /\ buffer' = {} /\ batch' = {} /\ reply' = "none" /\ sending' = FALSE
  /\ requests' = Abandoned
  /\ UNCHANGED <<emitted, refused, copies, logged>>

Next ==
  \/ \E ok \in BOOLEAN : Emit(ok)
  \/ Send \/ Succeed \/ Rejected \/ GiveUp \/ Die
  \/ \E request \in requests : Serve(request) \/ Lose(request)

Spec == Init /\ [][Next]_vars

--------------------------------------------------------------------------------
Delivery == INSTANCE LogDelivery WITH queued <- buffer, rows <- copies

\* Only what is stored leaves the buffer, or the oldest entry when the buffer is
\* full, although entries are appended and discarded while a batch is under way
\* and batches are answered late or never; and a batch that is sent again because
\* its answer was lost does not show up twice: "IDs remain stable while an entry
\* is retried, allowing the control plane to safely de-duplicate heartbeats whose
\* responses were lost" (internal/agent/log_buffer.go).
ImplementsDelivery == Delivery!Spec

\* The agent sends, the control plane answers and the agent reads the answer.
Fairness ==
  /\ WF_vars(Send) /\ WF_vars(Succeed) /\ WF_vars(Rejected)
  /\ WF_vars(\E request \in requests : request.awaited /\ Serve(request))

FairSpec == Spec /\ Fairness

\* One entry that the control plane refuses does not keep an agent out for good:
\* every refusal is logged, so the entry is pushed out of the buffer in the end,
\* heartbeats are accepted again and every entry left is stored.
RefusalPasses == []<>(sending /\ reply = "ok") /\ <>[](buffer \subseteq Stored)
================================================================================
