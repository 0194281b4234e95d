---------------------------- MODULE LogPipelineProofs -----------------------------
(***************************************************************************)
(* Theorems about LogPipeline, for any size of the buffer and of a batch   *)
(* and any number of entries and faults: it implements LogDelivery.        *)
(***************************************************************************)
EXTENDS LogPipeline, FiniteSetTheorems, SequenceTheorems, WellFoundedInduction, TLAPS

--------------------------------------------------------------------------------
(***************************************************************************)
(* The inductive invariant.                                                *)
(***************************************************************************)

\* The one heartbeat that is waited for carries the batch that synchronize has
\* taken, and is not answered yet.
AwaitedIsBatch ==
  \A request \in requests :
    request.awaited => sending /\ reply = "none" /\ request.batch = batch

\* A heartbeat is answered with success only when its entries are stored.
AnsweredIsStored == reply = "ok" => \A e \in batch : Copies(e) > 0

\* No entry has two rows.
StoredOnce == \A e \in 1 .. emitted : copies[e] \in {0, 1}

IInv == TypeOK /\ AwaitedIsBatch /\ AnsweredIsStored /\ StoredOnce

--------------------------------------------------------------------------------
(***************************************************************************)
(* What the steps have in common.                                          *)
(***************************************************************************)

\* A set of places that are not bounded by others has a first one.
LEMMA FirstExists ==
  ASSUME NEW S \in SUBSET Nat, S # {}
  PROVE  \E e \in S : \A f \in S : e <= f
<1>1. PICK e \in S : \A f \in S : <<f, e>> \notin OpToRel(<, Nat)
  BY NatLessThanWellFounded, WFMin
<1>2. \A f \in S : ~(f < e)
  BY <1>1 DEF OpToRel
<1> QED
  BY <1>2

LEMMA BufferFinite ==
  ASSUME TypeOK
  PROVE  /\ IsFiniteSet(buffer) /\ Cardinality(buffer) \in Nat
         /\ buffer \subseteq Nat /\ emitted + 1 \notin buffer
<1>1. IsFiniteSet(1 .. emitted) /\ buffer \subseteq 1 .. emitted
  BY FS_Interval DEF TypeOK
<1>2. IsFiniteSet(buffer) /\ Cardinality(buffer) \in Nat
  BY <1>1, FS_Subset, FS_CardinalityType
<1>3. emitted \in Nat
  BY DEF TypeOK
<1> QED
  BY <1>1, <1>2, <1>3

\* A new entry is the last one, has no row and takes the place of the first one
\* when there is no room: what LogDelivery calls Emit.
LEMMA LogAppends ==
  ASSUME IInv, NEW ok \in BOOLEAN, Log(ok)
  PROVE  /\ Delivery!Emit
         /\ emitted' = emitted + 1 /\ emitted' \in Nat
         /\ refused' \subseteq 1 .. emitted'
         /\ buffer' \subseteq 1 .. emitted' /\ Cardinality(buffer') <= Capacity
         /\ copies' \in [1 .. emitted' -> Nat]
         /\ \A e \in 1 .. emitted : copies'[e] = copies[e]
         /\ StoredOnce'
<1>0. TypeOK /\ emitted \in Nat
  BY DEF IInv, TypeOK
<1>1. emitted' = emitted + 1 /\ emitted' \in Nat /\ refused' \subseteq 1 .. emitted'
  BY <1>0 DEF Log, TypeOK
<1>2. /\ copies' \in [1 .. emitted' -> Nat]
      /\ \A e \in 1 .. emitted : copies'[e] = copies[e]
      /\ copies'[emitted + 1] = 0
  BY <1>0, <1>1 DEF Log, Copies, TypeOK
<1>3. StoredOnce'
  BY <1>0, <1>1, <1>2 DEF StoredOnce, IInv
<1>4. copies' = Append(copies, 0) /\ Len(copies') = emitted + 1
  <2>1. copies \in Seq(Nat) /\ Len(copies) = emitted
    BY <1>0, SeqDef DEF TypeOK
  <2>2. copies' \in Seq(Nat) /\ Len(copies') = emitted + 1
    BY <1>0, <1>1, <1>2, SeqDef
  <2>3. /\ Append(copies, 0) \in Seq(Nat) /\ Len(Append(copies, 0)) = emitted + 1
        /\ \A i \in 1 .. emitted : Append(copies, 0)[i] = copies[i]
        /\ Append(copies, 0)[emitted + 1] = 0
    BY <2>1, AppendProperties
  <2>4. \A i \in 1 .. emitted + 1 : copies'[i] = Append(copies, 0)[i]
    BY <1>0, <1>2, <2>3
  <2> QED
    BY <2>2, <2>3, <2>4, SeqEqual
<1>5. /\ buffer' \subseteq 1 .. emitted' /\ Cardinality(buffer') <= Capacity
      /\ \/ Cardinality(buffer) < Capacity /\ buffer' = buffer \cup {emitted + 1}
         \/ /\ Cardinality(buffer) = Capacity
            /\ \E oldest \in buffer :
                 /\ \A e \in buffer : oldest <= e
                 /\ buffer' = (buffer \ {oldest}) \cup {emitted + 1}
  <2>1. CASE Cardinality(buffer) = Capacity
    <3>1. buffer # {}
      BY <2>1, FS_EmptySet, SizesAssumption
    <3>2. Oldest \in buffer /\ \A e \in buffer : Oldest <= e
      BY <1>0, <3>1, BufferFinite, FirstExists DEF Oldest
    <3> DEFINE rest == buffer \ {Oldest}
    <3>3. IsFiniteSet(rest) /\ Cardinality(rest) = Capacity - 1 /\ emitted + 1 \notin rest
      BY <1>0, <2>1, <3>2, BufferFinite, FS_RemoveElement
    <3>4. Cardinality(rest \cup {emitted + 1}) = Cardinality(rest) + 1
      BY <3>3, FS_AddElement
    <3>5. buffer' = rest \cup {emitted + 1}
      BY <2>1 DEF Log, Appended
    <3>6. Cardinality(buffer') <= Capacity
      BY <3>3, <3>4, <3>5, SizesAssumption
    <3>7. buffer' \subseteq 1 .. emitted'
      <4>1. rest \subseteq 1 .. emitted
        BY <1>0 DEF TypeOK
      <4>2. 1 .. emitted \subseteq 1 .. emitted' /\ emitted + 1 \in 1 .. emitted'
        BY <1>0, <1>1
      <4> QED
        BY <3>5, <4>1, <4>2
    <3> QED
      BY <2>1, <3>2, <3>5, <3>6, <3>7
  <2>2. CASE Cardinality(buffer) # Capacity
    <3>1. buffer' = buffer \cup {emitted + 1}
      BY <2>2 DEF Log, Appended
    <3>2. Cardinality(buffer') = Cardinality(buffer) + 1
      BY <1>0, <3>1, BufferFinite, FS_AddElement
    <3>3. Cardinality(buffer) < Capacity
      BY <1>0, <2>2, BufferFinite, SizesAssumption DEF TypeOK
    <3>4. buffer' \subseteq 1 .. emitted'
      BY <1>0, <1>1, <3>1 DEF TypeOK
    <3> QED
      BY <1>0, <3>1, <3>2, <3>3, <3>4, BufferFinite, SizesAssumption
  <2> QED
    BY <2>1, <2>2
<1>6. Delivery!Emit
  <2>1. copies' = Append(copies, 0)
    BY <1>4
  <2>2. \/ Cardinality(buffer) < Capacity /\ buffer' = buffer \cup {Len(copies')}
        \/ /\ Cardinality(buffer) = Capacity
           /\ \E oldest \in buffer :
                /\ \A e \in buffer : oldest <= e
                /\ buffer' = (buffer \ {oldest}) \cup {Len(copies')}
    BY <1>4, <1>5
  <2>3. Delivery!Cardinality(buffer) = Cardinality(buffer)
    BY DEF Cardinality, Delivery!Cardinality
  <2> QED
    BY <2>1, <2>2, <2>3 DEF Delivery!Emit
<1> QED
  BY <1>1, <1>2, <1>3, <1>5, <1>6

\* Given up on, a heartbeat stays what it is but is not waited for.
LEMMA AbandonedTyped ==
  ASSUME TypeOK
  PROVE  /\ Abandoned \subseteq Heartbeat
         /\ \A request \in Abandoned :
              request.batch \subseteq 1 .. emitted /\ ~request.awaited
<1> SUFFICES ASSUME NEW request \in requests
             PROVE  LET given == [batch |-> request.batch, awaited |-> FALSE] IN
                      given \in Heartbeat /\ given.batch \subseteq 1 .. emitted /\ ~given.awaited
  BY DEF Abandoned
<1>1. request \in Heartbeat /\ request.batch \subseteq 1 .. emitted
  BY DEF TypeOK
<1> QED
  BY <1>1 DEF Heartbeat

LEMMA StoreInserts ==
  ASSUME IInv, NEW entries \in SUBSET (1 .. emitted)
  PROVE  /\ Insert(entries) \in [1 .. emitted -> {0, 1}]
         /\ \A e \in 1 .. emitted : copies[e] > 0 => Insert(entries)[e] > 0
         /\ \A e \in entries : Insert(entries)[e] > 0
         /\ Insert(entries) = [e \in DOMAIN copies |->
              IF e \in {f \in entries : copies[f] = 0} THEN 1 ELSE copies[e]]
<1>1. DOMAIN copies = 1 .. emitted /\ \A e \in 1 .. emitted : Copies(e) = copies[e]
  BY DEF IInv, TypeOK, Copies
<1>2. \A e \in 1 .. emitted : copies[e] \in {0, 1}
  BY DEF IInv, StoredOnce
<1> QED
  BY <1>1, <1>2 DEF Insert

--------------------------------------------------------------------------------
(***************************************************************************)
(* The invariant is inductive, and every step is one of LogDelivery.       *)
(***************************************************************************)

LEMMA InitIInv == Init => IInv /\ Delivery!Init
<1> SUFFICES ASSUME Init PROVE IInv /\ Delivery!Init
  OBVIOUS
<1>1. Cardinality({}) = 0
  BY FS_EmptySet
<1>2. copies \in [1 .. 0 -> Nat]
  BY DEF Init
<1>3. TypeOK
  <2>1. Cardinality(buffer) <= Capacity
    BY <1>1, SizesAssumption DEF Init
  <2> QED
    BY <1>2, <2>1 DEF Init, TypeOK
<1>4. AwaitedIsBatch /\ AnsweredIsStored /\ StoredOnce
  BY DEF Init, AwaitedIsBatch, AnsweredIsStored, StoredOnce
<1> QED
  BY <1>3, <1>4 DEF IInv, Init, Delivery!Init

Kept == IInv' /\ [Delivery!Next]_<<buffer, copies>>

\* The stored entries of a batch stay stored when another goroutine logs.
LEMMA EmitKeeps ==
  ASSUME IInv, NEW ok \in BOOLEAN, Emit(ok)
  PROVE  Kept
<1>1. /\ Log(ok) /\ logged' = logged + 1
      /\ UNCHANGED <<requests, batch, reply, sending, faults>>
  BY DEF Emit
<1>2. /\ emitted \in Nat /\ emitted' = emitted + 1 /\ emitted' \in Nat
      /\ refused' \subseteq 1 .. emitted'
      /\ buffer' \subseteq 1 .. emitted' /\ Cardinality(buffer') <= Capacity
      /\ copies' \in [1 .. emitted' -> Nat]
      /\ \A e \in 1 .. emitted : copies'[e] = copies[e]
      /\ StoredOnce' /\ Delivery!Emit
  BY <1>1, LogAppends DEF IInv, TypeOK
<1>3. 1 .. emitted \subseteq 1 .. emitted'
  BY <1>2
<1>4. TypeOK'
  BY <1>1, <1>2, <1>3 DEF IInv, TypeOK
<1>5. AwaitedIsBatch'
  BY <1>1 DEF IInv, AwaitedIsBatch
<1>6. AnsweredIsStored'
  BY <1>1, <1>2, <1>3 DEF IInv, TypeOK, AnsweredIsStored, Copies
<1> QED
  BY <1>2, <1>4, <1>5, <1>6 DEF Kept, IInv, Delivery!Next

LEMMA SendKeeps ==
  ASSUME IInv, Send
  PROVE  Kept
<1>1. /\ ~sending /\ batch' = Pending /\ reply' = "none" /\ sending' = TRUE
      /\ requests' = requests \cup {[batch |-> Pending, awaited |-> TRUE]}
      /\ UNCHANGED <<emitted, refused, buffer, copies, logged, faults>>
  BY DEF Send
<1>2. Pending \subseteq buffer
  BY DEF Pending
<1> HIDE DEF Pending
<1>3. buffer \subseteq 1 .. emitted /\ 1 .. emitted \subseteq Entries
  BY DEF IInv, TypeOK, Entries
<1>4. [batch |-> Pending, awaited |-> TRUE] \in Heartbeat
  BY <1>2, <1>3 DEF Heartbeat
<1>5. TypeOK'
  <2>1. requests' \subseteq Heartbeat
    BY <1>1, <1>4 DEF IInv, TypeOK
  <2>2. ASSUME NEW request \in requests' PROVE request.batch \subseteq 1 .. emitted'
    <3>1. request \in requests \/ request.batch = Pending
      BY <1>1
    <3> QED
      BY <1>1, <1>2, <1>3, <3>1 DEF IInv, TypeOK
  <2>3. batch' \subseteq 1 .. emitted'
    BY <1>1, <1>2, <1>3
  <2> QED
    BY <1>1, <2>1, <2>2, <2>3 DEF IInv, TypeOK
<1>6. AwaitedIsBatch' /\ AnsweredIsStored' /\ StoredOnce'
  BY <1>1 DEF IInv, AwaitedIsBatch, AnsweredIsStored, StoredOnce
<1> QED
  BY <1>1, <1>5, <1>6 DEF Kept, IInv

\* A heartbeat that is served stores entries that are not stored yet, or changes
\* nothing; if it is waited for, the batch is the one that is stored.
LEMMA ServeKeeps ==
  ASSUME IInv, NEW request \in requests, Serve(request)
  PROVE  Kept
<1> DEFINE ok == request.batch \cap refused = {}
           fresh == {f \in request.batch : copies[f] = 0}
<1>1. /\ copies' = IF ok THEN Insert(request.batch) ELSE copies
      /\ reply' = IF request.awaited THEN IF ok THEN "ok" ELSE "error" ELSE reply
      /\ requests' = requests \ {request}
      /\ UNCHANGED <<emitted, refused, buffer, batch, sending, logged, faults>>
  BY DEF Serve
<1>2. request.batch \in SUBSET (1 .. emitted) /\ request \in Heartbeat
  BY DEF IInv, TypeOK
<1>3. /\ Insert(request.batch) \in [1 .. emitted -> {0, 1}]
      /\ \A e \in 1 .. emitted : copies[e] > 0 => Insert(request.batch)[e] > 0
      /\ \A e \in request.batch : Insert(request.batch)[e] > 0
      /\ Insert(request.batch) = [e \in DOMAIN copies |-> IF e \in fresh THEN 1 ELSE copies[e]]
  BY <1>2, StoreInserts
<1> HIDE DEF ok
<1>4. copies' \in [1 .. emitted -> Nat] /\ StoredOnce'
  BY <1>1, <1>3 DEF IInv, TypeOK, StoredOnce
<1>5. TypeOK'
  BY <1>1, <1>4 DEF IInv, TypeOK
<1>6. AwaitedIsBatch'
  <2> SUFFICES ASSUME NEW other \in requests, other # request, other.awaited
               PROVE  sending /\ reply' = "none" /\ other.batch = batch
    BY <1>1 DEF AwaitedIsBatch
  <2>1. sending /\ reply = "none" /\ other.batch = batch
    BY DEF IInv, AwaitedIsBatch
  <2>2. CASE request.awaited
    <3>1. request.batch = batch
      BY <2>2 DEF IInv, AwaitedIsBatch
    <3>2. other \in Heartbeat
      BY DEF IInv, TypeOK
    <3> QED
      BY <1>2, <2>1, <2>2, <3>1, <3>2 DEF Heartbeat
  <2>3. CASE ~request.awaited
    BY <1>1, <2>1, <2>3
  <2> QED
    BY <2>2, <2>3
<1>7. AnsweredIsStored'
  <2> SUFFICES ASSUME reply' = "ok", NEW e \in batch PROVE copies'[e] > 0
    BY <1>1, <1>4 DEF AnsweredIsStored, Copies, IInv, TypeOK
  <2>1. e \in 1 .. emitted
    BY DEF IInv, TypeOK
  <2>2. CASE request.awaited
    BY <1>1, <1>3, <2>2 DEF IInv, AwaitedIsBatch
  <2>3. CASE ~request.awaited
    <3>1. copies[e] > 0
      BY <1>1, <2>1, <2>3 DEF IInv, TypeOK, AnsweredIsStored, Copies
    <3> QED
      BY <1>1, <1>3, <2>1, <3>1
  <2> QED
    BY <2>2, <2>3
<1>8. CASE ok
  <2>1. fresh \in SUBSET {e \in DOMAIN copies : copies[e] = 0}
    BY <1>2 DEF IInv, TypeOK
  <2>2. copies' = [e \in DOMAIN copies |-> IF e \in fresh THEN 1 ELSE copies[e]]
    BY <1>1, <1>3, <1>8
  <2> HIDE DEF fresh
  <2>3. Delivery!Store
    BY <1>1, <2>1, <2>2 DEF Delivery!Store
  <2> QED
    BY <1>4, <1>5, <1>6, <1>7, <2>3 DEF Kept, IInv, Delivery!Next
<1>9. CASE ~ok
  <2>1. UNCHANGED <<buffer, copies>>
    BY <1>1, <1>9
  <2> QED
    BY <1>4, <1>5, <1>6, <1>7, <2>1 DEF Kept, IInv
<1> QED
  BY <1>8, <1>9

\* Acknowledge takes stored entries only, also when the batch's own have been
\* discarded meanwhile and newer ones have taken their place.
LEMMA SucceedKeeps ==
  ASSUME IInv, Succeed
  PROVE  Kept
<1>1. /\ sending /\ reply = "ok" /\ buffer' = buffer \ batch
      /\ batch' = {} /\ reply' = "none" /\ sending' = FALSE
      /\ UNCHANGED <<emitted, refused, copies, requests, logged, faults>>
  BY DEF Succeed, Acknowledged
<1>2. \A e \in buffer \ buffer' : copies[e] > 0
  BY <1>1 DEF IInv, TypeOK, AnsweredIsStored, Copies
<1>3. Cardinality(buffer') <= Capacity
  <2>1. Cardinality(buffer') <= Cardinality(buffer) /\ Cardinality(buffer') \in Nat
    BY <1>1, BufferFinite, FS_Subset, FS_CardinalityType DEF IInv
  <2> QED
    BY <2>1, BufferFinite, SizesAssumption DEF IInv, TypeOK
<1>4. TypeOK'
  BY <1>1, <1>3 DEF IInv, TypeOK
<1>5. AwaitedIsBatch' /\ AnsweredIsStored' /\ StoredOnce'
  BY <1>1 DEF IInv, AwaitedIsBatch, AnsweredIsStored, StoredOnce
<1>6. Delivery!Settle
  BY <1>1, <1>2 DEF Delivery!Settle
<1> QED
  BY <1>4, <1>5, <1>6 DEF Kept, IInv, Delivery!Next

\* A heartbeat that fails stays under way, and is logged.
LEMMA FailKeeps ==
  ASSUME IInv, Fail, logged' = logged, faults' \in Nat
  PROVE  Kept
<1>1. /\ Log(TRUE) /\ batch' = {} /\ reply' = "none" /\ sending' = FALSE
      /\ requests' = Abandoned
  BY DEF Fail
<1>2. /\ emitted \in Nat /\ emitted' = emitted + 1 /\ emitted' \in Nat
      /\ refused' \subseteq 1 .. emitted'
      /\ buffer' \subseteq 1 .. emitted' /\ Cardinality(buffer') <= Capacity
      /\ copies' \in [1 .. emitted' -> Nat]
      /\ StoredOnce' /\ Delivery!Emit
  BY <1>1, LogAppends DEF IInv, TypeOK
<1>3. 1 .. emitted \subseteq 1 .. emitted'
  BY <1>2
<1>4. /\ requests' \subseteq Heartbeat
      /\ \A request \in requests' : request.batch \subseteq 1 .. emitted /\ ~request.awaited
  BY <1>1, AbandonedTyped DEF IInv
<1>5. TypeOK'
  <2>1. \A request \in requests' : request.batch \subseteq 1 .. emitted'
    BY <1>3, <1>4
  <2> QED
    BY <1>1, <1>2, <1>4, <2>1 DEF IInv, TypeOK
<1>6. AwaitedIsBatch' /\ AnsweredIsStored'
  BY <1>1, <1>4 DEF AwaitedIsBatch, AnsweredIsStored
<1> QED
  BY <1>2, <1>5, <1>6 DEF Kept, IInv, Delivery!Next

LEMMA DieKeeps ==
  ASSUME IInv, Die
  PROVE  Kept
<1>1. /\ faults' = faults + 1 /\ buffer' = {} /\ batch' = {} /\ reply' = "none"
      /\ sending' = FALSE /\ requests' = Abandoned
      /\ UNCHANGED <<emitted, refused, copies, logged>>
  BY DEF Die
<1>2. /\ requests' \subseteq Heartbeat
      /\ \A request \in requests' : request.batch \subseteq 1 .. emitted /\ ~request.awaited
  BY <1>1, AbandonedTyped DEF IInv
<1>3. Cardinality(buffer') <= Capacity
  BY <1>1, FS_EmptySet, SizesAssumption
<1>4. TypeOK'
  <2>1. faults' \in Nat
    BY <1>1 DEF IInv, TypeOK
  <2> QED
    BY <1>1, <1>2, <1>3, <2>1 DEF IInv, TypeOK
<1>5. AwaitedIsBatch' /\ AnsweredIsStored' /\ StoredOnce'
  BY <1>1, <1>2 DEF IInv, AwaitedIsBatch, AnsweredIsStored, StoredOnce
<1> QED
  BY <1>1, <1>4, <1>5 DEF Kept, IInv, Delivery!Next, Delivery!Die

LEMMA StepIInv == IInv /\ [Next]_vars => Kept
<1> SUFFICES ASSUME IInv, [Next]_vars PROVE Kept
  OBVIOUS
<1>1. ASSUME NEW ok \in BOOLEAN, Emit(ok) PROVE Kept
  BY <1>1, EmitKeeps
<1>2. CASE Send
  BY <1>2, SendKeeps
<1>3. CASE Succeed
  BY <1>3, SucceedKeeps
<1>4. CASE Rejected \/ GiveUp
  <2>1. Fail /\ logged' = logged
    BY <1>4 DEF Rejected, GiveUp
  <2>2. faults \in Nat /\ faults' \in {faults, faults + 1}
    BY <1>4 DEF Rejected, GiveUp, IInv, TypeOK
  <2>3. faults' \in Nat
    BY <2>2
  <2> QED
    BY <2>1, <2>3, FailKeeps
<1>5. CASE Die
  BY <1>5, DieKeeps
<1>6. ASSUME NEW request \in requests, Serve(request) PROVE Kept
  BY <1>6, ServeKeeps
<1>7. ASSUME NEW request \in requests, Lose(request) PROVE Kept
  BY <1>7 DEF Lose, Kept, IInv, TypeOK, AwaitedIsBatch, AnsweredIsStored, StoredOnce, Copies
<1>8. CASE UNCHANGED vars
  BY <1>8 DEF vars, Kept, IInv, TypeOK, AwaitedIsBatch, AnsweredIsStored, StoredOnce, Copies
<1> QED
  BY <1>1, <1>2, <1>3, <1>4, <1>5, <1>6, <1>7, <1>8 DEF Next

--------------------------------------------------------------------------------
(***************************************************************************)
(* The theorems.                                                           *)
(***************************************************************************)

\* Every variable keeps its type: the buffer never holds more than its capacity,
\* whatever is appended, sent and acknowledged (internal/agent/log_buffer.go).
THEOREM TypeCorrect == Spec => []TypeOK
<1>1. IInv /\ [Next]_vars => IInv'
  BY StepIInv DEF Kept
<1> QED
  BY <1>1, InitIInv, PTL DEF Spec, IInv

\* An entry has one row at most, however often its batch is sent again and however
\* late it is served (ON CONFLICT ... DO NOTHING in internal/store/postgres).
THEOREM NeverTwice == Spec => []StoredOnce
<1>1. IInv /\ [Next]_vars => IInv'
  BY StepIInv DEF Kept
<1> QED
  BY <1>1, InitIInv, PTL DEF Spec, IInv

\* No entry is lost but the oldest one of a full buffer or with a dead agent, and
\* none is stored twice, for any sizes of buffer and batch and any order in which
\* heartbeats are served, refused, lost or given up on.
THEOREM Delivers == Spec => ImplementsDelivery
<1>1. IInv /\ [Next]_vars => IInv' /\ [Delivery!Next]_<<buffer, copies>>
  BY StepIInv DEF Kept
<1>2. Spec => Delivery!Init /\ [][Delivery!Next]_<<buffer, copies>>
  BY <1>1, InitIInv, PTL DEF Spec
<1> QED
  BY <1>2 DEF ImplementsDelivery, Delivery!Spec

--------------------------------------------------------------------------------
(***************************************************************************)
(* What an answer means to the agent, the safe half of RefusalPasses.      *)
(***************************************************************************)

\* A batch is answered with an error only for an entry of its own that the control
\* plane refuses, and with success only when there is none; what is refused is never
\* stored.
AnswerHasReason ==
  /\ \A e \in refused : Copies(e) = 0
  /\ reply = "error" => batch \cap refused # {}
  /\ reply = "ok" => batch \cap refused = {}

\* An entry that is logged is in no batch yet, and has no row.
LEMMA LogKeepsReason ==
  ASSUME IInv, AnswerHasReason, NEW ok \in BOOLEAN, Log(ok),
         reply' = "none" \/ (reply' = reply /\ batch' = batch)
  PROVE  AnswerHasReason'
<1>1. /\ emitted \in Nat /\ refused \subseteq 1 .. emitted /\ batch \subseteq 1 .. emitted
      /\ copies \in [1 .. emitted -> Nat]
  BY DEF IInv, TypeOK
<1>2. emitted + 1 \notin 1 .. emitted /\ 1 .. emitted \subseteq 1 .. emitted + 1
  BY <1>1
<1>3. refused' \in {refused, refused \cup {emitted + 1}}
  BY DEF Log
<1>4. copies' = [e \in 1 .. emitted + 1 |-> Copies(e)]
  BY DEF Log
<1>5. \A e \in refused' : Copies(e)' = 0
  <2> SUFFICES ASSUME NEW e \in refused' PROVE Copies(e)' = 0
    OBVIOUS
  <2>1. Copies(e) = 0
    BY <1>1, <1>2, <1>3 DEF AnswerHasReason, Copies
  <2>2. Copies(e)' = IF e \in DOMAIN copies' THEN copies'[e] ELSE 0
    BY DEF Copies
  <2> QED
    BY <1>4, <2>1, <2>2
<1>6. batch \cap refused' = batch \cap refused
  BY <1>1, <1>2, <1>3
<1> QED
  BY <1>5, <1>6 DEF AnswerHasReason

\* A heartbeat is served as a whole or not at all.
LEMMA ServeKeepsReason ==
  ASSUME IInv, AnswerHasReason, NEW request \in requests, Serve(request)
  PROVE  AnswerHasReason'
<1>1. /\ copies' = IF request.batch \cap refused = {} THEN Insert(request.batch) ELSE copies
      /\ reply' = IF request.awaited
                    THEN IF request.batch \cap refused = {} THEN "ok" ELSE "error"
                    ELSE reply
      /\ UNCHANGED <<emitted, refused, batch>>
  BY DEF Serve
<1>2. request.awaited => request.batch = batch
  BY DEF IInv, AwaitedIsBatch
<1>3. DOMAIN copies = 1 .. emitted /\ refused \subseteq 1 .. emitted
  BY DEF IInv, TypeOK
<1>4. \A e \in refused : Copies(e)' = 0
  <2> SUFFICES ASSUME NEW e \in refused PROVE Copies(e)' = 0
    OBVIOUS
  <2>1. Copies(e) = 0 /\ copies[e] = 0
    BY <1>3 DEF AnswerHasReason, Copies
  <2>2. CASE request.batch \cap refused = {}
    BY <1>1, <1>3, <2>1, <2>2 DEF Copies, Insert
  <2>3. CASE request.batch \cap refused # {}
    BY <1>1, <2>1, <2>3 DEF Copies
  <2> QED
    BY <2>2, <2>3
<1> QED
  BY <1>1, <1>2, <1>4 DEF AnswerHasReason

LEMMA ReasonStep ==
  ASSUME IInv, AnswerHasReason, [Next]_vars
  PROVE  AnswerHasReason'
<1>1. ASSUME NEW ok \in BOOLEAN, Emit(ok) PROVE AnswerHasReason'
  BY <1>1, LogKeepsReason DEF Emit
<1>2. CASE Rejected \/ GiveUp
  BY <1>2, LogKeepsReason DEF Rejected, GiveUp, Fail
<1>3. CASE Send \/ Succeed \/ Die
  BY <1>3 DEF Send, Succeed, Die, AnswerHasReason, Copies
<1>4. ASSUME NEW request \in requests, Serve(request) PROVE AnswerHasReason'
  BY <1>4, ServeKeepsReason
<1>5. ASSUME NEW request \in requests, Lose(request) PROVE AnswerHasReason'
  BY <1>5 DEF Lose, AnswerHasReason, Copies
<1>6. CASE UNCHANGED vars
  BY <1>6 DEF vars, AnswerHasReason, Copies
<1> QED
  BY <1>1, <1>2, <1>3, <1>4, <1>5, <1>6 DEF Next

\* An agent is told of an error, or of success, for what is in the batch it has just
\* sent, although heartbeats it gave up on are served in between; and what the control
\* plane refuses never has a row (agentHeartbeat in internal/control/server.go).
THEOREM AnswersHaveReasons == Spec => []AnswerHasReason
<1>1. Init => AnswerHasReason
  BY DEF Init, AnswerHasReason
<1>2. IInv /\ AnswerHasReason /\ [Next]_vars => IInv' /\ AnswerHasReason'
  BY StepIInv, ReasonStep DEF Kept
<1> QED
  BY <1>1, <1>2, InitIInv, PTL DEF Spec
================================================================================
