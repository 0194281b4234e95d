------------------------------ MODULE LogDelivery -------------------------------
(***************************************************************************)
(* What the collection of an agent's log entries promises: an entry is     *)
(* kept until it is stored, unless the queue is full and it is the oldest, *)
(* or the agent dies; and it is stored at most once.  Entries are numbered *)
(* as they are queued.                                                     *)
(***************************************************************************)
EXTENDS Naturals, FiniteSets, Sequences

CONSTANT Capacity

VARIABLES
  queued,   \* entries the agent still has
  rows      \* for every entry logged so far, how often the control plane has it

Init == queued = {} /\ rows = <<>>

\* A new entry, in the place of the oldest one when there is no room.
Emit ==
  /\ rows' = Append(rows, 0)
  /\ \/ Cardinality(queued) < Capacity /\ queued' = queued \cup {Len(rows')}
     \/ /\ Cardinality(queued) = Capacity
        /\ \E oldest \in queued :
             /\ \A e \in queued : oldest <= e
             /\ queued' = (queued \ {oldest}) \cup {Len(rows')}

\* Entries that were logged are stored, late ones included, each for the first
\* time.
Store ==
  /\ \E entries \in SUBSET {e \in DOMAIN rows : rows[e] = 0} :
       rows' = [e \in DOMAIN rows |-> IF e \in entries THEN 1 ELSE rows[e]]
  /\ UNCHANGED queued

\* Only what is stored is taken out of the queue.
Settle ==
  /\ queued' \subseteq queued /\ \A e \in queued \ queued' : rows[e] > 0
  /\ UNCHANGED rows

Die == queued' = {} /\ UNCHANGED rows

Next == Emit \/ Store \/ Settle \/ Die

Spec == Init /\ [][Next]_<<queued, rows>>
================================================================================
