------------------------------ MODULE ConfigSource ------------------------------
(***************************************************************************)
(* What the control plane promises the agent of one node: the              *)
(* configuration it serves never changes without its version growing by    *)
(* one.  The agent relies on it when it stops asking as soon as the        *)
(* version it runs is the version it is told.                              *)
(***************************************************************************)
EXTENDS Naturals

CONSTANT Empty   \* the configuration of a node that has just enrolled

VARIABLES
  version,   \* the version the store has for the node
  served     \* the rules it would send

Init == version = 1 /\ served = Empty

Next == version' = version + 1

Spec == Init /\ [][Next]_<<version, served>>
================================================================================
