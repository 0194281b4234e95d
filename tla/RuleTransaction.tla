----------------------------- MODULE RuleTransaction -----------------------------
(***************************************************************************)
(* What Manager.Apply promises its caller: the set of rules a node serves  *)
(* changes as a whole.  An Apply that is under way either replaces it by   *)
(* the rules it was given or has no effect, nothing else changes it, and   *)
(* after Close nothing is served again.                                    *)
(***************************************************************************)
EXTENDS PrepareRules

VARIABLES
  serving,   \* the rule each identifier serves, None when it serves none
  calling,   \* an Apply is under way that can still fail
  wanted,    \* the rules that Apply was given, NoRules when there is none
  shut       \* Close was called

tvars == <<serving, calling, wanted, shut>>

Start ==
  /\ serving = NoRules
  /\ calling = FALSE
  /\ wanted = NoRules
  /\ shut = FALSE

Call ==
  /\ ~calling /\ ~shut
  /\ calling' = TRUE
  /\ wanted' \in RuleMaps /\ Disjoint(wanted')
  /\ UNCHANGED <<serving, shut>>

Return == calling' = FALSE /\ wanted' = NoRules /\ UNCHANGED shut

Commit == calling /\ serving' = wanted /\ Return

Fail == calling /\ serving' = serving /\ Return

Shut ==
  /\ ~calling /\ ~shut
  /\ shut' = TRUE
  /\ serving' = NoRules
  /\ UNCHANGED <<calling, wanted>>

Step == Call \/ Commit \/ Fail \/ Shut

Transactions == Start /\ [][Step]_tvars
================================================================================
