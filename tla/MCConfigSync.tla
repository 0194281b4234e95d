------------------------------ MODULE MCConfigSync ------------------------------
(***************************************************************************)
(* A node with two rules and two addresses, one of which another process   *)
(* of the host takes at times.  The configurations add, remove, retarget   *)
(* and move rules, hand an address from one rule to the other, and ask for *)
(* the same listener twice, which the agent rejects.                       *)
(***************************************************************************)
EXTENDS ConfigSync

CONSTANTS n1, r1, r2, a1, a2, t1, t2

On(addr, target) == [nets |-> {"tcp"}, listen |-> addr, target |-> target, kbps |-> 0]
Map(first, second) == [id \in RuleIds |-> IF id = r1 THEN first ELSE second]

MCConfigs ==
  {NoRules, Map(On(a1, t1), None), Map(On(a1, t2), None), Map(On(a1, t1), On(a2, t1)),
   Map(On(a2, t1), None), Map(On(a2, t1), On(a1, t1)), Map(On(a1, t1), On(a1, t1))}

MCContested == {<<"tcp", a1>>}

\* For the rule that outlives its deletion: an address that is handed over.
MCFewConfigs == {NoRules, Map(On(a1, t1), None), Map(None, On(a1, t1))}

\* For the liveness properties, with a restored database: a rule that comes and
\* goes, and an address that another process may hold.
MCTwoConfigs == {NoRules, Map(On(a1, t1), None)}
================================================================================
