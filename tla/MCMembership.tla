------------------------------ MODULE MCMembership -------------------------------
(***************************************************************************)
(* Two requests overlap: each may be about an actor of the other.          *)
(***************************************************************************)
EXTENDS Membership, TLC

Symmetry == Permutations(UserIds) \cup Permutations(Tokens) \cup Permutations(Names)
              \cup Permutations(Requests)
================================================================================
