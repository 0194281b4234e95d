----------------------------- MODULE MCTcpForwarder ------------------------------
(***************************************************************************)
(* Three connections, of which a client is denied by one configuration and *)
(* the other allows a single one; the configuration changes twice.         *)
(***************************************************************************)
EXTENDS TcpForwarder

CONSTANTS c1, c2

MCConfigs == {[max |-> 0, denied |-> {c2}], [max |-> 1, denied |-> {}]}
================================================================================
