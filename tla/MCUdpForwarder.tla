----------------------------- MODULE MCUdpForwarder ------------------------------
(***************************************************************************)
(* Two clients, three sessions and two updates: room for a session that is *)
(* closed and made again and for one made while the target is changed.  Of *)
(* the two configurations, with a target each, one has a limit of a single *)
(* session.                                                                *)
(***************************************************************************)
EXTENDS UdpForwarder

CONSTANTS c1, c2, t1, t2

MCConfigs ==
  {[target |-> t1, max |-> 0, denied |-> {}], [target |-> t2, max |-> 1, denied |-> {c2}]}
================================================================================
