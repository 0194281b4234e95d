--------------------------- MODULE MCBandwidthLimiter ---------------------------
(***************************************************************************)
(* Two callers; a burst that follows the rate, one that is the least and   *)
(* one that is the most; a byte count no burst covers.                     *)
(***************************************************************************)
EXTENDS BandwidthLimiter
CONSTANTS c1, c2
================================================================================
