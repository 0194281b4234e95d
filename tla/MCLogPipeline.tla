----------------------------- MODULE MCLogPipeline ------------------------------
(***************************************************************************)
(* A buffer of three entries and batches of two, so that entries of a batch*)
(* that is under way are discarded and batches overlap.                    *)
(***************************************************************************)
EXTENDS LogPipeline
================================================================================
