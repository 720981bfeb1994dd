--------------------------- MODULE MCPNMCompactor ---------------------------
(***************************************************************************)
(* The device under its most general client.  The word is scaled down to   *)
(* 16 values: 9 + 9 wraps, 15 exceeds MAX_JOB_BYTES, and 9 stored with a   *)
(* narrow access arrives as 1 (so it also submits when stored in CMD).     *)
(***************************************************************************)
EXTENDS PNMCompactor

MCModulus == [n \in AccessSizes |-> IF n = 8 THEN 16 ELSE 8]
=============================================================================
