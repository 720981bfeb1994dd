----------------------------- MODULE MCPNMDrain -----------------------------
(***************************************************************************)
(* Instances of PNMDrain: three doorbells and three drains, so that a      *)
(* drain meets every position of a doorbell and a second drain meets what  *)
(* the first left behind.                                                  *)
(***************************************************************************)
EXTENDS PNMDrain

MCModulus == [n \in {1, 2, 4, 8} |-> 8]
=============================================================================
