---------------------------- MODULE MCPNMStaging ----------------------------
(***************************************************************************)
(* Instances of PNMStaging.  Two jobs with up to two outputs, one after    *)
(* the other or at once: a job meets what the other left in the staging    *)
(* directory, and a file number that both use.                             *)
(***************************************************************************)
EXTENDS PNMStaging, TLC

JobSymmetry == Permutations(Jobs)
=============================================================================
