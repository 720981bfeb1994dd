-------------------------- MODULE MCPNMSimulation --------------------------
(***************************************************************************)
(* Instances of PNMSimulation: three jobs, so that jobs follow another,   *)
(* in both ways of reaching the ROI.                                       *)
(***************************************************************************)
EXTENDS PNMSimulation

MCModulus == [n \in {1, 2, 4, 8} |-> 8]
=============================================================================
