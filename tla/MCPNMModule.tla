---------------------------- MODULE MCPNMModule ----------------------------
(***************************************************************************)
(* Instances of PNMModule: the service, the worker and another process,    *)
(* and three loads, so that one follows a load that failed and one that    *)
(* was undone.                                                             *)
(***************************************************************************)
EXTENDS PNMModule
=============================================================================
