--------------------------- MODULE MCPNMLauncher ---------------------------
(***************************************************************************)
(* Instances of PNMLauncher: three runs, so that a run meets what two      *)
(* earlier ones left behind.                                               *)
(***************************************************************************)
EXTENDS PNMLauncher
=============================================================================
