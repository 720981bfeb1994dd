---------------------------- MODULE MCPNMOffload ----------------------------
(***************************************************************************)
(* Instances of PNMOffload.  The word is scaled down to 8 values; a size   *)
(* of 5 is charged as (5 + 5) % 8 = 2 bytes, and 7 is refused.             *)
(***************************************************************************)
EXTENDS PNMOffload

CONSTANTS j1, j2

MCModulus == [n \in {1, 2, 4, 8} |-> 8]

Together == {<<TRUE, TRUE>>}
EveryMode == {<<TRUE, TRUE>>, <<TRUE, FALSE>>, <<FALSE, FALSE>>}
=============================================================================
