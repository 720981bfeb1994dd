------------------------------ MODULE MCBridge ------------------------------
(***************************************************************************)
(* Three reads and two posted writes through a bridge of two request and   *)
(* two response slots: each queue can be full alone or together with the   *)
(* other one, and a posted write can pass while no response slot is left.  *)
(***************************************************************************)
EXTENDS Bridge

CONSTANTS r1, r2, r3, w1, w2

MCReads == {r1, r2, r3}
MCPackets == MCReads \cup {w1, w2}
=============================================================================
