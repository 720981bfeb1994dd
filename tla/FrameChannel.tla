---------------------------- MODULE FrameChannel ----------------------------
(***************************************************************************)
(* What one direction of a connection promises: one frame is sent, and the *)
(* other side obtains that whole frame or an error, once.                  *)
(***************************************************************************)
CONSTANTS Frames, NoFrame, Failed

VARIABLES
  sent,            \* the frame the sender began to send, or NoFrame
  got              \* what the receiver's call returned: a frame or Failed

Init == sent = NoFrame /\ got = NoFrame

Send == /\ sent = NoFrame
        /\ \E f \in Frames : sent' = f
        /\ UNCHANGED got

Deliver == /\ sent # NoFrame /\ got = NoFrame
           /\ got' = sent
           /\ UNCHANGED sent

Fail == /\ got = NoFrame
        /\ got' = Failed
        /\ UNCHANGED sent

Next == Send \/ Deliver \/ Fail

Spec == Init /\ [][Next]_<<sent, got>>

=============================================================================
