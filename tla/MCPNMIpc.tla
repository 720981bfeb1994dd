------------------------------ MODULE MCPNMIpc ------------------------------
(***************************************************************************)
(* Instances of PNMIpc.  With two values per byte a length has 16 values:  *)
(* the smallest message has 12 bytes, so inputs of 3, 4, 6 and 17 bytes    *)
(* are the largest that fits, the first that wraps to nothing, one that    *)
(* is cut inside a header, and one whose own length wraps.                 *)
(***************************************************************************)
EXTENDS PNMIpc

Zeros(n) == [i \in 1 .. n |-> 0]
Mixed(n) == [i \in 1 .. n |-> i % 2]

MCJobs == { << <<>>, <<>>, <<>> >>, << <<1>>, <<0>>, <<1>> >>,
            << <<>>, <<>>, Mixed(3) >>, << <<>>, <<>>, Mixed(4) >>,
            << <<0>>, <<>>, Mixed(6) >>, << <<>>, <<>>, Mixed(17) >> }

MCAnswers == { <<1>>, <<0>>, <<0, 1, 1>>, Zeros(16), Zeros(17) }
=============================================================================
