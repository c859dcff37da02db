---------------------- MODULE MCMultiFramedRTPSource ----------------------
(* Instances of MultiFramedRTPSource for TLC. *)
EXTENDS MultiFramedRTPSource

\* Frames of three, one, two and again one packet, and so on.
Starts == {n \in 0..(NumPackets - 1) : n % 7 \in {0, 3, 4, 6}}
=============================================================================
