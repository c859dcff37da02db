------------------------ MODULE MCVideoNegotiation ------------------------
(* Instances of VideoNegotiation for TLC. *)
EXTENDS VideoNegotiation
=============================================================================
