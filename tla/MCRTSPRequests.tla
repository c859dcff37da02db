-------------------------- MODULE MCRTSPRequests --------------------------
(* Instances of RTSPRequests for TLC. *)
EXTENDS RTSPRequests, TLC

Symmetric == Permutations(Requests)
=============================================================================
