---------------------------- MODULE MCStreaming ----------------------------
(* Instances of Streaming for TLC. *)
EXTENDS Streaming
=============================================================================
