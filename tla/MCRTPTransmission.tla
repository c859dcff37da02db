-------------------------- MODULE MCRTPTransmission --------------------------
(***************************************************************************)
(* Properties of a track on its way, for TLC.                              *)
(***************************************************************************)
EXTENDS RTPTransmission

\* A stream that plays ends or is paused: no frame is kept from packet to
\* packet for ever.
StreamEnds == playing ~> ~playing
=============================================================================
