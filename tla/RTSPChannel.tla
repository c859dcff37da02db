---------------------------- MODULE RTSPChannel ----------------------------
(***************************************************************************)
(* What RTSPReceiver and the RTSP server of RTSPServer share while a video *)
(* is streamed: one RTSP connection per viewer, the RTCP BYE packets, and  *)
(* a count of the faults so far.                                           *)
(*                                                                         *)
(* RTSPReceiver sends a request only after the answer to the previous one, *)
(* so one request and one reply per viewer are all the connection holds.   *)
(***************************************************************************)
EXTENDS Naturals

CONSTANTS
  Viewers,    \* runs of RTSPReceiver
  NumTracks,  \* tracks of the video
  MaxFaults   \* bound on faults

ASSUME ChannelAssumption == NumTracks \in Nat \ {0} /\ MaxFaults \in Nat

VARIABLES
  request,  \* the request each viewer sent that the server has not read
  reply,    \* the server's answer that the viewer has not read
  bye,      \* what became of the BYE of each track of each viewer
  duration, \* does the Matroska file state it: "known" or "unknown"
  faults

channelVars == <<request, reply, bye, duration, faults>>

Tracks == 1..NumTracks

ChannelTypeOK ==
  /\ request \in [Viewers -> {"none", "describe", "setup", "play", "teardown"}]
  /\ reply \in [Viewers -> {"none", "ok", "error"}]
  /\ bye \in [Viewers -> [Tracks -> {"unsent", "flying", "lost", "arrived"}]]
  /\ duration \in {"known", "unknown"}
  /\ faults \in 0..MaxFaults

ChannelInit ==
  /\ request = [c \in Viewers |-> "none"]
  /\ reply   = [c \in Viewers |-> "none"]
  /\ bye     = [c \in Viewers |-> [t \in Tracks |-> "unsent"]]
  /\ duration \in {"known", "unknown"}
  /\ faults  = 0

Fault == faults < MaxFaults /\ faults' = faults + 1

Respond(c, answer) ==
  /\ request' = [request EXCEPT ![c] = "none"]
  /\ reply'   = [reply EXCEPT ![c] = answer]

SendBye(c, t) == bye' = [bye EXCEPT ![c][t] = "flying"]

\* RTCP runs over UDP.
LoseBye(c, t) ==
  /\ bye[c][t] = "flying"
  /\ Fault
  /\ bye' = [bye EXCEPT ![c][t] = "lost"]
=============================================================================
