----------------------------- MODULE Streaming -----------------------------
(***************************************************************************)
(* RTSPReceiver runs and the RTSP server of one RTSPServer run, streaming  *)
(* one video: the second half of the program, after the UDP negotiation.   *)
(***************************************************************************)
EXTENDS RTSPReceiver, RTSPServerSession

vars == <<receiverVars, serverVars, channelVars>>

Init == ReceiverInit /\ ServerInit /\ ChannelInit

Gone == ~Up

Receive(c) ==
  /\ ReceiverStep(c, Gone)
  /\ UNCHANGED serverVars

Serve(c) ==
  /\ ServerStep(c) \/ HandleSETUP(c, track[c], HasSessionId(c))
  /\ UNCHANGED receiverVars

Add == AddServerMediaSession /\ UNCHANGED receiverVars

Start(c) == OpenURL(c) /\ UNCHANGED serverVars

\* A receiver that runs keeps its session alive with receiver reports, unless
\* they are lost; one that has ended does not.
Expire(c) ==
  /\ rpc[c] = "ended" /\ request[c] = "none"
  /\ LivenessTimeout(c)
  /\ UNCHANGED <<receiverVars, faults>>

ExpireEarly(c) ==
  /\ rpc[c] # "ended" \/ request[c] # "none"
  /\ Fault
  /\ LivenessTimeout(c)
  /\ UNCHANGED receiverVars

Lose(c) ==
  /\ \E t \in Tracks : LoseBye(c, t)
  /\ UNCHANGED <<receiverVars, serverVars, request, reply, duration>>

Kill(c) == Interrupt(c) /\ UNCHANGED serverVars

Next ==
  \/ Add
  \/ \E c \in Viewers :
       \/ Start(c) \/ Receive(c) \/ Serve(c) \/ Expire(c)
       \/ ExpireEarly(c) \/ Lose(c) \/ Kill(c)

Spec == Init /\ [][Next]_vars

\* Both event loops keep turning, the file ends, and a session that nobody
\* refreshes times out.  Nobody is obliged to start a receiver.
Fairness ==
  /\ WF_vars(Add)
  /\ \A c \in Viewers :
       /\ WF_vars(Receive(c))
       /\ WF_vars(Serve(c))
       /\ WF_vars(Expire(c))

FairSpec == Spec /\ Fairness

(***************************************************************************)
(* Properties.                                                             *)
(***************************************************************************)

\* Every variable has its type.
TypeOK == ReceiverTypeOK /\ ServerTypeOK /\ ChannelTypeOK

\* While a receiver plays, or waits for the answer to PLAY, some track is
\* still open: subsessionAfterPlaying is the only place where a receiver
\* without a timer can end, and it runs when a sink is closed.
PlayingIsOpen ==
  \A c \in Viewers : rpc[c] \in {"play", "playing"} => ActiveTracks(c) # {}

\* A receiver never waits in vain for the BYE of a stream that the server has
\* reclaimed: the BYE is on its way, or the network lost it.  BYEs race the
\* answer to PLAY and the BYEs of other tracks.
ByeAccounted ==
  \A c \in Viewers, t \in Tracks :
    (state[c][t] = "reclaimed" /\ sink[c][t] = "active")
      => bye[c][t] \in {"flying", "lost"}

\* The two ends agree on a track: one that plays here was set up there, unless
\* the server has timed the session out or exited.
EndsAgree ==
  \A c \in Viewers, t \in Tracks :
    (sink[c][t] = "active" /\ c \in sessions) =>
      /\ state[c][t] # "none"
      /\ (rpc[c] = "playing" => state[c][t] # "ready")

Phase(c) ==
  CASE rpc[c] \in {"off", "describe", "setup"} -> "opening"
    [] rpc[c] \in {"play", "playing"}          -> "playing"
    [] OTHER                                   -> "over"

Opened(c) == {t \in Tracks : sink[c][t] # "none"}

\* A receiver implements Viewing.
View ==
  INSTANCE Viewing WITH
    phase  <- [c \in Viewers |-> Phase(c)],
    open   <- [c \in Viewers |-> ActiveTracks(c)],
    opened <- [c \in Viewers |-> Opened(c)]

ImplementsViewing == View!Spec

\* The server dropped the session of a receiver that still runs.
Abandoned(c) == HasSessionId(c) /\ c \notin sessions /\ Up

\* A receiver ends, whatever happens to the server and to other receivers.
\* Two things can leave it running for ever, and only if the file does not
\* state its duration: a lost BYE and a session dropped without one.
ReceiverEnds ==
  \A c \in Viewers :
    rpc[c] = "describe" ~>
      \/ rpc[c] = "ended"
      \/ /\ duration = "unknown"
         /\ Abandoned(c) \/ \E t \in Tracks : bye[c][t] = "lost"

\* A session whose receiver has ended, with or without a TEARDOWN, does not
\* stay in the server.
SessionsReclaimed ==
  \A c \in Viewers :
    (rpc[c] = "ended" /\ c \in sessions) ~> (c \notin sessions \/ ~Up)

\* RTSPServer terminates after it has streamed a video whose duration is
\* stated, unless there is a fault: the receiver's timer leads to a TEARDOWN.
KnownVideoEndsServer ==
  \A c \in Viewers :
    (duration = "known" /\ rpc[c] = "playing") ~> ~Up \/ faults > 0

\* Readme.pdf, section 5: "When the streaming ends, it [RTSPServer]
\* terminates."
ServerTerminates ==
  \A c \in Viewers : rpc[c] = "playing" ~> ~Up
=============================================================================
