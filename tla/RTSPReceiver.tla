--------------------------- MODULE RTSPReceiver ---------------------------
(***************************************************************************)
(* RTSPReceiver.cpp: a chain of callbacks in one event loop.  It describes *)
(* the stream, sets up one track (subsession) after the other, plays, and  *)
(* ends when its last track has got a BYE or when its timer fires.         *)
(***************************************************************************)
EXTENDS RTSPChannel

VARIABLES
  rpc,    \* what each receiver waits for
  track,  \* the subsession being set up (scs.subsession)
  sink,   \* the sink of each subsession: "none" yet, "active", or "closed"
  timers  \* the receivers whose streamTimerTask is scheduled

receiverVars == <<rpc, track, sink, timers>>

ReceiverPCs == {"off", "describe", "setup", "play", "playing", "ended"}

ReceiverTypeOK ==
  /\ rpc \in [Viewers -> ReceiverPCs]
  /\ track \in [Viewers -> Tracks]
  /\ sink \in [Viewers -> [Tracks -> {"none", "active", "closed"}]]
  /\ timers \subseteq Viewers

ReceiverInit ==
  /\ rpc   = [c \in Viewers |-> "off"]
  /\ track = [c \in Viewers |-> 1]
  /\ sink  = [c \in Viewers |-> [t \in Tracks |-> "none"]]
  /\ timers = {}

ActiveTracks(c) == {t \in Tracks : sink[c][t] = "active"}

\* Has the server given this receiver a session id?  (A successful SETUP.)
HasSessionId(c) == \E t \in Tracks : sink[c][t] # "none"

\* shutdownStream: closes the sinks that are left, tells the server if there
\* were any, and exits.  The process takes its timer with it.
ShutdownStream(c) ==
  /\ sink'    = [sink EXCEPT ![c] =
                   [t \in Tracks |-> IF sink[c][t] = "active"
                                     THEN "closed" ELSE sink[c][t]]]
  /\ request' = [request EXCEPT ![c] = IF ActiveTracks(c) # {}
                                       THEN "teardown" ELSE request[c]]
  /\ rpc'     = [rpc EXCEPT ![c] = "ended"]
  /\ timers' = timers \ {c}

SetupTrack(c, t) ==
  /\ track'   = [track EXCEPT ![c] = t]
  /\ request' = [request EXCEPT ![c] = "setup"]
  /\ rpc'     = [rpc EXCEPT ![c] = "setup"]

Play(c) ==
  /\ request' = [request EXCEPT ![c] = "play"]
  /\ rpc'     = [rpc EXCEPT ![c] = "play"]
  /\ UNCHANGED track

\* Without a session id sendPlayCommand fails at once, and continueAfterPLAY
\* shuts the receiver down; no sink was ever created.
PlayFails(c) ==
  /\ rpc' = [rpc EXCEPT ![c] = "ended"]
  /\ UNCHANGED <<track, request>>

\* Mutant: the iterator goes one too far.
SetupPastTheEnd(c, t0) ==
  \E t \in t0..(NumTracks + 2) :
    /\ IF t = t0 THEN UNCHANGED faults ELSE Fault
    /\ IF t <= NumTracks + 1 THEN SetupTrack(c, t)
       ELSE IF HasSessionId(c)' THEN Play(c) ELSE PlayFails(c)

\* SETUP of the first track from t0 on whose sockets can be created, or PLAY
\* when there is none.  (The SETUP just answered may have given the id.)
SetupNextSubsession(c, t0) ==
  \E t \in t0..(NumTracks + 1) :
    /\ IF t = t0 THEN UNCHANGED faults ELSE Fault
    /\ IF t \in Tracks THEN SetupTrack(c, t)
       ELSE IF HasSessionId(c)' THEN Play(c) ELSE PlayFails(c)

(***************************************************************************)
(* The callbacks.                                                          *)
(***************************************************************************)
OpenURL(c) ==
  /\ rpc[c] = "off"
  /\ rpc'     = [rpc EXCEPT ![c] = "describe"]
  /\ request' = [request EXCEPT ![c] = "describe"]
  /\ UNCHANGED <<track, sink, timers, reply, bye, duration, faults>>

\* The answer arrives; once the server is gone, an error takes its place.
Answered(c, answer, gone) ==
  /\ \/ reply[c] = answer
     \/ reply[c] = "none" /\ gone /\ answer = "error"
  /\ reply' = [reply EXCEPT ![c] = "none"]

ContinueAfterDESCRIBE(c, gone) ==
  /\ rpc[c] = "describe"
  /\ \/ /\ Answered(c, "ok", gone)
        /\ UNCHANGED <<sink, timers>>
        /\ SetupNextSubsession(c, 1)
     \/ /\ Answered(c, "error", gone)
        /\ ShutdownStream(c)
        /\ UNCHANGED <<track, faults>>
  /\ UNCHANGED <<bye, duration>>

\* A track that cannot be set up is skipped.
ContinueAfterSETUP(c, gone) ==
  /\ rpc[c] = "setup"
  /\ \/ /\ Answered(c, "ok", gone)
        /\ sink' = [sink EXCEPT ![c][track[c]] = "active"]
        /\ SetupNextSubsession(c, track[c] + 1)
     \/ /\ Answered(c, "error", gone)
        /\ UNCHANGED sink
        /\ SetupNextSubsession(c, track[c] + 1)
  /\ UNCHANGED <<timers, bye, duration>>

\* Mutant: no timer is scheduled.
ContinueWithoutTimer(c, gone) ==
  /\ rpc[c] = "play"
  /\ \/ /\ Answered(c, "ok", gone)
        /\ rpc' = [rpc EXCEPT ![c] = "playing"]
        /\ UNCHANGED <<sink, request, timers>>
     \/ /\ Answered(c, "error", gone)
        /\ ShutdownStream(c)
  /\ UNCHANGED <<track, bye, duration, faults>>

ContinueAfterPLAY(c, gone) ==
  /\ rpc[c] = "play"
  /\ \/ /\ Answered(c, "ok", gone)
        /\ rpc'   = [rpc EXCEPT ![c] = "playing"]
        /\ timers' = IF duration = "known" THEN timers \cup {c} ELSE timers
        /\ UNCHANGED <<sink, request>>
     \/ /\ Answered(c, "error", gone)
        /\ ShutdownStream(c)
  /\ UNCHANGED <<track, bye, duration, faults>>

\* Mutant: the sink is closed, and nobody looks whether it was the last one.
ByeClosesOnly(c, t) ==
  /\ bye[c][t] = "flying"
  /\ bye' = [bye EXCEPT ![c][t] = "arrived"]
  /\ rpc[c] # "ended" /\ sink[c][t] = "active"
  /\ sink' = [sink EXCEPT ![c][t] = "closed"]
  /\ UNCHANGED <<rpc, timers, request, track, reply, duration, faults>>

\* Mutant: the first BYE ends the receiver, and the other sinks stay.
ByeEndsAtOnce(c, t) ==
  /\ bye[c][t] = "flying"
  /\ bye' = [bye EXCEPT ![c][t] = "arrived"]
  /\ rpc[c] # "ended" /\ sink[c][t] = "active"
  /\ sink'  = [sink EXCEPT ![c][t] = "closed"]
  /\ rpc'   = [rpc EXCEPT ![c] = "ended"]
  /\ timers' = timers \ {c}
  /\ UNCHANGED <<track, request, reply, duration, faults>>

\* subsessionByeHandler and subsessionAfterPlaying: the receiver shuts down,
\* without TEARDOWN, when no other track has a sink any more.
SubsessionBye(c, t) ==
  /\ bye[c][t] = "flying"
  /\ bye' = [bye EXCEPT ![c][t] = "arrived"]
  /\ rpc[c] # "ended" /\ sink[c][t] = "active"
  /\ sink' = [sink EXCEPT ![c][t] = "closed"]
  /\ \/ /\ ActiveTracks(c) = {t}
        /\ rpc'     = [rpc EXCEPT ![c] = "ended"]
        /\ timers' = timers \ {c}
     \/ /\ ActiveTracks(c) # {t}
        /\ UNCHANGED <<rpc, timers>>
  /\ UNCHANGED <<track, request, reply, duration, faults>>

\* streamTimerHandler, two seconds after the video's stated duration.
StreamTimer(c) ==
  /\ c \in timers
  /\ ShutdownStream(c)
  /\ UNCHANGED <<track, reply, bye, duration, faults>>

\* The user interrupts the receiver; what it sent still reaches the server.
Interrupt(c) ==
  /\ rpc[c] \notin {"off", "ended"}
  /\ Fault
  /\ sink'  = [sink EXCEPT ![c] =
                 [t \in Tracks |-> IF sink[c][t] = "active"
                                   THEN "closed" ELSE sink[c][t]]]
  /\ rpc'   = [rpc EXCEPT ![c] = "ended"]
  /\ timers' = timers \ {c}
  /\ UNCHANGED <<track, request, reply, bye, duration>>

ReceiverStep(c, gone) ==
  \/ ContinueAfterDESCRIBE(c, gone)
  \/ ContinueAfterSETUP(c, gone)
  \/ ContinueAfterPLAY(c, gone)
  \/ \E t \in Tracks : SubsessionBye(c, t)
  \/ StreamTimer(c)
=============================================================================
