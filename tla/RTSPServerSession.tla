------------------------- MODULE RTSPServerSession -------------------------
(***************************************************************************)
(* The RTSP server inside RTSPServer while it streams one video: a client  *)
(* session per viewer and a StreamState per track of a session.  A viewer's*)
(* own source and sink feed each of its tracks (reuseFirstSource is off).  *)
(*                                                                         *)
(* This repository's LIVE555 ends handleCmd_TEARDOWN with exit(0).         *)
(***************************************************************************)
EXTENDS RTSPChannel

VARIABLES
  server,   \* "listening" on 8554, "serving" the stream, or "exited"
  sessions, \* the viewers that have a client session
  state     \* the StreamState of each track of that session

serverVars == <<server, sessions, state>>

StreamStates == {"none", "ready", "playing", "finished", "reclaimed"}

ServerTypeOK ==
  /\ server \in {"listening", "serving", "exited"}
  /\ sessions \subseteq Viewers
  /\ state \in [Viewers -> [Tracks -> StreamStates]]

NoStreams == [t \in Tracks |-> "none"]

ServerInit ==
  /\ server  = "listening"
  /\ sessions = {}
  /\ state   = [c \in Viewers |-> NoStreams]

Up == server # "exited"

\* startVideoStreaming adds the session once the file's tracks are known.
AddServerMediaSession ==
  /\ server = "listening"
  /\ server' = "serving"
  /\ UNCHANGED <<sessions, state, channelVars>>

HandleDESCRIBE(c) ==
  /\ Up /\ request[c] = "describe"
  /\ Respond(c, IF server = "serving" THEN "ok" ELSE "error")
  /\ UNCHANGED <<serverVars, bye, duration, faults>>

\* A SETUP without a session id creates the session; one with the id of a
\* session that is gone gets 454.
HandleSETUP(c, t, hasId) ==
  /\ Up /\ request[c] = "setup"
  /\ IF c \in sessions \/ ~hasId
     THEN /\ sessions' = sessions \cup {c}
          /\ state'   = [state EXCEPT ![c][t] = "ready"]
          /\ Respond(c, "ok")
     ELSE /\ Respond(c, "error")
          /\ UNCHANGED <<sessions, state>>
  /\ UNCHANGED <<server, bye, duration, faults>>

\* Mutant: PLAY starts one of the tracks.
PlayOneTrack(c) ==
  /\ Up /\ request[c] = "play"
  /\ IF c \in sessions
     THEN /\ \E t \in Tracks :
               /\ state[c][t] = "ready"
               /\ state' = [state EXCEPT ![c][t] = "playing"]
          /\ Respond(c, "ok")
     ELSE /\ Respond(c, "error")
          /\ UNCHANGED state
  /\ UNCHANGED <<server, sessions, bye, duration, faults>>

\* PLAY starts every track that was set up, and only then answers.
HandlePLAY(c) ==
  /\ Up /\ request[c] = "play"
  /\ IF c \in sessions
     THEN /\ state' = [state EXCEPT ![c] =
                         [t \in Tracks |-> IF state[c][t] = "ready"
                                           THEN "playing" ELSE state[c][t]]]
          /\ Respond(c, "ok")
     ELSE /\ Respond(c, "error")
          /\ UNCHANGED state
  /\ UNCHANGED <<server, sessions, bye, duration, faults>>

\* The session's streams lose their destinations before they are deleted, so
\* no BYE goes out.
DeleteSession(c) ==
  /\ sessions' = sessions \ {c}
  /\ state'   = [state EXCEPT ![c] = NoStreams]

\* Mutant: LIVE555 as published, which goes on after a TEARDOWN.
TeardownAndStay(c) ==
  /\ Up /\ request[c] = "teardown"
  /\ request' = [request EXCEPT ![c] = "none"]
  /\ IF c \in sessions THEN DeleteSession(c) ELSE UNCHANGED <<sessions, state>>
  /\ UNCHANGED <<server, reply, bye, duration, faults>>

\* TEARDOWN deletes the session and ends the program, other viewers or not,
\* before the 200 OK is sent.  The answer to an unknown session finds nobody.
HandleTEARDOWN(c) ==
  /\ Up /\ request[c] = "teardown"
  /\ request' = [request EXCEPT ![c] = "none"]
  /\ IF c \in sessions
     THEN DeleteSession(c) /\ server' = "exited"
     ELSE UNCHANGED serverVars
  /\ UNCHANGED <<reply, bye, duration, faults>>

\* Mutant: the stream is reclaimed without a BYE.
ReclaimSilently(c, t) ==
  /\ Up /\ state[c][t] = "playing"
  /\ state' = [state EXCEPT ![c][t] = IF duration = "known"
                                      THEN "finished" ELSE "reclaimed"]
  /\ UNCHANGED <<server, sessions, channelVars>>

\* afterPlayingStreamState, at the end of the file: a stream of known duration
\* is kept for a replay; another is reclaimed, which sends a BYE.
AfterPlaying(c, t) ==
  /\ Up /\ state[c][t] = "playing"
  /\ \/ /\ duration = "known"
        /\ state' = [state EXCEPT ![c][t] = "finished"]
        /\ UNCHANGED bye
     \/ /\ duration = "unknown"
        /\ state' = [state EXCEPT ![c][t] = "reclaimed"]
        /\ SendBye(c, t)
  /\ UNCHANGED <<server, sessions, request, reply, duration, faults>>

\* Mutant: only a session that streams times out.
TimeoutWhilePlaying(c) ==
  /\ Up /\ c \in sessions
  /\ \E t \in Tracks : state[c][t] = "playing"
  /\ DeleteSession(c)
  /\ UNCHANGED <<server, request, reply, bye, duration>>

\* livenessTimeoutTask: 65 seconds without a request or a receiver report.
LivenessTimeout(c) ==
  /\ Up /\ c \in sessions
  /\ DeleteSession(c)
  /\ UNCHANGED <<server, request, reply, bye, duration>>

ServerStep(c) ==
  \/ HandleDESCRIBE(c)
  \/ HandlePLAY(c)
  \/ HandleTEARDOWN(c)
  \/ \E t \in Tracks : AfterPlaying(c, t)
=============================================================================
