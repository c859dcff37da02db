-------------------------- MODULE StreamingProofs --------------------------
(***************************************************************************)
(* Proofs about Streaming, for any viewers, tracks and number of faults.   *)
(***************************************************************************)
EXTENDS Streaming, TLAPS

Early(c) == rpc[c] \in {"off", "describe", "setup"}

\* One request at a time, and only the one its callback waits for: an answer
\* that has arrived leaves nothing on the way to the server.
RequestInv(c) ==
  /\ reply[c] # "none" => request[c] = "none"
  /\ rpc[c] \in {"off", "playing"} => request[c] = "none" /\ reply[c] = "none"
  /\ c \in timers => rpc[c] = "playing"
  /\ rpc[c] = "describe" => request[c] \in {"none", "describe"}
  /\ rpc[c] = "setup" => request[c] \in {"none", "setup"}
  /\ rpc[c] = "play" => request[c] \in {"none", "play"}

\* Before the receiver has asked for PLAY it closes no sink, and nothing plays
\* and no BYE is sent.
EarlyInv(c) ==
  /\ rpc[c] \in {"off", "describe"} => \A t \in Tracks : sink[c][t] = "none"
  /\ rpc[c] = "setup" => \A t \in Tracks :
                           /\ sink[c][t] # "closed"
                           /\ t >= track[c] => sink[c][t] = "none"
  /\ Early(c) => \A t \in Tracks : /\ bye[c][t] = "unsent"
                                   /\ state[c][t] \in {"none", "ready"}

\* What an answer "ok" that is still unread says of the server.
AnswerInv(c) ==
  (reply[c] = "ok" /\ c \in sessions) =>
    /\ rpc[c] = "setup" => state[c][track[c]] # "none"
    /\ rpc[c] = "play" => \A t \in Tracks : state[c][t] # "ready"

\* A receiver that plays has an open track; one that has ended has none.
OpenInv(c) ==
  /\ rpc[c] \in {"play", "playing"} => \E t \in Tracks : sink[c][t] = "active"
  /\ rpc[c] = "ended" => \A t \in Tracks : sink[c][t] # "active"

ByeInv(c) ==
  \A t \in Tracks :
    (state[c][t] = "reclaimed" /\ sink[c][t] = "active")
      => bye[c][t] \in {"flying", "lost"}

AgreeInv(c) ==
  \A t \in Tracks :
    (sink[c][t] = "active" /\ c \in sessions) =>
      /\ state[c][t] # "none"
      /\ (rpc[c] = "playing" => state[c][t] # "ready")

ViewerInv(c) ==
  /\ RequestInv(c)
  /\ EarlyInv(c)
  /\ AnswerInv(c)
  /\ OpenInv(c)
  /\ ByeInv(c)
  /\ AgreeInv(c)

\* The inductive invariant.
IInv == TypeOK /\ \A c \in Viewers : ViewerInv(c)

-----------------------------------------------------------------------------

\* What setupNextSubsession can do.
LEMMA SetupNext ==
  ASSUME NEW c \in Viewers, NEW t0 \in Nat, SetupNextSubsession(c, t0)
  PROVE  \/ \E t \in Tracks : t >= t0 /\ SetupTrack(c, t)
         \/ HasSessionId(c)' /\ Play(c)
         \/ ~HasSessionId(c)' /\ PlayFails(c)
  BY ChannelAssumption DEF SetupNextSubsession

LEMMA TypeDescribe ==
  ASSUME TypeOK,
         NEW c \in Viewers,
         ContinueAfterDESCRIBE(c, Gone),
         UNCHANGED serverVars
  PROVE  TypeOK'
<1> USE ChannelAssumption DEF TypeOK
<1>1. ReceiverTypeOK'
  <2>1. rpc' \in [Viewers -> ReceiverPCs] /\ track' \in [Viewers -> Tracks]
    <3>1. CASE SetupNextSubsession(c, 1)
      BY <3>1, SetupNext
      DEF ReceiverTypeOK, SetupTrack, Play, PlayFails, ReceiverPCs
    <3>2. CASE ShutdownStream(c) /\ UNCHANGED track
      BY <3>2 DEF ReceiverTypeOK, ShutdownStream, ReceiverPCs
    <3> QED
      BY <3>1, <3>2 DEF ContinueAfterDESCRIBE
  <2>2. sink' \in [Viewers -> [Tracks -> {"none", "active", "closed"}]] /\ timers' \subseteq Viewers
    BY DEF ReceiverTypeOK, ContinueAfterDESCRIBE, ShutdownStream
  <2> QED
    BY <2>1, <2>2 DEF ReceiverTypeOK
<1>2. ServerTypeOK'
  BY DEF ServerTypeOK, serverVars
<1>3. ChannelTypeOK'
  <2>1. request' \in [Viewers -> {"none", "describe", "setup", "play", "teardown"}]
    BY DEF ChannelTypeOK, ContinueAfterDESCRIBE, ShutdownStream,
           SetupNextSubsession, SetupTrack, Play, PlayFails
  <2>2. faults' \in 0..MaxFaults
    BY DEF ChannelTypeOK,  ContinueAfterDESCRIBE, SetupNextSubsession, Fault
  <2>3. reply' \in [Viewers -> {"none", "ok", "error"}] /\ UNCHANGED <<bye, duration>>
    BY DEF ChannelTypeOK,  ContinueAfterDESCRIBE, Answered
  <2> QED
    BY <2>1, <2>2, <2>3 DEF ChannelTypeOK
<1> QED
  BY <1>1, <1>2, <1>3

LEMMA TypeSetup ==
  ASSUME TypeOK,
         NEW c \in Viewers,
         ContinueAfterSETUP(c, Gone),
         UNCHANGED serverVars
  PROVE  TypeOK'
<1> USE ChannelAssumption DEF TypeOK
<1>0. track[c] \in Tracks
  BY DEF ReceiverTypeOK
<1>1. ReceiverTypeOK'
  <2>1. rpc' \in [Viewers -> ReceiverPCs] /\ track' \in [Viewers -> Tracks]
    <3>0. track[c] + 1 \in Nat
      BY <1>0 DEF Tracks
    <3>1. SetupNextSubsession(c, track[c] + 1)
      BY DEF ContinueAfterSETUP
    <3> QED
      BY <3>0, <3>1, SetupNext
      DEF ReceiverTypeOK, SetupTrack, Play, PlayFails, ReceiverPCs
  <2>2. sink' \in [Viewers -> [Tracks -> {"none", "active", "closed"}]]
    BY <1>0 DEF ReceiverTypeOK, ContinueAfterSETUP
  <2>3. UNCHANGED timers
    BY DEF ContinueAfterSETUP
  <2> QED
    BY <2>1, <2>2, <2>3 DEF ReceiverTypeOK
<1>2. ServerTypeOK'
  BY DEF ServerTypeOK, serverVars
<1>3. ChannelTypeOK'
  <2>1. request' \in [Viewers -> {"none", "describe", "setup", "play", "teardown"}]
    BY DEF ChannelTypeOK, ContinueAfterSETUP, SetupNextSubsession, SetupTrack,
           Play, PlayFails
  <2>2. faults' \in 0..MaxFaults
    BY DEF ChannelTypeOK,  ContinueAfterSETUP, SetupNextSubsession, Fault
  <2>3. reply' \in [Viewers -> {"none", "ok", "error"}] /\ UNCHANGED <<bye, duration>>
    BY DEF ChannelTypeOK,  ContinueAfterSETUP, Answered
  <2> QED
    BY <2>1, <2>2, <2>3 DEF ChannelTypeOK
<1> QED
  BY <1>1, <1>2, <1>3

LEMMA TypeEnd ==
  ASSUME TypeOK,
         NEW c \in Viewers,
         StreamTimer(c) \/ Interrupt(c),
         UNCHANGED serverVars
  PROVE  TypeOK'
<1> USE ChannelAssumption DEF TypeOK
<1>1. ReceiverTypeOK'
  BY DEF ReceiverTypeOK, StreamTimer, Interrupt, ShutdownStream, ReceiverPCs
<1>2. ServerTypeOK'
  BY DEF ServerTypeOK, serverVars
<1>3. ChannelTypeOK'
  BY DEF ChannelTypeOK, StreamTimer, Interrupt, ShutdownStream, Fault
<1> QED
  BY <1>1, <1>2, <1>3

LEMMA NextTypeOK == TypeOK /\ [Next]_vars => TypeOK'
<1> SUFFICES ASSUME TypeOK, [Next]_vars PROVE TypeOK'
  OBVIOUS
<1>1. CASE Add
  BY <1>1 DEF Add, AddServerMediaSession, TypeOK, ReceiverTypeOK, ServerTypeOK,
     ChannelTypeOK, receiverVars, channelVars
<1>2. ASSUME NEW c \in Viewers, Start(c) PROVE TypeOK'
  BY <1>2
  DEF Start, OpenURL, TypeOK, ReceiverTypeOK, ServerTypeOK, ChannelTypeOK,
     serverVars, ReceiverPCs
<1>3. ASSUME NEW c \in Viewers, Receive(c) PROVE TypeOK'
  <2>1. ASSUME ContinueAfterPLAY(c, Gone), UNCHANGED serverVars
       PROVE  TypeOK'
    <3> USE <2>1, ChannelAssumption DEF TypeOK
    <3>1. ReceiverTypeOK'
      <4>1. rpc' \in [Viewers -> ReceiverPCs] /\ track' \in [Viewers -> Tracks]
        BY DEF ReceiverTypeOK, ContinueAfterPLAY, ShutdownStream, ReceiverPCs
      <4>2. sink' \in [Viewers -> [Tracks -> {"none", "active", "closed"}]] /\ timers' \subseteq Viewers
        BY DEF ReceiverTypeOK, ContinueAfterPLAY, ShutdownStream
      <4> QED
        BY <4>1, <4>2 DEF ReceiverTypeOK
    <3>2. ServerTypeOK'
      BY DEF ServerTypeOK, serverVars
    <3>3. ChannelTypeOK'
      BY DEF ChannelTypeOK, ContinueAfterPLAY, ShutdownStream, Answered
    <3> QED
      BY <3>1, <3>2, <3>3
  <2>2. ASSUME NEW t \in Tracks, SubsessionBye(c, t), UNCHANGED serverVars
       PROVE  TypeOK'
    <3> USE <2>2, ChannelAssumption DEF TypeOK
    <3>1. ReceiverTypeOK'
      BY DEF ReceiverTypeOK, SubsessionBye, ReceiverPCs
    <3>2. ServerTypeOK'
      BY DEF ServerTypeOK, serverVars
    <3>3. ChannelTypeOK'
      BY DEF ChannelTypeOK, SubsessionBye
    <3> QED
      BY <3>1, <3>2, <3>3
  <2> QED
    BY <1>3, <2>1, <2>2, TypeDescribe, TypeSetup, TypeEnd
    DEF Receive, ReceiverStep
<1>4. ASSUME NEW c \in Viewers, Serve(c) PROVE TypeOK'
  <2>1. ASSUME HandleSETUP(c, track[c], HasSessionId(c)),
              UNCHANGED receiverVars
       PROVE  TypeOK'
    <3> USE <2>1, ChannelAssumption DEF TypeOK
    <3>0. track[c] \in Tracks
      BY DEF ReceiverTypeOK
    <3>1. ReceiverTypeOK'
      BY DEF ReceiverTypeOK, receiverVars
    <3>2. ServerTypeOK'
      BY <3>0 DEF ServerTypeOK, HandleSETUP, StreamStates
    <3>3. ChannelTypeOK'
      BY DEF ChannelTypeOK, HandleSETUP, Respond
    <3> QED
      BY <3>1, <3>2, <3>3
  <2>2. ASSUME HandleDESCRIBE(c) \/ HandlePLAY(c) \/ HandleTEARDOWN(c),
              UNCHANGED receiverVars
       PROVE  TypeOK'
    <3> USE <2>2, ChannelAssumption DEF TypeOK
    <3>1. ReceiverTypeOK'
      BY DEF ReceiverTypeOK, receiverVars
    <3>2. ServerTypeOK'
      BY DEF ServerTypeOK, HandleDESCRIBE, HandlePLAY, HandleTEARDOWN,
             DeleteSession,
             NoStreams, StreamStates, serverVars
    <3>3. ChannelTypeOK'
      BY DEF ChannelTypeOK, HandleDESCRIBE, HandlePLAY, HandleTEARDOWN, Respond
    <3> QED
      BY <3>1, <3>2, <3>3
  <2>3. ASSUME NEW t \in Tracks, AfterPlaying(c, t), UNCHANGED receiverVars
       PROVE  TypeOK'
    <3> USE <2>3, ChannelAssumption DEF TypeOK
    <3>1. ReceiverTypeOK'
      BY DEF ReceiverTypeOK, receiverVars
    <3>2. ServerTypeOK'
      BY DEF ServerTypeOK, AfterPlaying, StreamStates
    <3>3. ChannelTypeOK'
      BY DEF ChannelTypeOK, AfterPlaying, SendBye
    <3> QED
      BY <3>1, <3>2, <3>3
  <2> QED
    BY <1>4, <2>1, <2>2, <2>3 DEF Serve, ServerStep
<1>5. ASSUME NEW c \in Viewers, Expire(c) \/ ExpireEarly(c) PROVE TypeOK'
  <2> USE <1>5, ChannelAssumption DEF TypeOK
  <2>1. ReceiverTypeOK'
    BY DEF ReceiverTypeOK, receiverVars, Expire, ExpireEarly
  <2>2. ServerTypeOK'
    BY DEF ServerTypeOK, Expire, ExpireEarly, LivenessTimeout, DeleteSession,
           NoStreams, StreamStates
  <2>3. ChannelTypeOK'
    BY DEF ChannelTypeOK, Expire, ExpireEarly, LivenessTimeout, Fault
  <2> QED
    BY <2>1, <2>2, <2>3
<1>6. ASSUME NEW c \in Viewers, Kill(c) PROVE TypeOK'
  BY <1>6, TypeEnd DEF Kill
<1>7. ASSUME NEW c \in Viewers, Lose(c) PROVE TypeOK'
  BY <1>7, ChannelAssumption
  DEF Lose, LoseBye, Fault, TypeOK, ReceiverTypeOK, ServerTypeOK,
     ChannelTypeOK, receiverVars, serverVars
<1>8. CASE UNCHANGED vars
  BY <1>8 DEF vars, TypeOK, ReceiverTypeOK, ServerTypeOK, ChannelTypeOK,
     receiverVars, serverVars, channelVars
<1> QED
  BY <1>1, <1>2, <1>3, <1>4, <1>5, <1>6, <1>7, <1>8 DEF Next

-----------------------------------------------------------------------------

\* A step that does not touch what ViewerInv(d) speaks of.
Untouched(d) ==
  /\ UNCHANGED <<rpc[d], track[d], sink[d], request[d], reply[d], bye[d], state[d]>>
  /\ d \in sessions' <=> d \in sessions
  /\ d \in timers' <=> d \in timers

LEMMA Frame ==
  ASSUME NEW d \in Viewers, ViewerInv(d), Untouched(d)
  PROVE  ViewerInv(d)'
  BY DEF Untouched, ViewerInv, RequestInv, EarlyInv, AnswerInv, OpenInv,
         ByeInv,
     AgreeInv, Early


\* Every step preserves the inductive invariant.
LEMMA NextIInv == IInv /\ [Next]_vars => IInv'
<1> SUFFICES ASSUME IInv, [Next]_vars PROVE IInv'
  OBVIOUS
<1>0. TypeOK /\ TypeOK'
  BY NextTypeOK DEF IInv
<1> USE ChannelAssumption, <1>0
<1>1. ASSUME NEW c \in Viewers, Start(c) PROVE IInv'
  <2>1. \A d \in Viewers \ {c} : Untouched(d)
    BY <1>1
    DEF Untouched, TypeOK, ReceiverTypeOK, ServerTypeOK, ChannelTypeOK, Start,
        OpenURL, serverVars
  <2>2. /\ rpc[c] = "off" /\ rpc'[c] = "describe" /\ request'[c] = "describe"
        /\ UNCHANGED <<timers, sink[c], reply[c], bye[c], track[c], state[c], sessions>>
    BY <1>1
    DEF TypeOK, ReceiverTypeOK, ServerTypeOK, ChannelTypeOK, Start, OpenURL,
        serverVars
  <2>3. ViewerInv(c)
    BY DEF IInv
  <2>4. RequestInv(c)'
    BY <2>2, <2>3 DEF ViewerInv, RequestInv, Early
  <2>5. EarlyInv(c)'
    BY <2>2, <2>3 DEF ViewerInv, EarlyInv, RequestInv, Early
  <2>6. AnswerInv(c)'
    BY <2>2, <2>3 DEF ViewerInv, AnswerInv, RequestInv, EarlyInv, Early
  <2>7. OpenInv(c)'
    BY <2>2, <2>3 DEF ViewerInv, OpenInv, EarlyInv, Early
  <2>8. ByeInv(c)'
    BY <2>2, <2>3 DEF ViewerInv, ByeInv, EarlyInv, RequestInv, Early
  <2>9. AgreeInv(c)'
    BY <2>2, <2>3
    DEF ViewerInv, AgreeInv, AnswerInv, RequestInv, EarlyInv, Early
  <2> QED
    BY <1>0, <2>1, <2>3, <2>4, <2>5, <2>6, <2>7, <2>8, <2>9, Frame
    DEF IInv, ViewerInv
<1>2. ASSUME NEW c \in Viewers,
             ContinueAfterDESCRIBE(c, Gone),
             UNCHANGED serverVars
      PROVE  IInv'
  <2>0. \/ /\ UNCHANGED sink
           /\ reply[c] = "ok"
           /\ \A u \in Tracks : sink[c][u] = "none"
           /\ \/ \E t \in Tracks : SetupTrack(c, t)
              \/ PlayFails(c)
        \/ ShutdownStream(c) /\ UNCHANGED track
    <3>1. CASE reply[c] = "ok" /\ UNCHANGED sink /\ SetupNextSubsession(c, 1)
      <4>1. \A u \in Tracks : sink[c][u] = "none"
        BY <1>2 DEF IInv, ViewerInv, EarlyInv, ContinueAfterDESCRIBE
      <4>2. ~HasSessionId(c)'
        BY <3>1, <4>1 DEF HasSessionId
      <4> QED
        BY <3>1, <4>1, <4>2, SetupNext
    <3>2. CASE ShutdownStream(c) /\ UNCHANGED track
      BY <3>2
    <3> QED
      BY <1>2, <3>1, <3>2 DEF ContinueAfterDESCRIBE, Answered
  <2>1. \A d \in Viewers \ {c} : Untouched(d)
    BY <1>2, <2>0
    DEF Untouched, TypeOK, ReceiverTypeOK, ServerTypeOK, ChannelTypeOK,
        ContinueAfterDESCRIBE, Answered, ShutdownStream, SetupTrack, Play,
        PlayFails, serverVars
  <2>2. /\ rpc[c] = "describe" /\ reply'[c] = "none" /\ timers' \subseteq timers
        /\ \/ /\ rpc'[c] = "setup" /\ request'[c] = "setup" /\ reply[c] = "ok"
              /\ UNCHANGED sink[c]
           \/ /\ rpc'[c] = "ended"
              /\ \A u \in Tracks : sink'[c][u] = IF sink[c][u] = "active"
                                             THEN "closed" ELSE sink[c][u]
        /\ UNCHANGED <<bye[c], state[c], sessions>>
    BY <1>2, <2>0
    DEF TypeOK, ReceiverTypeOK, ServerTypeOK, ChannelTypeOK,
        ContinueAfterDESCRIBE, Answered, ShutdownStream, SetupTrack, Play,
        PlayFails, serverVars
  <2>3. ViewerInv(c)
    BY DEF IInv
  <2>4. RequestInv(c)'
    BY <2>2, <2>3 DEF ViewerInv, RequestInv, Early
  <2>5. EarlyInv(c)'
    BY <2>2, <2>3 DEF ViewerInv, EarlyInv, RequestInv, Early
  <2>6. AnswerInv(c)'
    BY <2>2, <2>3 DEF ViewerInv, AnswerInv, RequestInv, EarlyInv, Early
  <2>7. OpenInv(c)'
    BY <2>2, <2>3 DEF ViewerInv, OpenInv, EarlyInv, Early
  <2>8. ByeInv(c)'
    BY <2>2, <2>3 DEF ViewerInv, ByeInv, EarlyInv, RequestInv, Early
  <2>9. AgreeInv(c)'
    BY <2>2, <2>3
    DEF ViewerInv, AgreeInv, AnswerInv, RequestInv, EarlyInv, Early
  <2> QED
    BY <1>0, <2>1, <2>3, <2>4, <2>5, <2>6, <2>7, <2>8, <2>9, Frame
    DEF IInv, ViewerInv
<1>3. ASSUME NEW c \in Viewers,
             ContinueAfterSETUP(c, Gone),
             UNCHANGED serverVars
      PROVE  IInv'
  <2>0. /\ track[c] \in Tracks
        /\ \/ \E t \in Tracks : t > track[c] /\ SetupTrack(c, t)
           \/ Play(c) /\ \E u \in Tracks : sink'[c][u] # "none"
           \/ PlayFails(c) /\ \A u \in Tracks : sink'[c][u] = "none"
    <3>1. track[c] \in Tracks /\ track[c] + 1 \in Nat
      BY DEF TypeOK, ReceiverTypeOK, Tracks
    <3>2. SetupNextSubsession(c, track[c] + 1)
      BY <1>3 DEF ContinueAfterSETUP
    <3>3. \A t \in Tracks : t >= track[c] + 1 => t > track[c]
      BY <3>1 DEF Tracks
    <3>4. \/ \E t \in Tracks : t >= track[c] + 1 /\ SetupTrack(c, t)
          \/ HasSessionId(c)' /\ Play(c)
          \/ ~HasSessionId(c)' /\ PlayFails(c)
      BY <3>1, <3>2, SetupNext
    <3> QED
      BY <3>1, <3>3, <3>4 DEF HasSessionId
  <2>1. \A d \in Viewers \ {c} : Untouched(d)
    BY <1>3, <2>0
    DEF Untouched, TypeOK, ReceiverTypeOK, ServerTypeOK, ChannelTypeOK,
        ContinueAfterSETUP, Answered, SetupTrack, Play, PlayFails, serverVars
  <2>2. /\ rpc[c] = "setup" /\ reply'[c] = "none" /\ UNCHANGED timers
        /\ \/ (\A u \in Tracks : sink'[c][u] = IF u = track[c] THEN "active" ELSE sink[c][u]) /\ reply[c] = "ok"
           \/ UNCHANGED sink[c]
        /\ \/ /\ rpc'[c] = "setup" /\ request'[c] = "setup"
              /\ track'[c] > track[c]
           \/ /\ rpc'[c] = "play" /\ request'[c] = "play"
              /\ \E u \in Tracks : sink'[c][u] # "none"
           \/ /\ rpc'[c] = "ended"
              /\ \A u \in Tracks : sink'[c][u] = "none"
        /\ track[c] \in Tracks
        /\ UNCHANGED <<bye[c], state[c], sessions>>
    BY <1>3, <2>0
    DEF TypeOK, ReceiverTypeOK, ServerTypeOK, ChannelTypeOK,
        ContinueAfterSETUP, Answered, SetupTrack, Play, PlayFails, serverVars
  <2>3. ViewerInv(c)
    BY DEF IInv
  <2>4. RequestInv(c)'
    BY <2>2, <2>3 DEF ViewerInv, RequestInv, Early
  <2>5. EarlyInv(c)'
    <3>1. \A t \in Tracks : sink[c][t] # "closed" /\ (t >= track[c] => sink[c][t] = "none")
      BY <2>2, <2>3 DEF ViewerInv, EarlyInv
    <3>2. \A t \in Tracks : bye'[c][t] = "unsent" /\ state'[c][t] \in {"none", "ready"}
      BY <2>2, <2>3 DEF ViewerInv, EarlyInv, Early
    <3>3. ASSUME rpc'[c] = "setup", NEW t \in Tracks
          PROVE  sink'[c][t] # "closed" /\ (t >= track'[c] => sink'[c][t] = "none")
      <4>1. track[c] \in Nat /\ track'[c] \in Nat /\ t \in Nat
        BY <1>0 DEF TypeOK, ReceiverTypeOK, Tracks
      <4>2. track'[c] > track[c]
        BY <2>2, <3>3
      <4>3. t >= track'[c] => t >= track[c] /\ t # track[c]
        BY <4>1, <4>2
      <4> QED
        BY <2>2, <3>1, <4>3
    <3> QED
      BY <2>2, <3>2, <3>3 DEF EarlyInv
  <2>6. AnswerInv(c)'
    BY <2>2, <2>3 DEF ViewerInv, AnswerInv, RequestInv, EarlyInv, Early
  <2>7. OpenInv(c)'
    BY <2>2, <2>3 DEF ViewerInv, OpenInv, EarlyInv, Early, TypeOK,
       ReceiverTypeOK
  <2>8. ByeInv(c)'
    BY <2>2, <2>3 DEF ViewerInv, ByeInv, EarlyInv, RequestInv, Early
  <2>9. AgreeInv(c)'
    BY <2>2, <2>3
    DEF ViewerInv, AgreeInv, AnswerInv, RequestInv, EarlyInv, Early
  <2> QED
    BY <1>0, <2>1, <2>3, <2>4, <2>5, <2>6, <2>7, <2>8, <2>9, Frame
    DEF IInv, ViewerInv
<1>4. ASSUME NEW c \in Viewers,
             ContinueAfterPLAY(c, Gone),
             UNCHANGED serverVars
      PROVE  IInv'
  <2>1. \A d \in Viewers \ {c} : Untouched(d)
    BY <1>4
    DEF Untouched, TypeOK, ReceiverTypeOK, ServerTypeOK, ChannelTypeOK,
        ContinueAfterPLAY, Answered, ShutdownStream, serverVars
  <2>2. /\ rpc[c] = "play" /\ reply'[c] = "none"
        /\ \/ reply[c] = "ok" /\ rpc'[c] = "playing" /\ UNCHANGED <<sink[c], request[c]>>
           \/ /\ rpc'[c] = "ended" /\ c \notin timers'
              /\ \A u \in Tracks : sink'[c][u] = IF sink[c][u] = "active"
                                             THEN "closed" ELSE sink[c][u]
        /\ UNCHANGED <<track[c], bye[c], state[c], sessions>>
    BY <1>4
    DEF TypeOK, ReceiverTypeOK, ServerTypeOK, ChannelTypeOK, ContinueAfterPLAY,
        Answered, ShutdownStream, serverVars
  <2>3. ViewerInv(c)
    BY DEF IInv
  <2>4. RequestInv(c)'
    BY <2>2, <2>3 DEF ViewerInv, RequestInv, Early
  <2>5. EarlyInv(c)'
    BY <2>2, <2>3 DEF ViewerInv, EarlyInv, RequestInv, Early
  <2>6. AnswerInv(c)'
    BY <2>2, <2>3 DEF ViewerInv, AnswerInv, RequestInv, EarlyInv, Early
  <2>7. OpenInv(c)'
    BY <2>2, <2>3 DEF ViewerInv, OpenInv, EarlyInv, Early
  <2>8. ByeInv(c)'
    BY <2>2, <2>3 DEF ViewerInv, ByeInv, EarlyInv, RequestInv, Early
  <2>9. AgreeInv(c)'
    BY <2>2, <2>3
    DEF ViewerInv, AgreeInv, AnswerInv, RequestInv, EarlyInv, Early
  <2> QED
    BY <1>0, <2>1, <2>3, <2>4, <2>5, <2>6, <2>7, <2>8, <2>9, Frame
    DEF IInv, ViewerInv
<1>5. ASSUME NEW c \in Viewers,
             NEW t \in Tracks,
             SubsessionBye(c, t),
             UNCHANGED serverVars
      PROVE  IInv'
  <2>1. \A d \in Viewers \ {c} : Untouched(d)
    BY <1>5
    DEF Untouched, TypeOK, ReceiverTypeOK, ServerTypeOK, ChannelTypeOK,
        SubsessionBye, ActiveTracks, serverVars
  <2>2. /\ bye[c][t] = "flying" /\ sink[c][t] = "active" /\ rpc[c] # "ended"
        /\ (\A u \in Tracks : sink'[c][u] = IF u = t THEN "closed" ELSE sink[c][u])
        /\ (\A u \in Tracks : bye'[c][u] = IF u = t THEN "arrived" ELSE bye[c][u])
        /\ \/ /\ rpc'[c] = "ended" /\ c \notin timers'
              /\ \A u \in Tracks : sink[c][u] = "active" => u = t
           \/ /\ rpc'[c] = rpc[c] /\ UNCHANGED timers
              /\ \E u \in Tracks : sink[c][u] = "active" /\ u # t
        /\ UNCHANGED <<track[c], request[c], reply[c], state[c], sessions>>
    BY <1>5
    DEF TypeOK, ReceiverTypeOK, ServerTypeOK, ChannelTypeOK, SubsessionBye,
        ActiveTracks, serverVars
  <2>3. ViewerInv(c)
    BY DEF IInv
  <2>4. RequestInv(c)'
    BY <2>2, <2>3 DEF ViewerInv, RequestInv, Early
  <2>5. EarlyInv(c)'
    BY <2>2, <2>3 DEF ViewerInv, EarlyInv, RequestInv, Early
  <2>6. AnswerInv(c)'
    BY <2>2, <2>3 DEF ViewerInv, AnswerInv, RequestInv, EarlyInv, Early
  <2>7. OpenInv(c)'
    BY <2>2, <2>3 DEF ViewerInv, OpenInv, EarlyInv, Early
  <2>8. ByeInv(c)'
    BY <2>2, <2>3 DEF ViewerInv, ByeInv, EarlyInv, RequestInv, Early
  <2>9. AgreeInv(c)'
    BY <2>2, <2>3
    DEF ViewerInv, AgreeInv, AnswerInv, RequestInv, EarlyInv, Early
  <2> QED
    BY <1>0, <2>1, <2>3, <2>4, <2>5, <2>6, <2>7, <2>8, <2>9, Frame
    DEF IInv, ViewerInv
<1>6. ASSUME NEW c \in Viewers,
             StreamTimer(c) \/ Interrupt(c),
             UNCHANGED serverVars
      PROVE  IInv'
  <2>1. \A d \in Viewers \ {c} : Untouched(d)
    BY <1>6
    DEF Untouched, TypeOK, ReceiverTypeOK, ServerTypeOK, ChannelTypeOK,
        StreamTimer, Interrupt, ShutdownStream, serverVars
  <2>2. /\ rpc'[c] = "ended"
        /\ \A u \in Tracks : sink'[c][u] = IF sink[c][u] = "active" THEN "closed" ELSE sink[c][u]
        /\ \/ request'[c] = "teardown" /\ c \in timers
           \/ request'[c] = request[c]
        /\ c \notin timers'
        /\ UNCHANGED <<track[c], bye[c], reply[c], state[c], sessions>>
    BY <1>6
    DEF TypeOK, ReceiverTypeOK, ServerTypeOK, ChannelTypeOK, StreamTimer,
        Interrupt, ShutdownStream, serverVars
  <2>3. ViewerInv(c)
    BY DEF IInv
  <2>4. RequestInv(c)'
    BY <2>2, <2>3 DEF ViewerInv, RequestInv, Early
  <2>5. EarlyInv(c)'
    BY <2>2, <2>3 DEF ViewerInv, EarlyInv, RequestInv, Early
  <2>6. AnswerInv(c)'
    BY <2>2, <2>3 DEF ViewerInv, AnswerInv, RequestInv, EarlyInv, Early
  <2>7. OpenInv(c)'
    BY <2>2, <2>3 DEF ViewerInv, OpenInv, EarlyInv, Early
  <2>8. ByeInv(c)'
    BY <2>2, <2>3 DEF ViewerInv, ByeInv, EarlyInv, RequestInv, Early
  <2>9. AgreeInv(c)'
    BY <2>2, <2>3
    DEF ViewerInv, AgreeInv, AnswerInv, RequestInv, EarlyInv, Early
  <2> QED
    BY <1>0, <2>1, <2>3, <2>4, <2>5, <2>6, <2>7, <2>8, <2>9, Frame
    DEF IInv, ViewerInv
<1>7. ASSUME NEW c \in Viewers,
             HandleDESCRIBE(c),
             UNCHANGED receiverVars
      PROVE  IInv'
  <2>1. \A d \in Viewers \ {c} : Untouched(d)
    BY <1>7
    DEF Untouched, TypeOK, ReceiverTypeOK, ServerTypeOK, ChannelTypeOK,
        HandleDESCRIBE, Respond, receiverVars, serverVars
  <2>2. /\ request[c] = "describe" /\ request'[c] = "none"
        /\ reply'[c] \in {"ok", "error"}
        /\ UNCHANGED <<timers, rpc[c], track[c], sink[c], bye[c], state[c], sessions>>
    BY <1>7
    DEF TypeOK, ReceiverTypeOK, ServerTypeOK, ChannelTypeOK, HandleDESCRIBE,
        Respond, receiverVars, serverVars
  <2>3. ViewerInv(c)
    BY DEF IInv
  <2>4. RequestInv(c)'
    BY <2>2, <2>3 DEF ViewerInv, RequestInv, Early
  <2>5. EarlyInv(c)'
    BY <2>2, <2>3 DEF ViewerInv, EarlyInv, RequestInv, Early
  <2>6. AnswerInv(c)'
    BY <2>2, <2>3 DEF ViewerInv, AnswerInv, RequestInv, EarlyInv, Early
  <2>7. OpenInv(c)'
    BY <2>2, <2>3 DEF ViewerInv, OpenInv, EarlyInv, Early
  <2>8. ByeInv(c)'
    BY <2>2, <2>3 DEF ViewerInv, ByeInv, EarlyInv, RequestInv, Early
  <2>9. AgreeInv(c)'
    BY <2>2, <2>3
    DEF ViewerInv, AgreeInv, AnswerInv, RequestInv, EarlyInv, Early
  <2> QED
    BY <1>0, <2>1, <2>3, <2>4, <2>5, <2>6, <2>7, <2>8, <2>9, Frame
    DEF IInv, ViewerInv
<1>8. ASSUME NEW c \in Viewers,
             HandleSETUP(c,
             track[c],
             HasSessionId(c)),
             UNCHANGED receiverVars
      PROVE  IInv'
  <2>1. \A d \in Viewers \ {c} : Untouched(d)
    BY <1>8
    DEF Untouched, TypeOK, ReceiverTypeOK, ServerTypeOK, ChannelTypeOK,
        HandleSETUP, Respond, receiverVars, HasSessionId
  <2>2. /\ request[c] = "setup" /\ request'[c] = "none" /\ track[c] \in Tracks
        /\ \/ /\ reply'[c] = "ok" /\ sessions' = sessions \cup {c}
              /\ (\A u \in Tracks : state'[c][u] = IF u = track[c] THEN "ready" ELSE state[c][u])
              /\ c \in sessions \/ \A t \in Tracks : sink[c][t] = "none"
           \/ reply'[c] = "error" /\ UNCHANGED <<sessions, state[c]>>
        /\ UNCHANGED <<timers, rpc[c], track[c], sink[c], bye[c]>>
    BY <1>8
    DEF TypeOK, ReceiverTypeOK, ServerTypeOK, ChannelTypeOK, HandleSETUP,
        Respond, receiverVars, HasSessionId
  <2>3. ViewerInv(c)
    BY DEF IInv
  <2>4. RequestInv(c)'
    BY <2>2, <2>3 DEF ViewerInv, RequestInv, Early
  <2>5. EarlyInv(c)'
    BY <2>2, <2>3 DEF ViewerInv, EarlyInv, RequestInv, Early
  <2>6. AnswerInv(c)'
    BY <2>2, <2>3 DEF ViewerInv, AnswerInv, RequestInv, EarlyInv, Early
  <2>7. OpenInv(c)'
    BY <2>2, <2>3 DEF ViewerInv, OpenInv, EarlyInv, Early
  <2>8. ByeInv(c)'
    BY <2>2, <2>3 DEF ViewerInv, ByeInv, EarlyInv, RequestInv, Early
  <2>9. AgreeInv(c)'
    BY <2>2, <2>3
    DEF ViewerInv, AgreeInv, AnswerInv, RequestInv, EarlyInv, Early
  <2> QED
    BY <1>0, <2>1, <2>3, <2>4, <2>5, <2>6, <2>7, <2>8, <2>9, Frame
    DEF IInv, ViewerInv
<1>9. ASSUME NEW c \in Viewers,
             HandlePLAY(c),
             UNCHANGED receiverVars
      PROVE  IInv'
  <2>1. \A d \in Viewers \ {c} : Untouched(d)
    BY <1>9
    DEF Untouched, TypeOK, ReceiverTypeOK, ServerTypeOK, ChannelTypeOK,
        HandlePLAY, Respond, receiverVars
  <2>2. /\ request[c] = "play" /\ request'[c] = "none"
        /\ \/ /\ reply'[c] = "ok" /\ c \in sessions
              /\ \A t \in Tracks : state'[c][t] = IF state[c][t] = "ready"
                                              THEN "playing" ELSE state[c][t]
           \/ reply'[c] = "error" /\ UNCHANGED state[c]
        /\ UNCHANGED <<timers, rpc[c], track[c], sink[c], bye[c], sessions>>
    BY <1>9
    DEF TypeOK, ReceiverTypeOK, ServerTypeOK, ChannelTypeOK, HandlePLAY,
        Respond, receiverVars
  <2>3. ViewerInv(c)
    BY DEF IInv
  <2>4. RequestInv(c)'
    BY <2>2, <2>3 DEF ViewerInv, RequestInv, Early
  <2>5. EarlyInv(c)'
    BY <2>2, <2>3 DEF ViewerInv, EarlyInv, RequestInv, Early
  <2>6. AnswerInv(c)'
    BY <2>2, <2>3 DEF ViewerInv, AnswerInv, RequestInv, EarlyInv, Early
  <2>7. OpenInv(c)'
    BY <2>2, <2>3 DEF ViewerInv, OpenInv, EarlyInv, Early
  <2>8. ByeInv(c)'
    BY <2>2, <2>3 DEF ViewerInv, ByeInv, EarlyInv, RequestInv, Early
  <2>9. AgreeInv(c)'
    BY <2>2, <2>3
    DEF ViewerInv, AgreeInv, AnswerInv, RequestInv, EarlyInv, Early
  <2> QED
    BY <1>0, <2>1, <2>3, <2>4, <2>5, <2>6, <2>7, <2>8, <2>9, Frame
    DEF IInv, ViewerInv
<1>10. ASSUME NEW c \in Viewers,
              HandleTEARDOWN(c),
              UNCHANGED receiverVars
       PROVE  IInv'
  <2>1. \A d \in Viewers \ {c} : Untouched(d)
    BY <1>10
    DEF Untouched, TypeOK, ReceiverTypeOK, ServerTypeOK, ChannelTypeOK,
        HandleTEARDOWN, DeleteSession, NoStreams, receiverVars, serverVars
  <2>2. /\ request[c] = "teardown" /\ request'[c] = "none"
        /\ \/ c \notin sessions' /\ \A t \in Tracks : state'[c][t] = "none"
           \/ UNCHANGED <<sessions, state[c]>>
        /\ UNCHANGED <<timers, rpc[c], track[c], sink[c], bye[c], reply[c]>>
    BY <1>10
    DEF TypeOK, ReceiverTypeOK, ServerTypeOK, ChannelTypeOK, HandleTEARDOWN,
        DeleteSession, NoStreams, receiverVars, serverVars
  <2>3. ViewerInv(c)
    BY DEF IInv
  <2>4. RequestInv(c)'
    BY <2>2, <2>3 DEF ViewerInv, RequestInv, Early
  <2>5. EarlyInv(c)'
    BY <2>2, <2>3 DEF ViewerInv, EarlyInv, RequestInv, Early
  <2>6. AnswerInv(c)'
    BY <2>2, <2>3 DEF ViewerInv, AnswerInv, RequestInv, EarlyInv, Early
  <2>7. OpenInv(c)'
    BY <2>2, <2>3 DEF ViewerInv, OpenInv, EarlyInv, Early
  <2>8. ByeInv(c)'
    BY <2>2, <2>3 DEF ViewerInv, ByeInv, EarlyInv, RequestInv, Early
  <2>9. AgreeInv(c)'
    BY <2>2, <2>3
    DEF ViewerInv, AgreeInv, AnswerInv, RequestInv, EarlyInv, Early
  <2> QED
    BY <1>0, <2>1, <2>3, <2>4, <2>5, <2>6, <2>7, <2>8, <2>9, Frame
    DEF IInv, ViewerInv
<1>11. ASSUME NEW c \in Viewers,
              NEW t \in Tracks,
              AfterPlaying(c, t),
              UNCHANGED receiverVars
       PROVE  IInv'
  <2>1. \A d \in Viewers \ {c} : Untouched(d)
    BY <1>11
    DEF Untouched, TypeOK, ReceiverTypeOK, ServerTypeOK, ChannelTypeOK,
        AfterPlaying, SendBye, receiverVars
  <2>2. /\ state[c][t] = "playing"
        /\ \/ (\A u \in Tracks : state'[c][u] = IF u = t THEN "finished" ELSE state[c][u]) /\ UNCHANGED bye[c]
           \/ /\ (\A u \in Tracks : state'[c][u] = IF u = t THEN "reclaimed" ELSE state[c][u])
              /\ (\A u \in Tracks : bye'[c][u] = IF u = t THEN "flying" ELSE bye[c][u])
        /\ UNCHANGED <<timers, rpc[c], track[c], sink[c], request[c], reply[c], sessions>>
    BY <1>11
    DEF TypeOK, ReceiverTypeOK, ServerTypeOK, ChannelTypeOK, AfterPlaying,
        SendBye, receiverVars
  <2>3. ViewerInv(c)
    BY DEF IInv
  <2>4. RequestInv(c)'
    BY <2>2, <2>3 DEF ViewerInv, RequestInv, Early
  <2>5. EarlyInv(c)'
    BY <2>2, <2>3 DEF ViewerInv, EarlyInv, RequestInv, Early
  <2>6. AnswerInv(c)'
    BY <2>2, <2>3 DEF ViewerInv, AnswerInv, RequestInv, EarlyInv, Early
  <2>7. OpenInv(c)'
    BY <2>2, <2>3 DEF ViewerInv, OpenInv, EarlyInv, Early
  <2>8. ByeInv(c)'
    BY <2>2, <2>3 DEF ViewerInv, ByeInv, EarlyInv, RequestInv, Early
  <2>9. AgreeInv(c)'
    BY <2>2, <2>3
    DEF ViewerInv, AgreeInv, AnswerInv, RequestInv, EarlyInv, Early
  <2> QED
    BY <1>0, <2>1, <2>3, <2>4, <2>5, <2>6, <2>7, <2>8, <2>9, Frame
    DEF IInv, ViewerInv
<1>12. ASSUME NEW c \in Viewers, Expire(c) \/ ExpireEarly(c) PROVE IInv'
  <2>1. \A d \in Viewers \ {c} : Untouched(d)
    BY <1>12
    DEF Untouched, TypeOK, ReceiverTypeOK, ServerTypeOK, ChannelTypeOK, Expire,
        ExpireEarly, LivenessTimeout, DeleteSession, NoStreams, receiverVars
  <2>2. /\ c \notin sessions' /\ \A t \in Tracks : state'[c][t] = "none"
        /\ UNCHANGED <<timers, rpc[c], track[c], sink[c], request[c], reply[c], bye[c]>>
    BY <1>12
    DEF TypeOK, ReceiverTypeOK, ServerTypeOK, ChannelTypeOK, Expire,
        ExpireEarly, LivenessTimeout, DeleteSession, NoStreams, receiverVars
  <2>3. ViewerInv(c)
    BY DEF IInv
  <2>4. RequestInv(c)'
    BY <2>2, <2>3 DEF ViewerInv, RequestInv, Early
  <2>5. EarlyInv(c)'
    BY <2>2, <2>3 DEF ViewerInv, EarlyInv, RequestInv, Early
  <2>6. AnswerInv(c)'
    BY <2>2, <2>3 DEF ViewerInv, AnswerInv, RequestInv, EarlyInv, Early
  <2>7. OpenInv(c)'
    BY <2>2, <2>3 DEF ViewerInv, OpenInv, EarlyInv, Early
  <2>8. ByeInv(c)'
    BY <2>2, <2>3 DEF ViewerInv, ByeInv, EarlyInv, RequestInv, Early
  <2>9. AgreeInv(c)'
    BY <2>2, <2>3
    DEF ViewerInv, AgreeInv, AnswerInv, RequestInv, EarlyInv, Early
  <2> QED
    BY <1>0, <2>1, <2>3, <2>4, <2>5, <2>6, <2>7, <2>8, <2>9, Frame
    DEF IInv, ViewerInv
<1>13. ASSUME NEW c \in Viewers, NEW t \in Tracks, LoseBye(c, t),
             UNCHANGED <<receiverVars, serverVars, request, reply, duration>> PROVE IInv'
  <2>1. \A d \in Viewers \ {c} : Untouched(d)
    BY <1>13
    DEF Untouched, TypeOK, ReceiverTypeOK, ServerTypeOK, ChannelTypeOK,
        LoseBye, receiverVars, serverVars
  <2>2. /\ bye[c][t] = "flying" /\ (\A u \in Tracks : bye'[c][u] = IF u = t THEN "lost" ELSE bye[c][u])
        /\ UNCHANGED <<timers, rpc[c], track[c], sink[c], request[c], reply[c], state[c], sessions>>
    BY <1>13
    DEF TypeOK, ReceiverTypeOK, ServerTypeOK, ChannelTypeOK, LoseBye,
        receiverVars, serverVars
  <2>3. ViewerInv(c)
    BY DEF IInv
  <2>4. RequestInv(c)'
    BY <2>2, <2>3 DEF ViewerInv, RequestInv, Early
  <2>5. EarlyInv(c)'
    BY <2>2, <2>3 DEF ViewerInv, EarlyInv, RequestInv, Early
  <2>6. AnswerInv(c)'
    BY <2>2, <2>3 DEF ViewerInv, AnswerInv, RequestInv, EarlyInv, Early
  <2>7. OpenInv(c)'
    BY <2>2, <2>3 DEF ViewerInv, OpenInv, EarlyInv, Early
  <2>8. ByeInv(c)'
    BY <2>2, <2>3 DEF ViewerInv, ByeInv, EarlyInv, RequestInv, Early
  <2>9. AgreeInv(c)'
    BY <2>2, <2>3
    DEF ViewerInv, AgreeInv, AnswerInv, RequestInv, EarlyInv, Early
  <2> QED
    BY <1>0, <2>1, <2>3, <2>4, <2>5, <2>6, <2>7, <2>8, <2>9, Frame
    DEF IInv, ViewerInv
<1>14. CASE Add \/ UNCHANGED vars
  <2>1. \A d \in Viewers : Untouched(d)
    BY <1>14
    DEF Add, AddServerMediaSession, Untouched, vars, receiverVars, serverVars,
        channelVars
  <2> QED
    BY <2>1, Frame DEF IInv
<1> QED
  BY <1>1, <1>2, <1>3, <1>4, <1>5, <1>6, <1>7, <1>8, <1>9, <1>10, <1>11, <1>12,
     <1>13, <1>14
  DEF Next, Receive, ReceiverStep, Serve, ServerStep, Lose, Kill

-----------------------------------------------------------------------------
(* The safety properties that Streaming's runs check. *)

LEMMA InvariantIInv == Spec => []IInv
<1>1. Init => IInv
  BY ChannelAssumption
  DEF Init, ReceiverInit, ServerInit, ChannelInit, IInv, TypeOK, ReceiverTypeOK,
      ServerTypeOK, ChannelTypeOK, ViewerInv, RequestInv, EarlyInv, AnswerInv,
      OpenInv, ByeInv, AgreeInv, Early, Tracks, NoStreams, ReceiverPCs,
      StreamStates
<1> QED
  BY <1>1, NextIInv, PTL DEF Spec

\* Every variable keeps its type.
THEOREM TypeCorrect == Spec => []TypeOK
<1>1. IInv => TypeOK
  BY DEF IInv
<1> QED
  BY <1>1, InvariantIInv, PTL

\* A receiver that plays, or waits for the answer to PLAY, has an open track.
THEOREM PlayingStaysOpen == Spec => []PlayingIsOpen
<1>1. IInv => PlayingIsOpen
  BY DEF IInv, ViewerInv, OpenInv, PlayingIsOpen, ActiveTracks
<1> QED
  BY <1>1, InvariantIInv, PTL

\* The BYE of a reclaimed stream is on its way or lost while its track is open.
THEOREM ByesAccounted == Spec => []ByeAccounted
<1>1. IInv => ByeAccounted
  BY DEF IInv, ViewerInv, ByeInv, ByeAccounted
<1> QED
  BY <1>1, InvariantIInv, PTL

\* A track that plays at the receiver was set up, and started, at the server.
THEOREM EndsStayAgreed == Spec => []EndsAgree
<1>1. IInv => EndsAgree
  BY DEF IInv, ViewerInv, AgreeInv, EndsAgree
<1> QED
  BY <1>1, InvariantIInv, PTL

-----------------------------------------------------------------------------
(* Streaming implements Viewing. *)

SameView(d) == UNCHANGED <<Phase(d), ActiveTracks(d), Opened(d)>>

\* What one viewer's step may do to what Viewing sees.
LEMMA ViewStep ==
  ASSUME NEW c \in Viewers,
         \A d \in Viewers \ {c} : SameView(d),
         \/ SameView(c)
         \/ /\ Phase(c) = "opening" /\ Phase(c)' \in {"opening", "playing"}
            /\ \E t \in Tracks \ Opened(c) :
                 /\ ActiveTracks(c)' = ActiveTracks(c) \cup {t}
                 /\ Opened(c)' = Opened(c) \cup {t}
         \/ /\ Phase(c) = "opening" /\ Phase(c)' = "playing"
            /\ ActiveTracks(c) # {}
            /\ UNCHANGED <<ActiveTracks(c), Opened(c)>>
         \/ /\ Phase(c) = "playing"
            /\ \E t \in ActiveTracks(c) :
                 /\ ActiveTracks(c)' = ActiveTracks(c) \ {t}
                 /\ Phase(c)' = IF ActiveTracks(c) = {t} THEN "over" ELSE "playing"
            /\ UNCHANGED Opened(c)
         \/ /\ Phase(c) # "over" /\ Phase(c)' = "over"
            /\ ActiveTracks(c)' = {}
            /\ UNCHANGED Opened(c)
  PROVE  [View!Next]_View!vars
<1> DEFINE phase == [d \in Viewers |-> Phase(d)]
           open == [d \in Viewers |-> ActiveTracks(d)]
           opened == [d \in Viewers |-> Opened(d)]
<1>1. /\ phase' = [phase EXCEPT ![c] = Phase(c)']
      /\ open' = [open EXCEPT ![c] = ActiveTracks(c)']
      /\ opened' = [opened EXCEPT ![c] = Opened(c)']
  BY DEF SameView
<1>2. phase[c] = Phase(c) /\ open[c] = ActiveTracks(c) /\ opened[c] = Opened(c)
  OBVIOUS
<1>3. CASE SameView(c)
  <2>1. phase' = phase /\ open' = open /\ opened' = opened
    BY <1>3 DEF SameView
  <2> QED
    BY <2>1 DEF View!vars
<1> HIDE DEF phase, open, opened
<1>9. phase = [phase EXCEPT ![c] = phase[c]] /\ open = [open EXCEPT ![c] = open[c]] /\ opened = [opened EXCEPT ![c] = opened[c]]
  BY DEF phase, open, opened
<1>4. CASE /\ Phase(c) = "opening" /\ Phase(c)' \in {"opening", "playing"}
           /\ \E t \in Tracks \ Opened(c) :
                /\ ActiveTracks(c)' = ActiveTracks(c) \cup {t}
                /\ Opened(c)' = Opened(c) \cup {t}
  <2>1. View!Open(c)
    BY <1>1, <1>2, <1>9, <1>4 DEF View!Open, phase, open, opened
  <2> QED
    BY <2>1 DEF View!Next
<1>5. CASE /\ Phase(c) = "opening" /\ Phase(c)' = "playing"
           /\ ActiveTracks(c) # {}
           /\ UNCHANGED <<ActiveTracks(c), Opened(c)>>
  <2>1. View!Start(c)
    BY <1>1, <1>2, <1>9, <1>5 DEF View!Start, phase, open, opened
  <2> QED
    BY <2>1 DEF View!Next
<1>6. CASE /\ Phase(c) = "playing"
           /\ \E t \in ActiveTracks(c) :
                /\ ActiveTracks(c)' = ActiveTracks(c) \ {t}
                /\ Phase(c)' = IF ActiveTracks(c) = {t} THEN "over" ELSE "playing"
           /\ UNCHANGED Opened(c)
  <2>1. View!Close(c)
    BY <1>1, <1>2, <1>9, <1>6 DEF View!Close, phase, open, opened
  <2> QED
    BY <2>1 DEF View!Next
<1>7. CASE /\ Phase(c) # "over" /\ Phase(c)' = "over"
           /\ ActiveTracks(c)' = {}
           /\ UNCHANGED Opened(c)
  <2>1. View!End(c)
    BY <1>1, <1>2, <1>9, <1>7 DEF View!End, phase, open, opened
  <2> QED
    BY <2>1 DEF View!Next
<1> QED
  BY <1>3, <1>4, <1>5, <1>6, <1>7

\* A viewer whose receiver does not move looks the same.
LEMMA SameReceiver ==
  ASSUME NEW d \in Viewers, UNCHANGED <<rpc[d], sink[d]>>
  PROVE  SameView(d)
  BY DEF SameView, Phase, ActiveTracks, Opened

\* A receiver that ends closes what it had open.
LEMMA EndingCloses ==
  ASSUME NEW c \in Viewers, rpc[c] # "ended", rpc[c] \in ReceiverPCs,
         rpc'[c] = "ended",
         \A u \in Tracks : sink'[c][u] = IF sink[c][u] = "active"
                                         THEN "closed" ELSE sink[c][u]
  PROVE  /\ Phase(c) # "over" /\ Phase(c)' = "over"
         /\ ActiveTracks(c)' = {}
         /\ UNCHANGED Opened(c)
<1>1. Phase(c) # "over" /\ Phase(c)' = "over"
  BY DEF Phase, ReceiverPCs
<1>2. ActiveTracks(c)' = {}
  BY DEF ActiveTracks
<1>3. UNCHANGED Opened(c)
  BY DEF Opened
<1> QED
  BY <1>1, <1>2, <1>3

\* Every step of Streaming is a step of Viewing, or none.
LEMMA StepViewing == IInv /\ [Next]_vars => [View!Next]_View!vars
<1> SUFFICES ASSUME IInv, [Next]_vars PROVE [View!Next]_View!vars
  OBVIOUS
<1> USE ChannelAssumption
<1>0. TypeOK
  BY DEF IInv
<1>1. ASSUME NEW c \in Viewers, ContinueAfterDESCRIBE(c, Gone)
      PROVE  [View!Next]_View!vars
  <2>1. \A d \in Viewers \ {c} : SameView(d)
    BY <1>0, <1>1, SameReceiver
    DEF TypeOK, ReceiverTypeOK, ContinueAfterDESCRIBE, ShutdownStream,
        SetupNextSubsession, SetupTrack, Play, PlayFails
  <2>2. \A t \in Tracks : sink[c][t] = "none"
    BY <1>1 DEF IInv, ViewerInv, EarlyInv, ContinueAfterDESCRIBE
  <2>3. CASE SetupNextSubsession(c, 1) /\ UNCHANGED sink
    <3>1. CASE \E t \in Tracks : SetupTrack(c, t)
      <4>1. Phase(c) = "opening" /\ Phase(c)' = "opening"
        BY <1>0, <1>1, <3>1
        DEF TypeOK, ReceiverTypeOK, ContinueAfterDESCRIBE, SetupTrack, Phase
      <4> QED
        BY <2>1, <2>3, <4>1, ViewStep DEF SameView, ActiveTracks, Opened
    <3>2. CASE PlayFails(c)
      <4>1. rpc[c] = "describe" /\ rpc'[c] = "ended"
        BY <1>0, <1>1, <3>2
        DEF TypeOK, ReceiverTypeOK, ContinueAfterDESCRIBE, PlayFails
      <4> QED
        BY <2>1, <2>2, <2>3, <4>1, EndingCloses, ViewStep DEF ReceiverPCs
    <3> QED
      BY <2>2, <2>3, <3>1, <3>2, SetupNext DEF HasSessionId
  <2>4. CASE ShutdownStream(c)
    <3>1. /\ rpc[c] = "describe" /\ rpc'[c] = "ended"
          /\ \A u \in Tracks : sink'[c][u] = IF sink[c][u] = "active"
                                             THEN "closed" ELSE sink[c][u]
      BY <1>0, <1>1, <2>4
      DEF TypeOK, ReceiverTypeOK, ContinueAfterDESCRIBE, ShutdownStream
    <3> QED
      BY <2>1, <3>1, EndingCloses, ViewStep DEF ReceiverPCs
  <2> QED
    BY <1>1, <2>3, <2>4 DEF ContinueAfterDESCRIBE
<1>2. ASSUME NEW c \in Viewers, ContinueAfterSETUP(c, Gone)
      PROVE  [View!Next]_View!vars
  <2>1. \A d \in Viewers \ {c} : SameView(d)
    BY <1>0, <1>2, SameReceiver
    DEF TypeOK, ReceiverTypeOK, ContinueAfterSETUP, SetupNextSubsession,
        SetupTrack, Play, PlayFails
  <2>2. /\ track[c] \in Tracks /\ track[c] + 1 \in Nat
        /\ sink[c][track[c]] = "none"
        /\ \A t \in Tracks : sink[c][t] # "closed"
        /\ rpc[c] = "setup" /\ Phase(c) = "opening"
    BY <1>0, <1>2
    DEF TypeOK, ReceiverTypeOK, IInv, ViewerInv, EarlyInv, ContinueAfterSETUP,
       Tracks, Phase
  <2>3. \/ rpc'[c] \in {"setup", "play"} /\ (rpc'[c] = "play" => HasSessionId(c)')
        \/ rpc'[c] = "ended" /\ ~HasSessionId(c)'
    <3>1. SetupNextSubsession(c, track[c] + 1)
      BY <1>2 DEF ContinueAfterSETUP
    <3> QED
      BY <1>0, <2>2, <3>1, SetupNext
      DEF TypeOK, ReceiverTypeOK, SetupTrack, Play, PlayFails
  <2>4. CASE sink' = [sink EXCEPT ![c][track[c]] = "active"]
    <3>1. \A u \in Tracks : sink'[c][u] = IF u = track[c] THEN "active" ELSE sink[c][u]
      BY <1>0, <2>4 DEF TypeOK, ReceiverTypeOK
    <3>2. /\ track[c] \in Tracks \ Opened(c)
          /\ ActiveTracks(c)' = ActiveTracks(c) \cup {track[c]}
          /\ Opened(c)' = Opened(c) \cup {track[c]}
      BY <2>2, <3>1 DEF ActiveTracks, Opened
    <3>3. Phase(c)' \in {"opening", "playing"}
      BY <2>2, <2>3, <3>1 DEF Phase, HasSessionId
    <3> QED
      BY <2>1, <2>2, <3>2, <3>3, ViewStep
  <2>5. CASE UNCHANGED sink
    <3>1. CASE rpc'[c] = "setup"
      BY <2>1, <2>2, <2>5, <3>1, ViewStep
      DEF SameView, Phase, ActiveTracks, Opened
    <3>2. CASE rpc'[c] = "play" /\ HasSessionId(c)'
      <4>1. ActiveTracks(c) # {}
        BY <2>2, <2>5, <3>2, <1>0
        DEF HasSessionId, ActiveTracks, TypeOK, ReceiverTypeOK
      <4>2. Phase(c)' = "playing" /\ UNCHANGED <<ActiveTracks(c), Opened(c)>>
        BY <2>5, <3>2 DEF Phase, ActiveTracks, Opened
      <4> QED
        BY <2>1, <2>2, <4>1, <4>2, ViewStep
    <3>3. CASE rpc'[c] = "ended" /\ ~HasSessionId(c)'
      BY <2>1, <2>2, <2>5, <3>3, EndingCloses, ViewStep
      DEF HasSessionId, ReceiverPCs
    <3> QED
      BY <2>3, <3>1, <3>2, <3>3
  <2> QED
    BY <1>2, <2>4, <2>5 DEF ContinueAfterSETUP
<1>3. ASSUME NEW c \in Viewers, ContinueAfterPLAY(c, Gone)
      PROVE  [View!Next]_View!vars
  <2>1. \A d \in Viewers \ {c} : SameView(d)
    BY <1>0, <1>3, SameReceiver
    DEF TypeOK, ReceiverTypeOK, ContinueAfterPLAY, ShutdownStream
  <2>2. rpc[c] = "play"
    BY <1>3 DEF ContinueAfterPLAY
  <2>3. CASE rpc' = [rpc EXCEPT ![c] = "playing"] /\ UNCHANGED sink
    BY <1>0, <2>1, <2>2, <2>3, ViewStep
    DEF SameView, Phase, ActiveTracks, Opened, TypeOK, ReceiverTypeOK
  <2>4. CASE ShutdownStream(c)
    <3>1. /\ rpc'[c] = "ended"
          /\ \A u \in Tracks : sink'[c][u] = IF sink[c][u] = "active"
                                             THEN "closed" ELSE sink[c][u]
      BY <1>0, <2>4 DEF TypeOK, ReceiverTypeOK, ShutdownStream
    <3> QED
      BY <2>1, <2>2, <3>1, EndingCloses, ViewStep DEF ReceiverPCs
  <2> QED
    BY <1>3, <2>3, <2>4 DEF ContinueAfterPLAY
<1>4. ASSUME NEW c \in Viewers, NEW t \in Tracks, SubsessionBye(c, t)
      PROVE  [View!Next]_View!vars
  <2>1. \A d \in Viewers \ {c} : SameView(d)
    BY <1>0, <1>4, SameReceiver DEF TypeOK, ReceiverTypeOK, SubsessionBye
  <2>2. bye[c][t] = "flying" /\ sink[c][t] = "active" /\ rpc[c] # "ended"
    BY <1>4 DEF SubsessionBye
  <2>3. rpc[c] \in {"play", "playing"} /\ Phase(c) = "playing"
    BY <1>0, <2>2
    DEF IInv, ViewerInv, EarlyInv, Early, Phase, TypeOK, ReceiverTypeOK,
        ReceiverPCs
  <2>4. \A u \in Tracks : sink'[c][u] = IF u = t THEN "closed" ELSE sink[c][u]
    BY <1>0, <1>4 DEF TypeOK, ReceiverTypeOK, SubsessionBye
  <2>5. t \in ActiveTracks(c) /\ ActiveTracks(c)' = ActiveTracks(c) \ {t} /\ UNCHANGED Opened(c)
    BY <2>2, <2>4 DEF ActiveTracks, Opened
  <2>6. IF ActiveTracks(c) = {t} THEN rpc'[c] = "ended" ELSE rpc'[c] = rpc[c]
    BY <1>0, <1>4 DEF TypeOK, ReceiverTypeOK, SubsessionBye
  <2>7. Phase(c)' = IF ActiveTracks(c) = {t} THEN "over" ELSE "playing"
    BY <2>3, <2>6 DEF Phase
  <2> QED
    BY <2>1, <2>3, <2>5, <2>7, ViewStep
<1>5. ASSUME NEW c \in Viewers, StreamTimer(c) \/ Interrupt(c)
      PROVE  [View!Next]_View!vars
  <2>1. \A d \in Viewers \ {c} : SameView(d)
    BY <1>0, <1>5, SameReceiver
    DEF TypeOK, ReceiverTypeOK, StreamTimer, ShutdownStream, Interrupt
  <2>2. rpc[c] # "ended"
    BY <1>5 DEF IInv, ViewerInv, RequestInv, StreamTimer, Interrupt
  <2>3. /\ rpc'[c] = "ended" /\ rpc[c] \in ReceiverPCs
        /\ \A u \in Tracks : sink'[c][u] = IF sink[c][u] = "active"
                                           THEN "closed" ELSE sink[c][u]
    BY <1>0, <1>5
    DEF TypeOK, ReceiverTypeOK, StreamTimer, ShutdownStream, Interrupt
  <2> QED
    BY <2>1, <2>2, <2>3, EndingCloses, ViewStep
<1>6. ASSUME NEW c \in Viewers, Start(c)
      PROVE  [View!Next]_View!vars
  <2>1. \A d \in Viewers \ {c} : SameView(d)
    BY <1>0, <1>6, SameReceiver DEF TypeOK, ReceiverTypeOK, Start, OpenURL
  <2>2. SameView(c)
    BY <1>0, <1>6
    DEF SameView, Phase, ActiveTracks, Opened, TypeOK, ReceiverTypeOK, Start,
        OpenURL
  <2> QED
    BY <2>1, <2>2, ViewStep
<1>7. CASE UNCHANGED <<rpc, sink>>
  <2>1. \A d \in Viewers : SameView(d)
    BY <1>7, SameReceiver
  <2> QED
    BY <2>1 DEF SameView, View!vars
<1> QED
  BY <1>1, <1>2, <1>3, <1>4, <1>5, <1>6, <1>7
  DEF Next, Add, Receive, ReceiverStep, Serve, Expire, ExpireEarly, Lose, Kill,
      vars, receiverVars

\* Every run of RTSPReceiver opens, plays and closes its tracks in the order
\* that Viewing allows, whatever the server, the network and the others do.
THEOREM RefinesViewing == Spec => ImplementsViewing
<1>1. Init => View!Init
  BY ChannelAssumption
  DEF Init, ReceiverInit, View!Init, Phase, ActiveTracks, Opened
<1> QED
  BY <1>1, StepViewing, InvariantIInv, PTL
  DEF Spec, View!Spec, ImplementsViewing

=============================================================================
