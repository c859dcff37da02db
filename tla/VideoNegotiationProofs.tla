---------------------- MODULE VideoNegotiationProofs ----------------------
(***************************************************************************)
(* Proofs about VideoNegotiation, for any clients, servers and videos and  *)
(* any number of faults.                                                   *)
(***************************************************************************)
EXTENDS VideoNegotiation, TLAPS

\* A client has made its choice exactly when it got past its list.
ChoiceInv ==
  \A c \in Clients :
    /\ cpc[c] \in {"off", "hello", "list", "pick"} => chosen[c] = None
    /\ cpc[c] = "answer" \/ Told(c) => chosen[c] # None
    /\ chosen[c] # None => chosen[c] \in offered[c]

\* A video request in flight, however old, carries its client's one choice.
RequestInv ==
  \A m \in toServer :
    IF m.kind = "video" THEN m.video # None /\ m.video = chosen[m.client]
                        ELSE m.video = None

\* A server has no file before its third datagram, and a file that it has
\* opened is what the sender of that datagram chose.
ServerInv ==
  \A s \in Servers :
    /\ spc[s] \in {"off", "hello", "list", "video"} => fileName[s] = None
    /\ Committed(s) => fileName[s] # None
    /\ Granted(s) => /\ clientAddr[s] \in Clients
                     /\ fileName[s] = chosen[clientAddr[s]]

\* "Streaming" in flight comes from a grant to its addressee.
AnswerInv ==
  \A m \in toClient :
    m.kind = "streaming" => /\ Granted(m.server)
                            /\ clientAddr[m.server] = m.client

ToldInv ==
  \A c \in Clients :
    Told(c) => \E s \in Servers : Granted(s) /\ clientAddr[s] = c

\* An RTSPReceiver that got through is connected to a server.
StreamInv ==
  \A c \in Clients :
    cpc[c] \in {"connected", "watching", "done"} => stream[c] \in Servers

\* The inductive invariant.  Agreement alone says nothing of what is in flight.
IInv ==
  /\ TypeOK
  /\ ChoiceInv
  /\ RequestInv
  /\ ServerInv
  /\ AnswerInv
  /\ ToldInv
  /\ StreamInv

-----------------------------------------------------------------------------

LEMMA NextTypeOK == TypeOK /\ [Next]_vars => TypeOK'
<1> SUFFICES ASSUME TypeOK, [Next]_vars PROVE TypeOK'
  OBVIOUS
<1> USE ConstantsAssumption DEF TypeOK, ServerPCs, ClientPCs
<1>1. ASSUME NEW s \in Servers, StartServer(s) PROVE TypeOK'
  BY <1>1 DEF StartServer, clientVars, netVars
<1>2. ASSUME NEW s \in Servers, Kill(s) PROVE TypeOK'
  BY <1>2 DEF Kill, Fault, clientVars
<1>3. ASSUME NEW s \in Servers, ServerHello(s) PROVE TypeOK'
  BY <1>3
  DEF ServerHello, Receive, TakeRequest, Fault, Answer, Reply, Requests,
      Replies, clientVars
<1>4. ASSUME NEW s \in Servers, RejectListRequest(s) PROVE TypeOK'
  BY <1>4
  DEF RejectListRequest, Receive, TakeRequest, Fault, Requests, clientVars
<1>5. ASSUME NEW s \in Servers, ReportEmpty(s) PROVE TypeOK'
  BY <1>5
  DEF ReportEmpty, Receive, TakeRequest, Fault, Answer, Reply, Requests,
      Replies, clientVars
<1>6. ASSUME NEW s \in Servers, SendVideoList(s) PROVE TypeOK'
  BY <1>6
  DEF SendVideoList, Receive, TakeRequest, Fault, Answer, Reply, Requests,
      Replies, clientVars
<1>7. ASSUME NEW s \in Servers, RejectVideoRequest(s) PROVE TypeOK'
  BY <1>7
  DEF RejectVideoRequest, Receive, TakeRequest, Fault, Requests, clientVars
<1>8. ASSUME NEW s \in Servers, RefuseVideo(s) PROVE TypeOK'
  BY <1>8
  DEF RefuseVideo, Receive, TakeRequest, Fault, Answer, Reply, Requests,
      Replies, clientVars
<1>9. ASSUME NEW s \in Servers, GrantVideo(s) PROVE TypeOK'
  BY <1>9
  DEF GrantVideo, Receive, TakeRequest, Fault, Answer, Reply, Requests,
      Replies, clientVars
<1>10. ASSUME NEW s \in Servers,
              CloseSocket(s) \/ Listen(s) \/ AddSession(s)
       PROVE  TypeOK'
  BY <1>10 DEF CloseSocket, Listen, AddSession, clientVars, netVars
<1>11. ASSUME NEW c \in Clients, StartClient(c) PROVE TypeOK'
  BY <1>11 DEF StartClient, Send, Request, Requests, serverVars
<1>12. ASSUME NEW c \in Clients, ClientHello(c) PROVE TypeOK'
  BY <1>12
  DEF ClientHello, TakeReply, Fault, Send, Request, Requests, serverVars
<1>13. ASSUME NEW c \in Clients, ClientList(c) PROVE TypeOK'
  BY <1>13 DEF ClientList, TakeReply, Fault, Replies, serverVars
<1>14. ASSUME NEW c \in Clients, ChooseVideo(c) PROVE TypeOK'
  BY <1>14 DEF ChooseVideo, Send, Request, Requests, serverVars
<1>15. ASSUME NEW c \in Clients, ClientAnswer(c) PROVE TypeOK'
  BY <1>15 DEF ClientAnswer, TakeReply, Fault, serverVars
<1>16. ASSUME NEW c \in Clients,
              Connect(c) \/ Describe(c) \/ EndOfStream(c)
       PROVE  TypeOK'
  BY <1>16 DEF Connect, Describe, EndOfStream, serverVars, netVars
<1>17. CASE LoseRequest \/ LoseReply \/ DropAtClosedPort \/ EditDirectory
  BY <1>17
  DEF LoseRequest, LoseReply, DropAtClosedPort, EditDirectory, Fault,
      serverVars, clientVars, netVars
<1>18. CASE UNCHANGED vars
  BY <1>18 DEF vars, serverVars, clientVars, netVars
<1> QED
  BY <1>1, <1>2, <1>3, <1>4, <1>5, <1>6, <1>7, <1>8, <1>9, <1>10, <1>11, <1>12,
     <1>13, <1>14, <1>15, <1>16, <1>17, <1>18 DEF Next, ServerStep, ClientStep

-----------------------------------------------------------------------------

\* The steps that matter: GrantVideo takes a request that RequestInv vouches
\* for, ClientAnswer an answer that AnswerInv vouches for, and ChooseVideo
\* makes the one choice that every request in flight must agree with.
LEMMA NextIInv == IInv /\ [Next]_vars => IInv'
<1> SUFFICES ASSUME IInv, [Next]_vars PROVE IInv'
  OBVIOUS
<1>0. TypeOK'
  BY NextTypeOK DEF IInv
<1> USE ConstantsAssumption, <1>0
    DEF IInv, TypeOK, ChoiceInv, RequestInv, ServerInv, AnswerInv, ToldInv, StreamInv,
        Told, Granted, Committed, Requests, Replies
<1>1. ASSUME NEW s \in Servers, StartServer(s) PROVE IInv'
  BY <1>1 DEF StartServer, clientVars, netVars
<1>2. ASSUME NEW s \in Servers, Kill(s) PROVE IInv'
  BY <1>2 DEF Kill, Fault, clientVars
<1>3. ASSUME NEW s \in Servers, ServerHello(s) PROVE IInv'
  BY <1>3
  DEF ServerHello, Receive, TakeRequest, Fault, Answer, Reply, clientVars
<1>4. ASSUME NEW s \in Servers, RejectListRequest(s) PROVE IInv'
  BY <1>4 DEF RejectListRequest, Receive, TakeRequest, Fault, clientVars
<1>5. ASSUME NEW s \in Servers, ReportEmpty(s) PROVE IInv'
  BY <1>5
  DEF ReportEmpty, Receive, TakeRequest, Fault, Answer, Reply, clientVars
<1>6. ASSUME NEW s \in Servers, SendVideoList(s) PROVE IInv'
  <2>1. ChoiceInv'
    BY <1>6
    DEF SendVideoList, Receive, TakeRequest, Fault, Answer, Reply, clientVars
  <2>2. RequestInv'
    BY <1>6
    DEF SendVideoList, Receive, TakeRequest, Fault, Answer, Reply, clientVars
  <2>3. ServerInv'
    BY <1>6
    DEF SendVideoList, Receive, TakeRequest, Fault, Answer, Reply, clientVars
  <2>4. AnswerInv'
    BY <1>6
    DEF SendVideoList, Receive, TakeRequest, Fault, Answer, Reply, clientVars
  <2>5. ToldInv'
    BY <1>6
    DEF SendVideoList, Receive, TakeRequest, Fault, Answer, Reply, clientVars
  <2>6. StreamInv'
    BY <1>6
    DEF SendVideoList, Receive, TakeRequest, Fault, Answer, Reply, clientVars
  <2> QED
    BY <2>1, <2>2, <2>3, <2>4, <2>5, <2>6
<1>7. ASSUME NEW s \in Servers, RejectVideoRequest(s) PROVE IInv'
  BY <1>7 DEF RejectVideoRequest, Receive, TakeRequest, Fault, clientVars
<1>8. ASSUME NEW s \in Servers, RefuseVideo(s) PROVE IInv'
  <2>1. ChoiceInv'
    BY <1>8
    DEF RefuseVideo, Receive, TakeRequest, Fault, Answer, Reply, clientVars
  <2>2. RequestInv'
    BY <1>8
    DEF RefuseVideo, Receive, TakeRequest, Fault, Answer, Reply, clientVars
  <2>3. ServerInv'
    BY <1>8
    DEF RefuseVideo, Receive, TakeRequest, Fault, Answer, Reply, clientVars
  <2>4. AnswerInv'
    BY <1>8
    DEF RefuseVideo, Receive, TakeRequest, Fault, Answer, Reply, clientVars
  <2>5. ToldInv'
    BY <1>8
    DEF RefuseVideo, Receive, TakeRequest, Fault, Answer, Reply, clientVars
  <2>6. StreamInv'
    BY <1>8
    DEF RefuseVideo, Receive, TakeRequest, Fault, Answer, Reply, clientVars
  <2> QED
    BY <2>1, <2>2, <2>3, <2>4, <2>5, <2>6
<1>9. ASSUME NEW s \in Servers, GrantVideo(s) PROVE IInv'
  <2>1. ChoiceInv'
    BY <1>9
    DEF GrantVideo, Receive, TakeRequest, Fault, Answer, Reply, clientVars
  <2>2. RequestInv'
    BY <1>9
    DEF GrantVideo, Receive, TakeRequest, Fault, Answer, Reply, clientVars
  <2>3. ServerInv'
    BY <1>9
    DEF GrantVideo, Receive, TakeRequest, Fault, Answer, Reply, clientVars
  <2>4. AnswerInv'
    BY <1>9
    DEF GrantVideo, Receive, TakeRequest, Fault, Answer, Reply, clientVars
  <2>5. ToldInv'
    BY <1>9
    DEF GrantVideo, Receive, TakeRequest, Fault, Answer, Reply, clientVars
  <2>6. StreamInv'
    BY <1>9
    DEF GrantVideo, Receive, TakeRequest, Fault, Answer, Reply, clientVars
  <2> QED
    BY <2>1, <2>2, <2>3, <2>4, <2>5, <2>6
<1>10. ASSUME NEW s \in Servers, CloseSocket(s) PROVE IInv'
  BY <1>10 DEF CloseSocket, clientVars, netVars
<1>11. ASSUME NEW s \in Servers, Listen(s) PROVE IInv'
  BY <1>11 DEF Listen, clientVars, netVars
<1>12. ASSUME NEW s \in Servers, AddSession(s) PROVE IInv'
  BY <1>12 DEF AddSession, clientVars, netVars
<1>13. ASSUME NEW c \in Clients, StartClient(c) PROVE IInv'
  BY <1>13 DEF StartClient, Send, Request, serverVars
<1>14. ASSUME NEW c \in Clients, ClientHello(c) PROVE IInv'
  BY <1>14 DEF ClientHello, TakeReply, Fault, Send, Request, serverVars
<1>15. ASSUME NEW c \in Clients, ClientList(c) PROVE IInv'
  BY <1>15 DEF ClientList, TakeReply, Fault, serverVars
<1>16. ASSUME NEW c \in Clients, ChooseVideo(c) PROVE IInv'
  <2>1. ChoiceInv'
    BY <1>16 DEF ChooseVideo, Send, Request, serverVars
  <2>2. RequestInv'
    BY <1>16 DEF ChooseVideo, Send, Request, serverVars
  <2>3. ServerInv'
    BY <1>16 DEF ChooseVideo, Send, Request, serverVars
  <2>4. AnswerInv'
    BY <1>16 DEF ChooseVideo, Send, Request, serverVars
  <2>5. ToldInv'
    BY <1>16 DEF ChooseVideo, Send, Request, serverVars
  <2>6. StreamInv'
    BY <1>16 DEF ChooseVideo, Send, Request, serverVars
  <2> QED
    BY <2>1, <2>2, <2>3, <2>4, <2>5, <2>6
<1>17. ASSUME NEW c \in Clients, ClientAnswer(c) PROVE IInv'
  <2>1. ChoiceInv'
    BY <1>17 DEF ClientAnswer, TakeReply, Fault, serverVars
  <2>2. RequestInv'
    BY <1>17 DEF ClientAnswer, TakeReply, Fault, serverVars
  <2>3. ServerInv'
    BY <1>17 DEF ClientAnswer, TakeReply, Fault, serverVars
  <2>4. AnswerInv'
    BY <1>17 DEF ClientAnswer, TakeReply, Fault, serverVars
  <2>5. ToldInv'
    BY <1>17 DEF ClientAnswer, TakeReply, Fault, serverVars
  <2>6. StreamInv'
    BY <1>17 DEF ClientAnswer, TakeReply, Fault, serverVars
  <2> QED
    BY <2>1, <2>2, <2>3, <2>4, <2>5, <2>6
<1>18. ASSUME NEW c \in Clients, Connect(c) PROVE IInv'
  BY <1>18 DEF Connect, serverVars, netVars
<1>19. ASSUME NEW c \in Clients, Describe(c) PROVE IInv'
  BY <1>19 DEF Describe, serverVars, netVars
<1>20. ASSUME NEW c \in Clients, EndOfStream(c) PROVE IInv'
  <2>1. /\ UNCHANGED <<dir, clientAddr, fileName, offered, chosen, stream,
                       toServer, toClient, faults>>
        /\ cpc' = [cpc EXCEPT ![c] = "done"]
        /\ cpc[c] = "watching"
        /\ \A s \in Servers : spc'[s] = spc[s] \/ (spc[s] = "serving" /\ spc'[s] = "exited")
    BY <1>20 DEF EndOfStream, netVars
  <2>2. /\ \A s \in Servers : Granted(s) <=> Granted(s)'
        /\ \A d \in Clients : Told(d) <=> Told(d)'
    BY <2>1 DEF Granted, Told
  <2> QED
    BY <2>1, <2>2
<1>21. CASE LoseRequest \/ LoseReply \/ DropAtClosedPort \/ EditDirectory
  BY <1>21
  DEF LoseRequest, LoseReply, DropAtClosedPort, EditDirectory, serverVars,
      clientVars, netVars
<1>22. CASE UNCHANGED vars
  BY <1>22 DEF vars, serverVars, clientVars, netVars
<1> QED
  BY <1>1, <1>2, <1>3, <1>4, <1>5, <1>6, <1>7, <1>8, <1>9, <1>10, <1>11, <1>12,
     <1>13, <1>14, <1>15, <1>16, <1>17, <1>18, <1>19, <1>20, <1>21, <1>22
  DEF Next, ServerStep, ClientStep

LEMMA InvariantIInv == Spec => []IInv
<1>1. Init => IInv
  BY ConstantsAssumption
  DEF Init, IInv, TypeOK, ChoiceInv, RequestInv, ServerInv, AnswerInv, ToldInv, StreamInv,
      Told, Granted, Committed, ServerPCs, ClientPCs
<1>2. IInv /\ [Next]_vars => IInv'
  BY NextIInv
<1> QED
  BY <1>1, <1>2, PTL DEF Spec

\* Every variable keeps its type.
THEOREM TypeCorrect == Spec => []TypeOK
<1>1. IInv => TypeOK
  BY DEF IInv
<1> QED
  BY <1>1, InvariantIInv, PTL

\* The server streams what its client chose, and a client that was told
\* "Streaming" has such a server, whatever the network does to the datagrams.
THEOREM AgreementHolds == Spec => []Agreement
<1>1. IInv => Agreement
  BY DEF IInv, TypeOK, ChoiceInv, ServerInv, ToldInv, Agreement, Granted
<1> QED
  BY <1>1, InvariantIInv, PTL

\* While one run of RTSPServer exists, what a client watches is what its user
\* chose.  The assumption is needed: TLC finds the wrong video with two.
THEOREM OneServerRightVideo ==
  ASSUME \A s, t \in Servers : s = t
  PROVE  Spec => []RightVideo
<1>1. IInv => RightVideo
  BY DEF IInv, ServerInv, ToldInv, StreamInv, RightVideo, Told
<1> QED
  BY <1>1, InvariantIInv, PTL

-----------------------------------------------------------------------------

GrantNow(s) ==
  IF Granted(s)
  THEN [client |-> clientAddr[s], video |-> fileName[s]]
  ELSE [client |-> None, video |-> None]

\* A step that leaves the choices, the grants and the told clients alone.
LEMMA StutterGrants ==
  ASSUME UNCHANGED chosen,
         \A s \in Servers : GrantNow(s)' = GrantNow(s),
         \A c \in Clients : Told(c)' = Told(c)
  PROVE  UNCHANGED Grants!vars
  BY DEF Grants!vars, GrantNow

\* Every step of the negotiation is a step of VideoGrant or leaves its state
\* unchanged.
LEMMA StepGrants == IInv /\ IInv' /\ [Next]_vars => [Grants!Next]_Grants!vars
<1> SUFFICES ASSUME IInv, IInv', [Next]_vars PROVE [Grants!Next]_Grants!vars
  OBVIOUS
<1> USE ConstantsAssumption DEF IInv, TypeOK
<1>1. ASSUME NEW s \in Servers, GrantVideo(s) PROVE Grants!Commit(s)
  <2> DEFINE G == [t \in Servers |-> GrantNow(t)]
  <2>1. PICK m \in toServer :
          /\ Receive(s, m, "video")
          /\ m.video \in dir
          /\ fileName' = [fileName EXCEPT ![s] = m.video]
          /\ spc' = [spc EXCEPT ![s] = "told"]
    BY <1>1 DEF GrantVideo
  <2>2. m.video # None /\ m.video = chosen[m.client] /\ m.client \in Clients
    BY <2>1 DEF RequestInv, Requests
  <2>3. UNCHANGED <<chosen, cpc>>
    BY <1>1 DEF GrantVideo, clientVars
  <2>4. GrantNow(s) = [client |-> None, video |-> None]
    BY <2>1 DEF GrantNow, Granted, ServerInv, Receive
  <2>5. G' = [G EXCEPT ![s] = [client |-> m.client, video |-> m.video]]
    BY <2>1, <2>2 DEF GrantNow, Granted, Receive
  <2>6. UNCHANGED {c \in Clients : Told(c)}
    BY <2>3 DEF Told
  <2> QED
    BY <2>2, <2>3, <2>4, <2>5, <2>6
    DEF Grants!Commit, Grants!NoGrant, Grants!GrantOf, GrantNow
<1>2. ASSUME NEW c \in Clients, ChooseVideo(c) PROVE Grants!Choose(c)
  <2>1. chosen[c] = None /\ \E v \in Videos : chosen' = [chosen EXCEPT ![c] = v]
    BY <1>2 DEF ChooseVideo, ChoiceInv
  <2>2. UNCHANGED {d \in Clients : Told(d)}
    BY <1>2 DEF ChooseVideo, Told
  <2>3. UNCHANGED <<spc, fileName, clientAddr>>
    BY <1>2 DEF ChooseVideo, serverVars
  <2> QED
    BY <2>1, <2>2, <2>3 DEF Grants!Choose, Granted
<1>3. ASSUME NEW c \in Clients,
             ClientAnswer(c)
      PROVE  [Grants!Tell(c)]_Grants!vars
  <2>1. UNCHANGED <<chosen, spc, fileName, clientAddr>>
    BY <1>3 DEF ClientAnswer, serverVars
  <2>2. PICK m \in toClient :
          /\ cpc[c] = "answer"
          /\ m.client = c
          /\ cpc' = [cpc EXCEPT ![c] = IF m.kind = "streaming"
                                       THEN "told" ELSE "rejected"]
    BY <1>3 DEF ClientAnswer
  <2>3. CASE m.kind = "streaming"
    <3>1. m.server \in Servers /\ Granted(m.server) /\ clientAddr[m.server] = c
      BY <2>2, <2>3 DEF AnswerInv, Replies
    <3>2. {d \in Clients : Told(d)}' = {d \in Clients : Told(d)} \cup {c}
      BY <2>2, <2>3 DEF Told
    <3> QED
      BY <2>1, <3>1, <3>2 DEF Grants!Tell, Granted
  <2>4. CASE m.kind # "streaming"
    <3>1. \A d \in Clients : Told(d)' = Told(d)
      BY <2>2, <2>4 DEF Told
    <3> QED
      BY <2>1, <3>1 DEF Grants!vars, Granted
  <2> QED
    BY <2>3, <2>4
<1>4. ASSUME NEW s \in Servers,
             \/ StartServer(s) \/ Kill(s) \/ ServerHello(s)
             \/ RejectListRequest(s) \/ ReportEmpty(s) \/ SendVideoList(s)
             \/ RejectVideoRequest(s) \/ RefuseVideo(s) \/ CloseSocket(s)
             \/ Listen(s) \/ AddSession(s)
      PROVE UNCHANGED Grants!vars
  <2>1. UNCHANGED <<chosen, cpc>>
    BY <1>4 DEF StartServer, Kill, ServerHello, RejectListRequest, ReportEmpty,
       SendVideoList, RejectVideoRequest, RefuseVideo, CloseSocket, Listen,
       AddSession, clientVars
  <2>2. \A t \in Servers : t # s => GrantNow(t)' = GrantNow(t)
    BY <1>4 DEF GrantNow, Granted, Receive, StartServer, Kill, ServerHello,
       RejectListRequest, ReportEmpty, SendVideoList, RejectVideoRequest,
       RefuseVideo, CloseSocket, Listen, AddSession
  <2>3. GrantNow(s)' = GrantNow(s)
    BY <1>4 DEF GrantNow, Granted, ServerInv, Receive, StartServer, Kill,
       ServerHello, RejectListRequest, ReportEmpty, SendVideoList,
       RejectVideoRequest, RefuseVideo, CloseSocket, Listen, AddSession
  <2> QED
    BY <2>1, <2>2, <2>3, StutterGrants DEF Told
<1>5. ASSUME NEW c \in Clients,
             \/ StartClient(c) \/ ClientHello(c) \/ ClientList(c)
             \/ Connect(c) \/ Describe(c)
      PROVE UNCHANGED Grants!vars
  <2>1. UNCHANGED <<chosen, spc, fileName, clientAddr>>
    BY <1>5 DEF StartClient, ClientHello, ClientList, Connect, Describe,
       serverVars
  <2>2. \A d \in Clients : Told(d)' = Told(d)
    BY <1>5 DEF Told, StartClient, ClientHello, ClientList, Connect, Describe
  <2> QED
    BY <2>1, <2>2, StutterGrants DEF GrantNow, Granted
<1>6. CASE \/ LoseRequest \/ LoseReply \/ DropAtClosedPort \/ EditDirectory
           \/ UNCHANGED vars
  <2>1. UNCHANGED <<chosen, cpc, spc, fileName, clientAddr>>
    BY <1>6 DEF LoseRequest, LoseReply, DropAtClosedPort, EditDirectory, vars,
       serverVars, clientVars
  <2> QED
    BY <2>1, StutterGrants DEF GrantNow, Granted, Told
<1>7. ASSUME NEW c \in Clients, EndOfStream(c) PROVE UNCHANGED Grants!vars
  <2>1. UNCHANGED <<chosen, fileName, clientAddr>>
    BY <1>7 DEF EndOfStream
  <2>2. \A d \in Clients : Told(d)' = Told(d)
    BY <1>7 DEF Told, EndOfStream
  <2>3. \A s \in Servers : GrantNow(s)' = GrantNow(s)
    BY <1>7, <2>1 DEF EndOfStream, GrantNow, Granted
  <2> QED
    BY <2>1, <2>2, <2>3, StutterGrants
<1> QED
  BY <1>1, <1>2, <1>3, <1>4, <1>5, <1>6, <1>7
  DEF Next, ServerStep, ClientStep, Grants!Next

\* The negotiation implements VideoGrant: choices, grants and what clients
\* were told follow that order and are never revised.
THEOREM RefinesGrants == Spec => ImplementsGrants
<1>1. Init => Grants!Init
  BY ConstantsAssumption
  DEF Init, Grants!Init, Grants!NoGrant, Grants!GrantOf, Granted, Told
<1>2. IInv /\ IInv' /\ [Next]_vars => [Grants!Next]_Grants!vars
  BY StepGrants
<1> QED
  BY <1>1, <1>2, InvariantIInv, PTL DEF Spec, Grants!Spec, ImplementsGrants
=============================================================================
