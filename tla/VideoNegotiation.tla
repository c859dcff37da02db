------------------------- MODULE VideoNegotiation -------------------------
(***************************************************************************)
(* The UDP negotiation of RTSPServer.cpp and RTSPClient.cpp, and the       *)
(* hand-over to the RTSP stream on port 8554.                              *)
(*                                                                         *)
(* A member of Servers (Clients) is one run of the RTSPServer (RTSPClient) *)
(* executable: a restarted program is another member.  All servers run on  *)
(* one host, so at most one of them holds UDP port 8000 and at most one    *)
(* holds TCP port 8554.  Datagrams may be lost, duplicated and reordered.  *)
(***************************************************************************)
EXTENDS Naturals

CONSTANTS
  Clients,    \* runs of RTSPClient
  Servers,    \* runs of RTSPServer
  Videos,     \* names that may appear as *.mkv files in ./video/
  Playable,   \* those whose Matroska file has a track that can be streamed
  None,       \* no client, no video or no server
  MaxFaults   \* bound on lost and duplicated datagrams and killed servers

ASSUME ConstantsAssumption ==
  /\ Playable \subseteq Videos
  /\ None \notin Clients \cup Servers \cup Videos
  /\ MaxFaults \in Nat

VARIABLES
  dir,         \* the *.mkv files now in the server host's ./video/
  spc,         \* where each server is: the recvfrom it blocks in, or its phase
  clientAddr,  \* each server's clientAddr: the sender of the last datagram
  fileName,    \* each server's fileName, the video it streams
  cpc,         \* where each client is
  offered,     \* the list the client's user chooses from
  chosen,      \* each client's fileName, the video its user chose
  stream,      \* the server each client's RTSPReceiver is connected to
  toServer,    \* datagrams in flight to port 8000
  toClient,    \* datagrams in flight to the clients
  faults       \* faults so far

serverVars == <<spc, clientAddr, fileName>>
clientVars == <<cpc, offered, chosen, stream>>
netVars    == <<toServer, toClient, faults>>
vars       == <<dir, serverVars, clientVars, netVars>>

(***************************************************************************)
(* Messages.  "Request video list" and "Request <name>" keep their kinds   *)
(* apart, but both start with "Request ", which is all that the server     *)
(* looks at when it waits for a video request.                             *)
(***************************************************************************)
Request(c, kind, v) == [client |-> c, kind |-> kind, video |-> v]

Reply(s, c, kind, v, l) ==
  [server |-> s, client |-> c, kind |-> kind, video |-> v, list |-> l]

Requests == [client : Clients, kind : {"hello", "list", "video"},
             video : Videos \cup {None}]

Replies == [server : Servers, client : Clients,
            kind : {"hello", "empty", "list", "unavailable", "streaming"},
            video : Videos \cup {None}, list : SUBSET Videos]

ServerPCs == {"off", "hello", "list", "video", "told", "closed",
              "listening", "bare", "serving", "exited", "refused"}

ClientPCs == {"off", "hello", "list", "pick", "answer", "told",
              "connected", "watching", "done", "failed", "rejected"}

\* A client run ends "rejected" (RTSPClient exits with 1 in the negotiation),
\* "failed" (its RTSPReceiver got no stream) or "done" (the stream ended).

\* The servers that hold UDP port 8000, and those that hold TCP port 8554.
HoldsUDP(s) == spc[s] \in {"hello", "list", "video", "told"}
HoldsTCP(s) == spc[s] \in {"listening", "bare", "serving"}

\* The servers that are past their answer "Streaming <fileName>" and run.
Committed(s) ==
  spc[s] \in {"told", "closed", "listening", "bare", "serving"}

\* A server that opened its video.  It may have exited since; one that could
\* not open it ended "refused".
Granted(s) == fileName[s] # None /\ spc[s] # "refused"

Init ==
  /\ dir \in SUBSET Videos
  /\ spc        = [s \in Servers |-> "off"]
  /\ clientAddr = [s \in Servers |-> None]
  /\ fileName   = [s \in Servers |-> None]
  /\ cpc        = [c \in Clients |-> "off"]
  /\ offered    = [c \in Clients |-> {}]
  /\ chosen     = [c \in Clients |-> None]
  /\ stream     = [c \in Clients |-> None]
  /\ toServer   = {}
  /\ toClient   = {}
  /\ faults     = 0

(***************************************************************************)
(* The network and the operator.                                           *)
(***************************************************************************)
Fault == faults < MaxFaults /\ faults' = faults + 1

\* recvfrom takes a datagram; the network may deliver another copy later.
TakeRequest(m) ==
  /\ m \in toServer
  /\ \/ toServer' = toServer \ {m} /\ UNCHANGED faults
     \/ Fault /\ UNCHANGED toServer

TakeReply(m) ==
  /\ m \in toClient
  /\ \/ toClient' = toClient \ {m} /\ UNCHANGED faults
     \/ Fault /\ UNCHANGED toClient

LoseRequest ==
  /\ Fault
  /\ \E m \in toServer : toServer' = toServer \ {m}
  /\ UNCHANGED <<dir, serverVars, clientVars, toClient>>

LoseReply ==
  /\ Fault
  /\ \E m \in toClient : toClient' = toClient \ {m}
  /\ UNCHANGED <<dir, serverVars, clientVars, toServer>>

\* A datagram that finds no socket on port 8000 disappears without a trace.
DropAtClosedPort ==
  /\ \A s \in Servers : ~HoldsUDP(s)
  /\ \E m \in toServer : toServer' = toServer \ {m}
  /\ UNCHANGED <<dir, serverVars, clientVars, toClient, faults>>

\* Somebody adds or removes a video while the programs run.
EditDirectory ==
  /\ \E v \in Videos : \/ v \in dir /\ dir' = dir \ {v}
                       \/ v \notin dir /\ dir' = dir \cup {v}
  /\ UNCHANGED <<serverVars, clientVars, netVars>>

\* The operator interrupts a server.
Kill(s) ==
  /\ spc[s] \notin {"off", "exited", "refused"}
  /\ Fault
  /\ spc' = [spc EXCEPT ![s] = "exited"]
  /\ UNCHANGED <<dir, clientAddr, fileName, clientVars, toServer, toClient>>

(***************************************************************************)
(* RTSPServer.                                                             *)
(***************************************************************************)

\* createAndBindSocket: bind fails while another server holds port 8000.
StartServer(s) ==
  /\ spc[s] = "off"
  /\ \/ /\ \A t \in Servers : ~HoldsUDP(t)
        /\ spc' = [spc EXCEPT ![s] = "hello"]
     \/ /\ \E t \in Servers : HoldsUDP(t)
        /\ spc' = [spc EXCEPT ![s] = "exited"]
  /\ UNCHANGED <<dir, clientAddr, fileName, clientVars, netVars>>

\* receiveFromClient overwrites clientAddr with the sender, whoever it is.
Receive(s, m, pc) ==
  /\ spc[s] = pc
  /\ TakeRequest(m)
  /\ clientAddr' = [clientAddr EXCEPT ![s] = m.client]

\* sendToClient: to clientAddr, the sender of the datagram just received.
Answer(s, kind, v, l) ==
  toClient' = toClient \cup {Reply(s, clientAddr'[s], kind, v, l)}

\* The first datagram is taken as the Hello, whatever it says.
ServerHello(s) ==
  \E m \in toServer :
    /\ Receive(s, m, "hello")
    /\ Answer(s, "hello", None, {})
    /\ spc' = [spc EXCEPT ![s] = "list"]
    /\ UNCHANGED <<dir, fileName, clientVars>>

\* The second must be "Request video list"; otherwise the server exits.
RejectListRequest(s) ==
  \E m \in toServer :
    /\ Receive(s, m, "list")
    /\ m.kind # "list"
    /\ spc' = [spc EXCEPT ![s] = "exited"]
    /\ UNCHANGED <<dir, fileName, clientVars, toClient>>

\* No video (or no ./video/): the server says so and exits.
ReportEmpty(s) ==
  \E m \in toServer :
    /\ Receive(s, m, "list")
    /\ m.kind = "list"
    /\ dir = {}
    /\ Answer(s, "empty", None, {})
    /\ spc' = [spc EXCEPT ![s] = "exited"]
    /\ UNCHANGED <<dir, fileName, clientVars>>

SendVideoList(s) ==
  \E m \in toServer :
    /\ Receive(s, m, "list")
    /\ m.kind = "list"
    /\ dir # {}
    /\ Answer(s, "list", None, dir)
    /\ spc' = [spc EXCEPT ![s] = "video"]
    /\ UNCHANGED <<dir, fileName, clientVars>>

\* The third must start with "Request "; otherwise the server exits.
RejectVideoRequest(s) ==
  \E m \in toServer :
    /\ Receive(s, m, "video")
    /\ m.kind = "hello"
    /\ spc' = [spc EXCEPT ![s] = "exited"]
    /\ UNCHANGED <<dir, fileName, clientVars, toClient>>

\* Mutant: the server gives up without "File Not Available".
RefuseSilently(s) ==
  \E m \in toServer :
    /\ Receive(s, m, "video")
    /\ m.kind # "hello"
    /\ m.video \notin dir
    /\ fileName' = [fileName EXCEPT ![s] = m.video]
    /\ spc' = [spc EXCEPT ![s] = "refused"]
    /\ UNCHANGED <<dir, clientVars, toClient>>

\* fopen fails: the video is gone, or the datagram was another "Request video
\* list", which asks for a file named "video list".
RefuseVideo(s) ==
  \E m \in toServer :
    /\ Receive(s, m, "video")
    /\ m.kind # "hello"
    /\ m.video \notin dir
    /\ fileName' = [fileName EXCEPT ![s] = m.video]
    /\ Answer(s, "unavailable", None, {})
    /\ spc' = [spc EXCEPT ![s] = "refused"]
    /\ UNCHANGED <<dir, clientVars>>

\* Mutant: the server opens some file, not the one asked for.
GrantAnyVideo(s) ==
  \E m \in toServer, v \in dir :
    /\ Receive(s, m, "video")
    /\ m.kind # "hello"
    /\ fileName' = [fileName EXCEPT ![s] = v]
    /\ Answer(s, "streaming", v, {})
    /\ spc' = [spc EXCEPT ![s] = "told"]
    /\ UNCHANGED <<dir, clientVars>>

\* Mutant: the server starts to stream and never answers.
GrantSilently(s) ==
  \E m \in toServer :
    /\ Receive(s, m, "video")
    /\ m.kind # "hello"
    /\ m.video \in dir
    /\ fileName' = [fileName EXCEPT ![s] = m.video]
    /\ spc' = [spc EXCEPT ![s] = "told"]
    /\ UNCHANGED <<dir, clientVars, toClient>>

\* The answer "Streaming <name>" leaves before anything listens on port 8554.
GrantVideo(s) ==
  \E m \in toServer :
    /\ Receive(s, m, "video")
    /\ m.kind # "hello"
    /\ m.video \in dir
    /\ fileName' = [fileName EXCEPT ![s] = m.video]
    /\ Answer(s, "streaming", m.video, {})
    /\ spc' = [spc EXCEPT ![s] = "told"]
    /\ UNCHANGED <<dir, clientVars>>

CloseSocket(s) ==
  /\ spc[s] = "told"
  /\ spc' = [spc EXCEPT ![s] = "closed"]
  /\ UNCHANGED <<dir, clientAddr, fileName, clientVars, netVars>>

\* RTSPServer::createNew(8554): fails while another server listens there.
Listen(s) ==
  /\ spc[s] = "closed"
  /\ \/ /\ \A t \in Servers : ~HoldsTCP(t)
        /\ spc' = [spc EXCEPT ![s] = "listening"]
     \/ /\ \E t \in Servers : HoldsTCP(t)
        /\ spc' = [spc EXCEPT ![s] = "exited"]
  /\ UNCHANGED <<dir, clientAddr, fileName, clientVars, netVars>>

\* The demultiplexor has read the track headers.  Without a track (or without
\* the file, if it is gone by now) the session is never added to the server.
AddSession(s) ==
  /\ spc[s] = "listening"
  /\ spc' = [spc EXCEPT ![s] = IF fileName[s] \in dir \cap Playable
                               THEN "serving" ELSE "bare"]
  /\ UNCHANGED <<dir, clientAddr, fileName, clientVars, netVars>>

ServerStep(s) ==
  \/ ServerHello(s)
  \/ RejectListRequest(s)
  \/ ReportEmpty(s)
  \/ SendVideoList(s)
  \/ RejectVideoRequest(s)
  \/ RefuseVideo(s)
  \/ GrantVideo(s)
  \/ CloseSocket(s)
  \/ Listen(s)
  \/ AddSession(s)

(***************************************************************************)
(* RTSPClient, and the part of RTSPReceiver that meets the server.         *)
(***************************************************************************)
Send(m) == toServer' = toServer \cup {m}

StartClient(c) ==
  /\ cpc[c] = "off"
  /\ Send(Request(c, "hello", None))
  /\ cpc' = [cpc EXCEPT ![c] = "hello"]
  /\ UNCHANGED <<dir, serverVars, offered, chosen, stream, toClient, faults>>

\* The first reply is taken as the Hello, whatever it says.
ClientHello(c) ==
  \E m \in toClient :
    /\ cpc[c] = "hello"
    /\ m.client = c
    /\ TakeReply(m)
    /\ Send(Request(c, "list", None))
    /\ cpc' = [cpc EXCEPT ![c] = "list"]
    /\ UNCHANGED <<dir, serverVars, offered, chosen, stream>>

\* Mutant: an answer without a newline is offered as one name.
ClientTakesAnyText(c) ==
  \E m \in toClient :
    /\ cpc[c] = "list"
    /\ m.client = c
    /\ TakeReply(m)
    /\ offered' = [offered EXCEPT ![c] = IF m.kind = "list"
                                        THEN m.list ELSE {m.video}]
    /\ cpc' = [cpc EXCEPT ![c] = "pick"]
    /\ UNCHANGED <<dir, serverVars, chosen, stream, toServer>>

\* Only a list has a newline: getVideoFileNameFromUser finds no name in
\* anything else, and the client exits.
ClientList(c) ==
  \E m \in toClient :
    /\ cpc[c] = "list"
    /\ m.client = c
    /\ TakeReply(m)
    /\ \/ /\ m.kind = "list"
          /\ offered' = [offered EXCEPT ![c] = m.list]
          /\ cpc' = [cpc EXCEPT ![c] = "pick"]
       \/ /\ m.kind # "list"
          /\ cpc' = [cpc EXCEPT ![c] = "rejected"]
          /\ UNCHANGED offered
    /\ UNCHANGED <<dir, serverVars, chosen, stream, toServer>>

\* The user chooses one of the names offered.
ChooseVideo(c) ==
  /\ cpc[c] = "pick"
  /\ \E v \in offered[c] :
       /\ chosen' = [chosen EXCEPT ![c] = v]
       /\ Send(Request(c, "video", v))
  /\ cpc' = [cpc EXCEPT ![c] = "answer"]
  /\ UNCHANGED <<dir, serverVars, offered, stream, toClient, faults>>

\* Mutant: the client does not look at the answer.
ClientTrustsAnswer(c) ==
  \E m \in toClient :
    /\ cpc[c] = "answer"
    /\ m.client = c
    /\ TakeReply(m)
    /\ cpc' = [cpc EXCEPT ![c] = "told"]
    /\ UNCHANGED <<dir, serverVars, offered, chosen, stream, toServer>>

\* "Streaming " is all the client looks at: not at the name that follows it.
ClientAnswer(c) ==
  \E m \in toClient :
    /\ cpc[c] = "answer"
    /\ m.client = c
    /\ TakeReply(m)
    /\ cpc' = [cpc EXCEPT ![c] = IF m.kind = "streaming"
                                 THEN "told" ELSE "rejected"]
    /\ UNCHANGED <<dir, serverVars, offered, chosen, stream, toServer>>

\* RTSPReceiver connects to whoever listens on port 8554 of that host.
Connect(c) ==
  /\ cpc[c] = "told"
  /\ \/ \E s \in Servers :
          /\ HoldsTCP(s)
          /\ stream' = [stream EXCEPT ![c] = s]
          /\ cpc' = [cpc EXCEPT ![c] = "connected"]
     \/ /\ \A s \in Servers : ~HoldsTCP(s)
        /\ cpc' = [cpc EXCEPT ![c] = "failed"]
        /\ UNCHANGED stream
  /\ UNCHANGED <<dir, serverVars, offered, chosen, netVars>>

\* DESCRIBE .../videoStream finds the session only once it has been added.
Describe(c) ==
  /\ cpc[c] = "connected"
  /\ cpc' = [cpc EXCEPT ![c] = IF spc[stream[c]] = "serving"
                               THEN "watching" ELSE "failed"]
  /\ UNCHANGED <<dir, serverVars, offered, chosen, stream, netVars>>

\* RTSPReceiver ends, and RTSPClient, which waits for it, ends too.  A receiver
\* that still has an active sink (its timer fired) sends TEARDOWN, and the
\* server that handles a TEARDOWN exits, whoever else watches its stream; one
\* that got a BYE for every track sends none.  Streaming tells the two apart.
EndOfStream(c) ==
  /\ cpc[c] = "watching"
  /\ cpc' = [cpc EXCEPT ![c] = "done"]
  /\ \/ /\ spc[stream[c]] = "serving"
        /\ spc' = [spc EXCEPT ![stream[c]] = "exited"]
     \/ UNCHANGED spc
  /\ UNCHANGED <<dir, clientAddr, fileName, offered, chosen, stream, netVars>>

ClientStep(c) ==
  \/ ClientHello(c)
  \/ ClientList(c)
  \/ ChooseVideo(c)
  \/ ClientAnswer(c)
  \/ Connect(c)
  \/ Describe(c)
  \/ EndOfStream(c)

(***************************************************************************)
(* The system.                                                             *)
(***************************************************************************)
Next ==
  \/ \E s \in Servers : StartServer(s) \/ ServerStep(s) \/ Kill(s)
  \/ \E c \in Clients : StartClient(c) \/ ClientStep(c)
  \/ LoseRequest
  \/ LoseReply
  \/ DropAtClosedPort
  \/ EditDirectory

Spec == Init /\ [][Next]_vars

\* A program that can take its next step takes it, and the user chooses in the
\* end.  Nobody is obliged to start or to kill a program, to edit the directory
\* or to lose a datagram.
Fairness ==
  /\ \A s \in Servers : WF_vars(ServerStep(s))
  /\ \A c \in Clients : WF_vars(ClientStep(c))

FairSpec == Spec /\ Fairness

(***************************************************************************)
(* Properties.                                                             *)
(***************************************************************************)

\* Every variable has its type.
TypeOK ==
  /\ dir \subseteq Videos
  /\ spc \in [Servers -> ServerPCs]
  /\ clientAddr \in [Servers -> Clients \cup {None}]
  /\ fileName \in [Servers -> Videos \cup {None}]
  /\ cpc \in [Clients -> ClientPCs]
  /\ offered \in [Clients -> SUBSET Videos]
  /\ chosen \in [Clients -> Videos \cup {None}]
  /\ stream \in [Clients -> Servers \cup {None}]
  /\ toServer \subseteq Requests
  /\ toClient \subseteq Replies
  /\ faults \in 0..MaxFaults

\* The clients that were told "Streaming ..." (and may have gone on since).
Told(c) == cpc[c] \in {"told", "connected", "watching", "done", "failed"}

\* A server that streams, streams the very video that the client at the other
\* end of its negotiation chose from the list it was shown, and a client that
\* was told "Streaming" has a server of its own that opened that video: for
\* any mix of runs, with lost, duplicated, reordered and stale datagrams,
\* although neither side checks whom a datagram comes from, the server takes
\* any first datagram as the Hello, and the client never looks at the name
\* that follows "Streaming ".
Agreement ==
  /\ \A s \in Servers : Granted(s) =>
       /\ clientAddr[s] \in Clients
       /\ fileName[s] = chosen[clientAddr[s]]
       /\ fileName[s] \in offered[clientAddr[s]]
  /\ \A c \in Clients : Told(c) =>
       \E s \in Servers : Granted(s) /\ clientAddr[s] = c

\* The negotiation implements VideoGrant: what a user chose, what a server
\* committed itself to and what a client was told is decided once, in that
\* order, and never changes.
Grants ==
  INSTANCE VideoGrant WITH
    wish  <- chosen,
    grant <- [s \in Servers |->
                IF Granted(s)
                THEN [client |-> clientAddr[s], video |-> fileName[s]]
                ELSE [client |-> None, video |-> None]],
    told  <- {c \in Clients : Told(c)}

ImplementsGrants == Grants!Spec

\* A client that watches a stream watches the video its user chose.  It holds
\* while one server program runs; port 8554 says nothing about which of two
\* runs owns it, see Findings in the README.
RightVideo ==
  \A c \in Clients :
    cpc[c] = "watching" => fileName[stream[c]] = chosen[c]

\* A client whose request the server granted learns of it, unless there is a
\* fault: no datagram of another client makes it give up between its request
\* and the answer.
GrantReachesClient ==
  \A s \in Servers, c \in Clients :
    (Committed(s) /\ clientAddr[s] = c) ~> Told(c) \/ faults > 0

\* A client whose Hello finds a waiting server is not left blocked in recvfrom:
\* it ends, with the stream or with an error, unless there is a fault or another
\* client interferes.
NegotiationEnds ==
  \A s \in Servers, c \in Clients :
    (spc[s] = "hello" /\ Request(c, "hello", None) \in toServer)
      ~> \/ cpc[c] \in {"done", "failed", "rejected"}
         \/ faults > 0
         \/ \E d \in Clients \ {c} : cpc[d] # "off"
=============================================================================
