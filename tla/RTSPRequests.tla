--------------------------- MODULE RTSPRequests ---------------------------
(***************************************************************************)
(* The requests of an RTSPClient: they wait for the TCP connection, then   *)
(* for their answers, and their response handlers are called with what     *)
(* comes back, or with an error.  Handlers may send further requests from  *)
(* within the loops that call them.  Several requests may be outstanding   *)
(* (pipelined); the server answers them in order, on a connection that may *)
(* break.  RTSP over HTTP, answers longer than the buffer, and requests    *)
(* from the server to the client are left out.                             *)
(***************************************************************************)
EXTENDS Integers, Sequences

CONSTANTS
  Requests,   \* the requests that the application makes
  Kinds,      \* the kinds of answers that the server gives, see Answer
  MaxFaults   \* bound on errors, broken connections and unusual answers

ASSUME RequestsAssumption ==
  /\ MaxFaults \in Nat
  /\ "final" \in Kinds /\ "eof" \notin Kinds

VARIABLES
  conn,       \* is there a socket: "none", "pending" or "open"
  waiting,    \* fRequestsAwaitingConnection, of records [id, cseq]
  awaiting,   \* fRequestsAwaitingResponse
  cseq,       \* fCSeq
  mode,       \* the loop the client is in, or "idle" in the event loop
  todo,       \* the temporary queue of that loop
  inHandler,  \* did that loop call a handler that has not returned yet?
  buffer,     \* the answers in fResponseBuffer
  up,         \* requests on their way to the server
  down,       \* answers [id, cseq, kind] on their way to the client
  told,       \* what became of each request
  received,   \* requests whose last answer has been read
  faults

queueVars == <<waiting, awaiting, todo>>
linkVars  == <<up, down>>
vars == <<conn, queueVars, cseq, mode, inHandler, buffer, linkVars, told,
          received, faults>>

Init ==
  /\ conn = "none"
  /\ waiting = <<>> /\ awaiting = <<>> /\ todo = <<>>
  /\ cseq = 1
  /\ mode = "idle" /\ inHandler = FALSE
  /\ buffer = <<>> /\ up = <<>> /\ down = <<>>
  /\ told = [r \in Requests |-> "new"]
  /\ received = {}
  /\ faults = 0

Fault   == faults < MaxFaults /\ faults' = faults + 1
NoFault == UNCHANGED faults

\* What went over a connection is lost when it is closed.
Link(c) ==
  IF c = "open" THEN UNCHANGED linkVars ELSE up' = <<>> /\ down' = <<>>

(***************************************************************************)
(* sendRequest, in a state where the socket is c, the requests that await  *)
(* a response are q, and t is what became of the requests.                 *)
(***************************************************************************)

Enqueue(r, c, q, t) ==
  /\ waiting' = Append(waiting, r)
  /\ conn' = c /\ awaiting' = q /\ told' = t
  /\ Link(c) /\ NoFault

Connect(r, q, t) ==
  /\ conn' = "pending"
  /\ waiting' = <<r>> /\ awaiting' = q /\ told' = t
  /\ Link("none") /\ NoFault

\* On a socket that is open, or that connect() opened at once.
Transmit(r, c, q, t) ==
  /\ conn' = "open"
  /\ awaiting' = Append(q, r) /\ told' = t
  /\ up' = Append(IF c = "open" THEN up ELSE <<>>, r)
  /\ down' = IF c = "open" THEN down ELSE <<>>
  /\ UNCHANGED waiting /\ NoFault

\* The connection cannot be opened; or there is one, but no session to name
\* in the request, or send() failed.  The handler is called at once.
RequestError(r, c, q, t) ==
  /\ Fault
  /\ told' = [t EXCEPT ![r.id] = "error"]
  /\ conn' \in {c, "open"} /\ awaiting' = q
  /\ UNCHANGED waiting /\ Link(c)

\* Mutant: a connection that is pending is taken for one that is there.
SendAtOnce(r, c, q, t) ==
  \/ /\ c = "none"
     /\ Connect(r, q, t) \/ Transmit(r, c, q, t) \/ RequestError(r, c, q, t)
  \/ /\ c # "none"
     /\ Transmit(r, c, q, t) \/ RequestError(r, c, q, t)

SendRequest(r, c, q, t) ==
  \/ /\ waiting # <<>>
     /\ Enqueue(r, c, q, t)
  \/ /\ waiting = <<>> /\ c = "none"
     /\ Connect(r, q, t) \/ Transmit(r, c, q, t) \/ RequestError(r, c, q, t)
  \/ /\ waiting = <<>> /\ c # "none"
     /\ Transmit(r, c, q, t) \/ RequestError(r, c, q, t)

\* The application sends request id, from the event loop or from a handler.
Submit(id) ==
  /\ mode = "idle" \/ inHandler
  /\ told[id] = "new"
  /\ cseq' = cseq + 1
  /\ SendRequest([id |-> id, cseq |-> cseq + 1], conn, awaiting,
                 [told EXCEPT ![id] = "asked"])
  /\ UNCHANGED <<mode, todo, inHandler, buffer, received>>

(***************************************************************************)
(* connectionHandler: the requests that waited move to a queue of its own, *)
(* and are sent or get an error one by one.                                *)
(***************************************************************************)

ConnectionHandler ==
  /\ mode = "idle" /\ conn = "pending"
  /\ todo' = waiting /\ waiting' = <<>>
  /\ \/ conn' = "open" /\ mode' = "connected" /\ NoFault
     \/ conn' = "none" /\ mode' = "failed" /\ Fault
  /\ UNCHANGED <<awaiting, cseq, inHandler, buffer, linkVars, told, received>>

ResendNext ==
  /\ mode = "connected" /\ todo # <<>>
  /\ todo' = Tail(todo)
  /\ SendRequest(Head(todo), conn, awaiting, told)
  /\ inHandler' = (told' # told)
  /\ UNCHANGED <<cseq, mode, buffer, received>>

FailNext ==
  /\ mode = "failed" /\ todo # <<>>
  /\ todo' = Tail(todo)
  /\ told' = [told EXCEPT ![Head(todo).id] = "error"]
  /\ inHandler' = TRUE
  /\ UNCHANGED <<conn, waiting, awaiting, cseq, mode, buffer, linkVars,
                 received, faults>>

\* The loop is over.
LoopEnds ==
  /\ \/ mode \in {"connected", "failed"} /\ todo = <<>>
     \/ mode = "answers" /\ buffer = <<>>
  /\ mode' = "idle" /\ inHandler' = FALSE
  /\ UNCHANGED <<conn, queueVars, cseq, buffer, linkVars, told, received,
                 faults>>

(***************************************************************************)
(* handleResponseBytes.                                                    *)
(***************************************************************************)

\* Mutant: the requests that wait for their answers stay where they are.
ForgetPending ==
  /\ mode = "idle" /\ conn = "open"
  /\ down # <<>> /\ Head(down).kind = "eof"
  /\ conn' = "none" /\ Link("none")
  /\ buffer' = <<>>
  /\ UNCHANGED <<queueVars, cseq, mode, inHandler, told, received, faults>>

\* The connection has been closed by the server: every request that waits
\* for its answer gets an error.
ReadError ==
  /\ mode = "idle" /\ conn = "open"
  /\ down # <<>> /\ Head(down).kind = "eof"
  /\ conn' = "none" /\ Link("none")
  /\ todo' = awaiting /\ awaiting' = <<>>
  /\ buffer' = <<>>
  /\ mode' = "failed"
  /\ UNCHANGED <<waiting, cseq, inHandler, told, received, faults>>

\* Mutant: the end of the connection is taken for data.
ReadAnything ==
  /\ mode = "idle" /\ conn = "open" /\ down # <<>>
  /\ buffer' = buffer \o down /\ down' = <<>>
  /\ mode' = "answers"
  /\ UNCHANGED <<conn, queueVars, cseq, inHandler, up, told, received, faults>>

\* Some answers arrive with one read.
Read ==
  /\ mode = "idle" /\ conn = "open"
  /\ \E n \in 1..Len(down) :
       /\ \A i \in 1..n : down[i].kind # "eof"
       /\ buffer' = buffer \o SubSeq(down, 1, n)
       /\ down' = SubSeq(down, n + 1, Len(down))
       /\ received' = received \cup
            {down[i].id : i \in {j \in 1..n :
                                   down[j].kind \notin
                                     {"auth", "redirect", "misnumbered"}}}
  /\ mode' = "answers"
  /\ UNCHANGED <<conn, queueVars, cseq, inHandler, up, told, faults>>

\* Where in queue q the search for the answer's CSeq stops.
Stop(q, a) ==
  CHOOSE k \in 1..(Len(q) + 1) :
    /\ k <= Len(q) => q[k].cseq >= a.cseq
    /\ \A i \in 1..(k - 1) : q[i].cseq < a.cseq

\* Mutant: whoever waits longest gets the answer.
TakeFirst(q, a) == 1

\* The place in q of the request that the answer is taken to belong to,
\* Len(q) + 1 if there is none.  The request where the search stops is taken
\* out of the queue, too; if it is not the right one, the next one is used.
Found(q, a) ==
  LET k == Stop(q, a)
  IN  IF k <= Len(q) /\ q[k].cseq > a.cseq THEN k + 1 ELSE k

\* Those before it are deleted, and their handlers are not called.
Drop(t, q, a) ==
  [r \in Requests |->
     IF \E i \in 1..(Found(q, a) - 1) : i <= Len(q) /\ q[i].id = r
     THEN "dropped" ELSE t[r]]

After(q, a) == SubSeq(q, Found(q, a) + 1, Len(q))

\* Mutant: the request found is not put back.
FindAndForget ==
  /\ mode = "idle" /\ conn = "open" /\ buffer = <<>>
  /\ down # <<>> /\ Head(down).kind \notin {"eof", "close"}
  /\ LET a == Head(down)
     IN  awaiting' = After(awaiting, a) /\ told' = Drop(told, awaiting, a)
  /\ UNCHANGED <<conn, waiting, todo, cseq, mode, inHandler, buffer, linkVars,
                 received, faults>>

\* The headers have come and the body has not: the search is made, and made
\* again when the rest is there.
ReadHeaders ==
  /\ mode = "idle" /\ conn = "open" /\ buffer = <<>>
  /\ down # <<>> /\ Head(down).kind \notin {"eof", "close"}
  /\ LET a == Head(down)
     IN  /\ awaiting' = SubSeq(awaiting, Found(awaiting, a), Len(awaiting))
         /\ told' = Drop(told, awaiting, a)
  /\ UNCHANGED <<conn, waiting, todo, cseq, mode, inHandler, buffer, linkVars,
                 received, faults>>

NextAnswer == mode = "answers" /\ buffer # <<>>

\* What of the buffer is left after answer a: nothing, if already its headers
\* make no sense, or its body is too long.
Rest(a) == IF a.kind = "malformed" THEN <<>> ELSE Tail(buffer)

\* The header "Connection: Close" closes the socket.
CloseFor(a) ==
  /\ conn' = IF a.kind = "close" THEN "none" ELSE conn
  /\ Link(conn')

\* Nobody waits for it.
IgnoreAnswer ==
  /\ NextAnswer
  /\ LET a == Head(buffer)
     IN  /\ Found(awaiting, a) > Len(awaiting)
         /\ told' = Drop(told, awaiting, a)
         /\ CloseFor(a)
         /\ buffer' = Rest(a)
  /\ awaiting' = <<>>
  /\ inHandler' = FALSE
  /\ UNCHANGED <<waiting, todo, cseq, mode, received, faults>>

\* The handler is called with the answer.
CallHandler ==
  /\ NextAnswer
  /\ LET a == Head(buffer)
         k == Found(awaiting, a)
     IN  /\ a.kind \in {"final", "close", "twice"}
         /\ k <= Len(awaiting)
         /\ told' = [Drop(told, awaiting, a) EXCEPT ![awaiting[k].id] =
                       IF @ = "asked" /\ awaiting[k].id = a.id
                       THEN "answered" ELSE "mistaken"]
         /\ awaiting' = After(awaiting, a)
         /\ CloseFor(a)
         /\ buffer' = Rest(a)
  /\ inHandler' = TRUE
  /\ UNCHANGED <<waiting, todo, cseq, mode, received, faults>>

\* The answer makes no sense: the handler is called with an error, and the
\* loop ends.
CallHandlerWithError ==
  /\ NextAnswer
  /\ LET a == Head(buffer)
         k == Found(awaiting, a)
     IN  /\ a.kind \in {"unusable", "malformed"}
         /\ k <= Len(awaiting)
         /\ told' = [Drop(told, awaiting, a) EXCEPT ![awaiting[k].id] = "error"]
         /\ awaiting' = After(awaiting, a)
         /\ buffer' = Rest(a)
  /\ mode' = "idle" /\ inHandler' = FALSE
  /\ UNCHANGED <<conn, waiting, todo, cseq, linkVars, received, faults>>

\* The server asks for credentials or names another server: the request is
\* sent again with a new CSeq.
ResendCommand ==
  /\ NextAnswer
  /\ LET a == Head(buffer)
         k == Found(awaiting, a)
     IN  /\ a.kind \in {"auth", "redirect"}
         /\ k <= Len(awaiting)
         /\ SendRequest([awaiting[k] EXCEPT !.cseq = cseq + 1],
                        IF a.kind = "redirect" THEN "none" ELSE conn,
                        After(awaiting, a),
                        Drop(told, awaiting, a))
  /\ cseq' = cseq + 1
  /\ buffer' = <<>>
  /\ mode' = "idle" /\ inHandler' = FALSE
  /\ UNCHANGED <<todo, received>>

(***************************************************************************)
(* The server and the network.                                             *)
(***************************************************************************)

Eof == [kind |-> "eof"]

ServerListens == \A i \in 1..Len(down) : down[i].kind # "eof"

\* The number of an answer that belongs to no request.
Unused == 2147483647

\* The server answers one request after the other, some of them twice or with
\* a wrong number, and closes the connection after the answer that says so.
Answer ==
  /\ up # <<>> /\ ServerListens
  /\ \E kind \in Kinds :
       /\ IF kind = "final" THEN NoFault ELSE Fault
       /\ LET a == [id   |-> Head(up).id,
                    cseq |-> IF kind = "misnumbered" THEN Unused
                             ELSE Head(up).cseq,
                    kind |-> kind]
          IN  down' = down \o (CASE kind = "close" -> <<a, Eof>>
                               [] kind = "twice" -> <<a, a>>
                               [] OTHER          -> <<a>>)
       /\ up' = Tail(up)
  /\ UNCHANGED <<conn, queueVars, cseq, mode, inHandler, buffer, told, received>>

\* The server ends, or closes the connection.
Break ==
  /\ conn = "open" /\ ServerListens
  /\ Fault
  /\ up' = <<>>
  /\ down' = Append(down, Eof)
  /\ UNCHANGED <<conn, queueVars, cseq, mode, inHandler, buffer, told, received>>

Step ==
  \/ ConnectionHandler \/ ResendNext \/ FailNext \/ LoopEnds
  \/ ReadError \/ Read
  \/ IgnoreAnswer \/ CallHandler \/ CallHandlerWithError \/ ResendCommand

Next ==
  \/ \E id \in Requests : Submit(id)
  \/ Step
  \/ ReadHeaders
  \/ Answer
  \/ Break

Spec == Init /\ [][Next]_vars

\* The event loop turns, connections come about or fail, the server answers.
FairSpec == Spec /\ WF_vars(Step) /\ WF_vars(Answer)

(***************************************************************************)
(* Properties.                                                             *)
(***************************************************************************)

Record  == [id : Requests, cseq : Nat]
Answers == [id : Requests, cseq : Nat, kind : Kinds]

\* Every variable has its type.
TypeOK ==
  /\ conn \in {"none", "pending", "open"}
  /\ waiting \in Seq(Record) /\ awaiting \in Seq(Record) /\ todo \in Seq(Record)
  /\ cseq \in Nat
  /\ mode \in {"idle", "connected", "failed", "answers"}
  /\ inHandler \in BOOLEAN
  /\ up \in Seq(Record)
  /\ down \in Seq(Answers \cup {Eof}) /\ buffer \in Seq(Answers)
  /\ told \in [Requests ->
                {"new", "asked", "answered", "error", "dropped", "mistaken"}]
  /\ received \subseteq Requests
  /\ faults \in 0..MaxFaults

Queued(q) == {q[i].id : i \in 1..Len(q)}

\* A request whose handler has still to be called is in one of the queues,
\* once, and no other request is in any: none leaks when it moves from queue
\* to queue, is put back, or is sent again, whatever handlers do meanwhile.
Accounted ==
  LET all == waiting \o awaiting \o todo
  IN  /\ Queued(all) = {r \in Requests : told[r] = "asked"}
      /\ \A i, j \in 1..Len(all) : all[i].id = all[j].id => i = j

\* Requests wait for a connection only while one is being made.  Otherwise
\* they, and all that come after them, would wait for ever.
SocketPending == waiting # <<>> <=> conn = "pending"

\* What ResponseHandlers says of calls, answers and errors.
Handlers == INSTANCE ResponseHandlers
ImplementsHandlers == Handlers!Spec

Unusual(a) == a.kind \notin {"final", "eof"}

\* Every response handler is called, even if connections break, as long as
\* the server sends no unusual answer.
HandlersCalled ==
  []~(\E i \in 1..Len(down) : Unusual(down[i])) =>
    \A r \in Requests : told[r] = "asked" ~> told[r] \in {"answered", "error"}

\* RTSPClient.cpp:1687 ignores a response for which no handler is registered:
\* no other handler is called with it.
OwnAnswer == \A r \in Requests : told[r] # "mistaken"
=============================================================================
