# A formal model of the SKKU-NET-HW3 video streaming programs

The repository holds three small programs and the part of the LIVE555
libraries they are linked with:

- `RTSPServer` (`src/RTSPServer.cpp`) waits on UDP port 8000 for one client,
  lets it choose a Matroska file of `./video/`, and then streams that file as
  an RTSP server on TCP port 8554;
- `RTSPClient` (`src/RTSPClient.cpp`) is the other end of that negotiation, and
  then starts
- `RTSPReceiver` (`src/RTSPReceiver.cpp`), which opens
  `rtsp://<server>:8554/videoStream`, receives all its tracks and throws the
  frames away;
- `src/live/` is LIVE555 with one change of its own: `handleCmd_TEARDOWN` ends
  with `exit(0)` (`live/liveMedia/RTSPServer.cpp:1598-1599`).

This directory models what these programs do, checks it with TLC on small
instances, and proves the most important of it with TLAPS for all instances.

## 1. Inventory

### 1.1 Components

| component | state it keeps | operations | talks to |
|---|---|---|---|
| RTSPServer, UDP part | where it is in `main`, `clientAddr`, `fileName`, the UDP socket | receive Hello, receive list request, send list, receive video request, open the file, answer, close | RTSPClient by datagrams, the directory `./video/` |
| RTSPClient | where it is in `main`, the list, `fileName` | send Hello, request list, let the user choose, request video, start RTSPReceiver and wait | RTSPServer by datagrams, RTSPReceiver by fork/exec/wait |
| RTSPReceiver | `scs` (iterator, subsession, timer, duration), a sink per subsession, `rtspClientCount` | `continueAfterDESCRIBE`, `continueAfterSETUP`, `continueAfterPLAY`, BYE handler, timer, `shutdownStream` | RTSP server by one TCP connection, RTP and RTCP by UDP |
| RTSP server: sessions and streams | table of client sessions, stream states per track, liveness timers | DESCRIBE, SETUP, PLAY, PAUSE, TEARDOWN, end of a stream, liveness timeout | RTSPReceiver, Matroska demultiplexors, RTCP |
| RTSP client library | three queues of requests, CSeq, session id, TCP connection | send a request, connect, match an answer, fail outstanding requests | RTSPReceiver by response handlers |
| RTCP | member database, next report time, BYE handler | reports, BYE | both ends |
| RTP reception | reordering queue, reused packet buffer, the frame being assembled | read a packet, store it, deliver frames | DummySink by callbacks, event loop by tasks |
| Event loop | handlers of sockets, event triggers, delay queue | schedule and unschedule tasks; set, clear and move socket handlers; `SingleStep` | everything |
| Matroska demultiplexors | parser state, byte banks, file position, demuxed tracks and their readers; one per client session | read a frame, parse on, file readable, end of file, seek, close | stream states, RTP sinks by callbacks, the event loop |
| RTP transmission | packet under construction, overflow data, fragment offset, next send time | start, stop, pack a frame, send, end of the source | Matroska tracks, event loop |
| Reception statistics | extended sequence numbers, counts since the last report | note a packet, report | RTP reception, RTCP |
| SDP, sockets, RTP over TCP, HTTP tunnelling, proxies, other formats | | | not modelled, see section 9 |

### 1.2 How they interact

A run has two phases.

*Negotiation.* Three requests and three answers by UDP, strictly alternating
on both sides, each side blocked in `recvfrom` between them. The server
answers to whoever sent the last datagram (`clientAddr` is an output parameter
of `recvfrom`) and does not compare senders; the client does not either. When
the server has sent `Streaming <name>` it closes port 8000 and opens port 8554;
when the client has received it, it starts RTSPReceiver, which connects to port
8554 of that host, whoever listens there.

*Streaming.* RTSPReceiver sends DESCRIBE, one SETUP per track and PLAY, each
when the answer to the one before has come. The server starts one stream per
track. It ends in one of two ways. If the file states its duration the receiver
runs a timer (duration + 2 s), then sends TEARDOWN, and the server exits. If it
does not, the server sends an RTCP BYE per track at the end of the file; the
receiver closes a sink for each and ends with the last one, without TEARDOWN.
Meanwhile, packets are put into order, frames assembled, and handed to the sink
by a call or by a task of the event loop.

### 1.3 What is hard

- *Interleaving*: several clients on one UDP port whose server keeps no notion
  of a peer; several receivers on one RTSP server that any of them can end; BYEs
  of several tracks against each other and against the answer to PLAY.
- *Atomicity*: the promise `Streaming <name>` precedes the ability to keep it;
  the directory is read at one time and the file opened at another.
- *Lost, duplicated and reordered datagrams*: in the negotiation, of BYEs, and
  of RTP packets, where reordering is the normal case.
- *Time-outs*: the receiver's timer, the server's liveness timer, and the 100 ms
  after which a missing packet is given up.
- *Termination*: three programs that ought to end together, with two ways of
  ending and no heartbeat.
- *Numbers*: 16-bit sequence numbers that wrap around.
- *One step of several failing*: a track that cannot be set up, a frame that
  lost a packet, a request that fails while others are being sent.
- *Re-entrance*: a response handler sends requests from within the loop that
  called it, while older ones are between two queues.
- *A clock that is not monotonic*, below relative delays.
- *Parsing that gives up by an exception* and starts again at a saved position,
  in a buffer that is exchanged under it, on behalf of readers that come and go.
- *Data that is moved in place*: what did not fit in one packet is the start of
  the next.

### 1.4 What makes each component correct

| component | property |
|---|---|
| negotiation | a server that streams, streams what the client at the other end chose (`Agreement`); decisions are taken once and in order (`ImplementsGrants`); a granted client learns of it (`GrantReachesClient`); nobody is left blocked on a perfect network (`NegotiationEnds`); the stream a client watches is the one it chose (`RightVideo`) |
| RTSPReceiver | while it plays, some track is open (`PlayingIsOpen`); it opens, plays, closes, ends (`ImplementsViewing`); it ends (`ReceiverEnds`) |
| RTSP server | it agrees with the receiver on the tracks (`EndsAgree`); a stream ends with a BYE (`ByeAccounted`); no session stays (`SessionsReclaimed`); it terminates when the video is over (`KnownVideoEndsServer`, `ServerTerminates`) |
| RTP reception | the queue is in the sender's order (`QueueOrdered`); the reused buffer has one user (`SavedOnce`); only whole frames, once, in order (`FramesWhole`); no frame is lost by its neighbours' fault (`NothingWasted`) or by reordering (`AllShown`) |
| Matroska demultiplexor | each reader gets its track's frames whole, in order and on request (`ImplementsReading`), and is not left waiting (`ReadsAnswered`); the bank holds the file's bytes (`BankIsFile`); the parser aborts only where a seek has led it astray (`NoInternalError`) |
| RTP transmission | frames arrive whole, in order, once, and all (`FramesArrive`); a stream ends (`StreamEnds`) |
| reception statistics | the extended numbers are those of the newest and oldest packet, a report claims a loss only if there is one (`ReportsTrue`) |
| event loop | relative delays implement absolute deadlines (`ImplementsAlarms`); it never oversleeps one (`SleepsToNextAlarm`); `select` looks at every socket (`SocketsWatched`); nothing starves (`TasksRun`, `SocketsServed`) |
| RTSP client library | no request leaks or is queued twice (`Accounted`); none waits for a connection that nobody makes (`SocketPending`); each handler is called at most once, with its own answer or an error (`ImplementsHandlers`, `OwnAnswer`), and is called (`HandlersCalled`) |

## 2. Modules

```
VideoGrant <--implements-- VideoNegotiation <-- MCVideoNegotiation
                                  ^------------ VideoNegotiationProofs

RTSPChannel <-- RTSPReceiver ------\
          ^---- RTSPServerSession --> Streaming <-- MCStreaming
Viewing <-------implements--------------/   ^------ StreamingProofs

ReorderingPacketBuffer <-- MultiFramedRTPSource <-- MCMultiFramedRTPSource
                                  ^---------------- MultiFramedRTPSourceProofs

DelayQueue <-- BasicTaskScheduler <-- MCBasicTaskScheduler
Alarms <---implements---/   ^-------- BasicTaskSchedulerProofs

ResponseHandlers <--implements-- RTSPRequests <-- MCRTSPRequests
                                  ^-------------- RTSPRequestsProofs

StreamParser <-- MatroskaDemux <-- MCMatroskaDemux
                        ^--------- MatroskaDemuxProofs
TrackReading <-implements-/

OutPacketBuffer <-- MultiFramedRTPSink --> RTPTransmission <-- MCRTPTransmission
                    RTPReceptionStats ------/   ^-- RTPTransmissionProofs

LeastElements: lemmas about sets of numbers, for the last three proof modules
```

### 2.1 VideoNegotiation and VideoGrant

A member of `Servers` or `Clients` is one *run* of a program: a program started
again is another member. All servers are on one host. `spc[s]` says in which
`recvfrom`, or in which later phase, a server is:

| `spc` | place in the code |
|---|---|
| `off`, `exited`, `refused` | not started; ended; ended after `File Not Available` |
| `hello`, `list`, `video` | blocked in the `recvfrom` of `RTSPServer.cpp:146`, `160`, `193` |
| `told` | has sent `Streaming <name>` (217), still holds port 8000 |
| `closed` | has closed port 8000 (222) |
| `listening` | holds port 8554 (100), tracks not yet known |
| `serving`, `bare` | in the event loop (125), with or without the session |

`cpc[c]` does the same for a client, from `hello`, `list`, `pick` (the user),
`answer` to `told`, `connected`, `watching` and one of three ends: `rejected`
(RTSPClient gives up), `failed` (its receiver got no stream), `done`.

A datagram is a record of its kind and of what is decided on: a request for the
list and one for a video keep their kinds apart because the server compares the
first one as a whole and looks only at the prefix `Request ` of the second; a
repeated list request is hence a request for a file that does not exist. The
two networks are sets; a datagram may be lost, delivered again, or overtaken.
`EditDirectory` changes the directory at any time, `Kill` interrupts a server.

`EndOfStream` summarises the streaming phase: the receiver ends, and the server
may or may not exit with it. The other family of modules says when it does.

`VideoGrant` is what the negotiation promises without any datagram: a wish, a
grant of that wish, and a client told, none ever taken back.

### 2.2 RTSPChannel, RTSPReceiver, RTSPServerSession, Streaming, Viewing

`RTSPChannel` holds what the two programs share: the one outstanding request
and answer of each receiver, and what became of each BYE. `RTSPReceiver` has
one action per callback; `RTSPServerSession` one per command handler, one for
the end of a stream, one for the liveness timeout. `Streaming` puts them
together; its actions `Receive(c)` and `Serve(c)` are one turn of an event loop
each.

| variable | in the code |
|---|---|
| `rpc[c]` | which response handler the receiver waits for |
| `track[c]` | `scs.subsession` |
| `sink[c][t]` | `subsession->sink`: not there yet, there, or `NULL` again |
| `timers` | receivers with a `streamTimerTask` |
| `server` | `listening` before `addServerMediaSession`, `serving`, `exited` |
| `sessions` | `fClientSessions` |
| `state[c][t]` | the `StreamState`: set up, playing, at its end and kept, at its end and reclaimed |
| `duration` | does the file state its duration: decides the timer in the receiver and the BYE in the server |

A step of the receiver is a whole callback, with the request it sends at its
end: `continueAfterSETUP` creates the sink, then skips tracks whose sockets
cannot be created (`initiate()` fails: a fault), then sends the next SETUP or
PLAY. PLAY without any session id fails inside the library, so the receiver
shuts down at once. `ShutdownStream` sends TEARDOWN if a sink was left.

The server's answer to TEARDOWN is never seen: it exits first. When it is gone,
outstanding requests are answered by an error (`Answered`), as
`handleResponseBytes` does when the connection breaks.

`Viewing` is the abstract receiver: it opens tracks, plays them all, closes
them one by one, and ends with the last or at any time; none is opened again.

### 2.3 ReorderingPacketBuffer and MultiFramedRTPSource

A packet is its place `n` in the sender's order. The code sees only
`SeqNo(n)`, and every decision of `storePacket` and `getNextCompletedPacket` is
taken on sequence numbers modulo `2 * Half`; the properties speak of places.
`Half` is 32768 in the code and 5 in the runs.

| variable | in the code |
|---|---|
| `queue` | the list from `fHeadPacket` to `fTailPacket` |
| `seenFirst`, `nextExpected` | `fHaveSeenFirstPacket`, `fNextExpectedSeqNo` |
| `savedFree`, field `saved` | `fSavedPacketFree`; is the packet in `fSavedPacket` |
| `need`, `task` | `fNeedDelivery`; is `afterGetting` scheduled |
| `frame`, `broken` | what is in the sink's buffer (`fTo` - `fSavedTo`); `fPacketLossInFragmentedFrame` |

`Receive` is `networkReadHandler1` up to `doGetNextFrame1`; one `Take` is one
turn of the loop of `doGetNextFrame1`, with everything it does to a packet:
loss detection, rejection, appending, release and delivery. A frame that is
complete is delivered by a call when the queue is empty, by a task otherwise.
The call makes the sink ask for the next frame, for which nothing is queued, so
`need` simply becomes true again. The 100 ms threshold may be exceeded at any
time it is looked at: that is a fault. `base`, `stored` and `shown` are history
variables: they remember and decide nothing.

The sender numbers packets from `First`; no packet is overtaken by one that is
half the number space ahead, and no more than that is lost in a row. 16-bit
numbers say nothing about order otherwise: at 32768 packets the assumption
stands for seconds of video, not for a reordering.

### 2.4 DelayQueue, BasicTaskScheduler and Alarms

`DelayQueue` is the list of tasks with relative delays, `BasicTaskScheduler`
the loop around it: `Sleep` computes how long to sleep, `Select` is `select()`,
`HandleSocket` calls the handler of one socket, `HandleAlarm` runs one task.
Between two of them the handler that was called may take any number of steps
(`Schedule`, `Unschedule`, `SetBackgroundHandling`, `ClearBackgroundHandling`,
`MoveSocketHandling`) until it returns; what `main` does before the loop is a
handler, too.

| variable | in the code |
|---|---|
| `queue`, `lastSync` | the list of `DelayQueueEntry`, `fLastSyncTime` |
| `handlers`, `numSockets` | `HandlerSet` in its order, `fMaxNumSockets` |
| `last` | `fLastHandledSocketNum` |
| `wake`, `readSet` | the time-out and the result of `select()` |
| `now`, `jumped` | the world's time, and how far `gettimeofday` is behind it |
| `due` | history: the absolute deadlines that no line of the code keeps |

`Alarms` is a set of deadlines: a task runs once, not too early, and none runs
while another is due earlier by more than the clock was set back. The clock may
be set back; a clock set forward makes tasks run early, which the code cannot
tell from time that passed. The sentinel entry `ETERNITY` (68 years), event
triggers (no program creates one) and the error exit of `SingleStep` are left
out. `select()` may also be interrupted by a signal: it then leaves every
socket set, and the code calls a handler, as the model does. Readiness stands
for whichever condition a handler waits for. The task that
`schedulerTickTask` schedules over and over is one of `Tasks`.

### 2.5 RTSPRequests and ResponseHandlers

The requests of one `RTSPClient`, with as many outstanding as the application
likes (RTSPReceiver has one at a time, except for a TEARDOWN that follows
BYEs). `SendRequest` has the outcomes of `sendRequest`: the request waits for
a connection, is sent, or its handler is called with an error at once.

| variable | in the code |
|---|---|
| `conn` | no socket; connecting; open |
| `waiting`, `awaiting` | `fRequestsAwaitingConnection`, `fRequestsAwaitingResponse` |
| `todo`, `mode` | the temporary queue of `connectionHandler1` or of the error branch of `handleResponseBytes`, and which loop runs |
| `inHandler` | is a response handler running inside that loop: it may call `sendRequest` |
| `buffer` | the answers in `fResponseBuffer` |
| `up`, `down` | what is on its way on the TCP connection; `Eof` is its end |
| `told`, `received` | history: which handler was called with what; which answers were read |

An answer is of one of these kinds: `final` calls the handler; `auth` (401)
and `redirect` (301, 302) send the request again; `unusable` fails in
`handleSETUPResponse` and the like; `malformed` has headers without sense or a
body too long for the buffer; `close` has the header `Connection: Close`;
`twice` is sent twice and `misnumbered` has a CSeq that no request has, both by a
server at fault. One
read brings one answer or several (`Read`), or the headers of one whose body is
late (`ReadHeaders`). `Found` is the search for the CSeq, with what it does to
the request it stops at.

`ResponseHandlers` says what the application relies on: one handler is called at
a time, each at most once, and with an answer only after its own has arrived. It
allows requests to be dropped, since the code gives no more: `HandlersCalled` says
when none is. It does not rule out that a handler is called with the answer to
another request (`mistaken`), but only in a step that also drops a request. That is
the search for a CSeq going past the right place, and it needs no server that
answers twice: with the kinds `final` and `misnumbered`, an answer with the wrong
CSeq to the first of four requests drops the first and the second; when the answer
to the second comes, the third is dropped in its place and the fourth has its
handler called with it. `OwnAnswer`, that no handler is called with another's answer, is
what the comment of section 5 amounts to, and does not hold.

### 2.6 StreamParser, MatroskaDemux and TrackReading

One demultiplexor, as one client session has it while it plays. The container
is a sequence of *units*: each stands for the bytes of one header (`id` of a
block, `head` of a block, `len` of a subframe, `other` with what it heads) or
for one byte of a frame, and the bank holds their positions in the file, so
that a byte that is lost, doubled or misplaced is seen.

| variable | in the code |
|---|---|
| `bank`, `cur`, `saved` | the bytes valid in `fCurBank`, `fCurParserIndex`, `fSavedParserIndex` |
| `seenEOF`, `feof` | `fHaveSeenEOF` of the parser, the end-of-file mark of the file |
| `reading`, `readTo` | a read is under way (`isCurrentlyAwaitingData` of the file source), and where its bytes will go |
| `running` | `continueParsing()` is on the stack; nothing else happens meanwhile |
| `pstate`, `toSkip`, `blockSize` | `fCurrentParseState`, `fNumHeaderBytesToSkip`, `fBlockSize` |
| `block`, `nextFrame`, `within`, `getting` | the block, `fNextFrameNumberToDeliver`, `fCurOffsetWithinFrame`, the frame being copied |
| `open`, `asking` | `fDemuxedTracksTable`; tracks whose `isCurrentlyAwaitingData` is set |
| `frame`, `taken`, `misreads` | history: what each reader was handed last; how many frames have left the parser; how often it has decoded bytes that are not what it takes them for |

`parse()` is a loop over a state machine, and each state one action. Where it
needs bytes that are not there, `Starve` is the whole of `ensureValidBytes1`:
the exchange of the banks, the read that is asked for, the exception, and, when
the file has hit its end, `onInputClosure1` called from inside it. A parse that
is resumed begins at `saved` in the same state. `toSkip` is taken up before
anything else, as `parse()` does. `PlayFrom` is a seek at any time, also with a
read under way or a block half delivered: it flushes the bank, and for the start
and the end of the file nothing else. What a read under way brings after that
is put where it was told to, and counted from the new end of the bank (`Junk`).

The parser of the code cannot see that it is in the wrong place: after a seek
that left its state behind, or where such a read has put its bytes, it decodes
what comes. The model knows what each unit is and whether it stands where the
parser thinks it does (in `ParseBlock` by `HeadAhead`: the head of the block that
`blockSize` was read of). If it does, the unit is decoded as what it is. If not, it may
seem to be anything, and `misreads` counts one:

- in `LookForNextBlock` (`MisreadHeader`) no valid id and size, the header of a
  block of any of `MisreadSizes`, or another header with as much to skip
  (`parseEBMLIdAndSize` takes any bytes). Zero bytes (`pad`) are no id and are
  passed over one by one, as lines 1316-1320 do;
- in `ParseBlock` (`MisreadHead`) no valid number; a track nobody set up,
  whereupon the rest of the block, of whatever `blockSize` is left from before, is
  skipped in one piece, and the program aborts if that is more than a bank; or a
  track that was set up, with one frame that fills the block, or with two of any of
  `MisreadSizes` (the sum of laced sizes may wrap around, so that 1033-1034 let them pass);
- in `DeliverFrameWithinBlock` (`MisreadLength`) a length that the sanity check
  (1109) refuses, or one of `MisreadSizes` that it lets pass.

What is decoded so takes one unit; that it may take bytes of the header behind, too, is
among what the sizes stand for. `MaxMisreads` bounds how often it happens in a run;
beyond it bytes out of place are passed over. The theorems hold for every bound and
every set of sizes.

The container of the runs has a video track of subframes and an audio track, in
blocks of one and of two frames, and a block larger than a bank. `TrackReading`
is the promise to the readers: a request is answered by the next frame of the
track, whole; a frame is lost only if its request was withdrawn while it was
being served (PAUSE); no track ends before its last frame. After a seek nothing
is promised but `ReadsAnswered`: a request is answered unless the program aborts.
Without a seek nothing is misread, and the parser does not abort (`NoInternalError`).

### 2.7 OutPacketBuffer, MultiFramedRTPSink, RTPReceptionStats, RTPTransmission

`MultiFramedRTPSink` is the sink with the choices of its two subclasses that a
Matroska file with VP8 video and Vorbis audio leads to: one frame to a packet
(`several = FALSE`) or up to `FrameLimit + 1`, each with its header. The memory
is modelled unit by unit, since what has to be right is where things are put.

| variable | in the code |
|---|---|
| `buf`, `start`, `off` | `fBuf`, `fPacketStart`, `fCurOffset` |
| `overOffset`, `overSize` | `fOverflowDataOffset`, `fOverflowDataSize` |
| `used`, `fragOffset`, `noneLeft` | `fNumFramesUsedSoFar`, `fCurFragmentationOffset`, `fNoFramesLeft` |
| `playing`, `due`, `asked` | `fSource` is set; `sendNext` is scheduled; the source is asked for a frame |
| `step` | which call comes next in the chain `packFrame`, `afterGettingFrame1`, `sendPacketIfNecessary` |
| `begins`, `ends` | the marks of the packet: S and M of VP8, F of Vorbis |
| `part`, `whole`, `frames`, `cut` | history: what a receiver that misses nothing has; what the source gave; was a frame given up in the middle |

`Assemble` takes a packet apart as `BufferedPacket::use` and `doGetNextFrame1`
do when none is missing; what happens when one is, is the subject of
MultiFramedRTPSource. `RTPTransmission` sends the packets over a network that
loses, repeats and reorders them, to the counts of the receiver: those look at
numbers modulo `CYCLE` (65536 in the code, 10 in the run), the property at the
packets themselves.

## 3. Runs

| run | question | bounds | states |
|---|---|---|---|
| `VideoNegotiation_live` | do both ends agree, whatever is lost, repeated or killed; does everybody watch what it chose, learn of its grant, and end? | 3 clients, 1 server, 2 videos (1 playable), 1 fault | 103 000 |
| `VideoNegotiation_wrong_video` | the Readme: the *requested* video (violated) | 2 clients, 2 servers | |
| `Streaming` | do the two ends agree; is a receiver a `Viewing`; does everything end? | 2 receivers, 2 tracks, 3 faults | 58 900 |
| `Streaming_terminates` | the Readme: the server terminates (violated) | 1 receiver, 2 tracks | |
| `MultiFramedRTPSource` | whole frames, once, in order; does reordering cost frames? | 8 packets, 10 sequence numbers, 2 faults | 51 500 |
| `BasicTaskScheduler_tasks` | do relative delays mean absolute deadlines? | 3 tasks, delays 0, 1, 2, 4, time 5, clock set back by 2 | 415 000 |
| `BasicTaskScheduler_live` | does `select` look at every socket; can a task or a socket starve? | 2 tasks, 2 sockets, 3 changes | 55 800 |
| `RTSPRequests_live` | where is each request; is each handler called once, and with its own answer; is every handler called? | 4 requests, all kinds of answers but `twice`, 2 faults | 549 711 |
| `RTSPRequests_mistaken` | the comment: *ignore it* (violated) | 3 requests, `final` and `twice`, 1 fault | |
| `MatroskaDemux` | do the readers get their frames, whole, in order and always; does the parser abort, or misread anything, before a seek? | 46 units, bank of 5, 2 tracks, 2 PAUSEs, 1 seek, 2 misreads as sizes 1 or 10 | 506 000 |
| `MatroskaDemux_large_block` | the comment: *ASSERT* (violated) | video track only set up | |
| `RTPTransmission` | do frames survive packing; are the receiver's counts true; does a stream end? | 3 frames of 1, 2 or 9 units, packets of 6, 1 PAUSE, 1 fault, 2 reports | 683 000 |

A liveness property that holds without faults only has `faults > 0` among its
goals, and `HandlersCalled` assumes that no unusual answer is sent; so it can be
checked by the same run as the invariants, which need the faults.

Why these bounds are enough:

- Three clients are one more than the least for one to be mistaken for another.
  Two servers, the least for one to negotiate while the other streams, are in
  `VideoNegotiation_wrong_video`; the safety of any number of them is proved. Two videos, one of
  them not playable, are the least for the wrong one to be sent and for a session without tracks. A
  single fault already gives every duplicated request its late arrival, in any
  later `recvfrom`; the proofs have no such bound.
- Two tracks let one end, fail or be refused before the other; a Matroska file
  has at most three (one video, one audio, one subtitle track,
  `MatroskaFileServerDemux.cpp:44`), and the proofs hold for any number. Two
  receivers are the least for one to end the server under the other. Three
  faults let a session be dropped, a BYE be lost and a receiver be interrupted in one behaviour.
- Ten sequence numbers starting at 8 wrap around inside the run, and inside a
  frame. The frames have three, one, two and one packets: a fragment may be lost
  at the beginning, the middle and the end of a frame, and neighbours of both
  kinds follow. Two faults are any two
  of a loss, a duplicate and a gap given up too early.
- Three tasks let one be inserted between two, at the same time as one, and be
  removed from the middle; a delay longer than `MaxSleep` makes `select` return
  for nothing. A clock set back by two lets two tasks pass one another. Sockets
  0 and 2 let the highest go while a gap is below it.
- Four requests let one be sent, one wait, and one be sent by a handler, and are
  the least for a handler to be called with another's answer without a server
  that answers twice. Two faults are two unusual answers, or a connection that breaks
  after one.
- A bank of five units is exchanged several times in the file, in the middle of
  headers, frames and skips; frames of twelve units with a reader's room for ten
  are copied and skipped in more than one piece; and the file may end in any
  state of the parser. Two tracks are the least for one to hold up the other, two PAUSEs the
  least for a frame to be lost and the track to be read again. Of the sizes that
  bytes out of place may tell, 1 makes an empty frame and 10 is more than a bank, and a whole
  number of them; two misreads are the least to find a block where there is none and to
  misread its head, too. One of them and a block of 13 units that a seek to the start leaves
  behind are enough for the program to abort.
- Frames of 1, 2 and 9 units in packets of 6 are those that share a packet, that
  are kept for the next one, and that take two packets or three; a memory of
  four packets lets the next packet begin just before the overflow data or at the
  start of the memory. Sequence numbers begin at 8 of 10. Two packets in
  flight and one lost or repeated are what the assumption allows a space of
  ten numbers to tell apart.

`CHECK_DEADLOCK FALSE` is set in all of them: the programs stop, time is
bounded in the event loop, requests and frames run out, files end, and a lost
datagram of the negotiation leaves both sides in `recvfrom`, as in the code.

A run of RTSPServer answers
one negotiation and never reads port 8000 again: a client that tries again (as
the Readme advises when a receiver connected too early) needs the server to be
started again, too, and is another client of another run in the model.

## 4. Fairness

- Negotiation: `WF` of each server's and each client's next step. A process that
  is not blocked runs; the user chooses in the end; a datagram that arrived is
  delivered by `recvfrom`. Weak fairness is enough because a step of one process
  stays enabled until it is taken. No fairness for starting or killing programs,
  for editing the directory, and none for faults.
- Streaming: `WF` of each receiver's and of the server's steps for each viewer:
  the event loops turn, `select` reports each socket, and the file comes to its
  end. `Expire` is weakly fair because the liveness timer is always scheduled
  (`noteLiveness`). Nobody is obliged to start a receiver.
- RTP: the sender sends, each packet in flight arrives, the loop of
  `doGetNextFrame1` runs and the scheduled task is called.
- Event loop: `WF` of a turn's steps, of the return of the running handler and
  of time. Handlers are finite in the three programs. `SocketsServed` assumes
  that handlers are set and cleared finitely often, which the bound on changes
  says: the code begins again at the front of the list when the socket last
  handled is gone, so a handler that adds and removes sockets for ever may starve
  another.
- Demultiplexor: the parse loop runs on, `select()` reports a file as readable,
  and the sinks of streams that play ask for their next frame after each one.
- Transmission: the delayed task runs, the source has a frame or an end to tell,
  and packets do not stay in the network. `PLAY` is nobody's duty.
- Requests: `WF` of the client's next step (the event loop turns, a connection
  comes about or fails) and of the server's answers.

## 5. Findings

*RightVideo* (`VideoNegotiation_wrong_video`). Port 8554 says nothing about
which of two runs of RTSPServer owns it. The first run streams to its client. A
second one is started: port 8000 is free again, so it negotiates with a second
client, promises it a video, and only then finds 8554 taken and exits. Its client
connects to 8554 and receives the first client's video. The Readme says that
RTSPServer "streams the requested video file to the client". With one server
program at a time, `RightVideo` holds: checked, and proved
(`OneServerRightVideo`).

*ServerTerminates* (`Streaming_terminates`). "When the streaming ends, it
terminates" holds for files that state their duration
(`KnownVideoEndsServer`). Otherwise the stream ends with BYEs, the receiver ends
without TEARDOWN, and nothing ends the server's event loop.

*OwnAnswer* (`RTSPRequests_mistaken`). "No handler was registered for this
response, so ignore it" (`RTSPClient.cpp:1687`) does not describe what follows.
Three requests are outstanding and the server answers the first one twice. The
search for the CSeq of the second answer takes the second request out of the
queue, finds its CSeq greater and stops; the request is lost. The answer is not
ignored either: as no request was found, lines 1749-1752, made for answers without
a CSeq, take the third one, and its handler is called with the answer to the
first. RTSPReceiver has one request outstanding, so the answer would be ignored
there; and only a server at fault answers twice. The same happens without such
a server, in longer behaviours: a request that is sent again after a 401 resets the
response buffer (1808), and with it the pipelined answers of others, whose
requests stay in the queue; answers whose headers make no sense do so, too
(1838). `RTSPRequests_live` has these kinds and requests enough for it; there
`ResponseHandlers` says how much is left of the promise.

*NoInternalError* (`MatroskaDemux_large_block`). The comment in
`ensureValidBytes1` (`StreamParser.cpp:142-143`) asserts that what is asked for
fits in a bank, and the program aborts if it does not. `skipRemainingHeaderBytes`
breaks its skips into chunks for this reason
(`MatroskaFileParser.cpp:1456-1457`), and `deliverFrameBytes` copies at most a
bank at a time. `parseBlock` skips the rest of a block in one piece (951) when
nobody has set up the block's track. A viewer that sets up the audio track of a file
whose video has a key frame of more than 150000 bytes ends the server for everybody.
RTSPReceiver sets up every track it can, so it takes a track whose sockets cannot be
created, or whose SETUP fails.

The chunks of `skipRemainingHeaderBytes` (1456-1473) do not help in every case:
each is preceded by saving the position and the last one is not followed by it. A
skipped element whose size is a whole number of banks aborts for this reason, too; and
one that lies across a bank at the very end of the file has its last chunk parsed
again, as if it were headers, when `onInputClosure1` goes back to the saved position.
Both were seen with other files than the one of the run, whose skipped elements are
of other sizes and do not look like headers. `BlocksFit` in MatroskaDemuxProofs says
which files the parser reads without aborting, whichever tracks are set up, until a
seek leads it astray, and `ParserAbortsAstray` proves it.

After a seek `BlocksFit` is no help. "Because we're resuming parsing after seeking to a new
position in the file, reset the parser state", says the comment in
`resetStateAfterSeeking` (`MatroskaFileParser.cpp:1504`), but `fCurrentParseState`,
`fBlockSize` and `fNumHeaderBytesToSkip` stay as they are. A PLAY with a Range that leads to
the start of the file while a block's head is awaited lets `parseBlock` read the
file's first bytes as a track number, find no such track, and skip the rest of the block it
left (951), or any size that it misreads afterwards. The model follows it there (section 2.6):
such a behaviour ends with `aborted`, which `NoInternalError` excepts by `misreads`.
`seekToTime` sets `LOOKING_FOR_BLOCK` for a cue only, and even there a skip that was
interrupted goes on first.

Three smaller disagreements are recorded among the hazards and not checked by a
run of their own: after a PAUSE in the middle of a fragmented frame the next frame is marked as a
continuation (`MultiFramedRTPSink.cpp:163`, against `VP8VideoRTPSink.cpp:51`);
a 16th frame fits in a Vorbis packet (`VorbisAudioRTPSink.cpp:176`, against its
comment); the first receiver report claims that nearly everything was lost,
because `init()` undoes `initSeqNum()` (`RTPSource.cpp:188-191`).

## 6. Proofs

The proof modules are checked by `tlapm` with no assumption other than those the
modules state about their constants:

- VideoNegotiation: `None` is none of the others, playable videos are videos,
  `MaxFaults` is a natural number;
- Streaming: `NumTracks` is a positive natural number, `MaxFaults` a natural number;
- MultiFramedRTPSource: there are four sequence numbers or more (`Half` > 1: with two
  of them none is ever "less than" another), at least one packet, and the first
  packet begins a frame;
- MatroskaDemux: the bank holds something, sizes in the file are natural numbers,
  blocks belong to tracks and hold frames, the offsets a seek may lead to lie
  in the file; at least one misread is allowed, and sizes that are misread are natural numbers;
- RTSPRequests: an answer can be `final`, and the end of the connection (`eof`)
  is no answer;
- BasicTaskScheduler: the names of other handlers are not those of tasks, sockets and
  delays are natural numbers, `select` sleeps for at least a tick;
- RTPTransmission: a frame and its headers fit in the memory, which holds two packets
  or more, headers leave room in a packet, and 2 * (`InFlight` + `MaxFaults`) <
  `CYCLE`: what is under way and what is missing takes less than half of the
  sequence numbers, as `RTPReceptionStats` needs to tell new from old.

The sets of clients, servers, videos, viewers and tracks are arbitrary, and may be
infinite, and so may those of requests, tasks and sockets; the file of the
demultiplexor is any finite one, and packets are divided into frames in any way.

`LeastElements` is where the proofs get induction from: sets of natural numbers have
least elements, so a set that holds 0 and with each number the next holds them all
(`UpTo`). That is enough where the recursive definition is one fixed function, as the
sums of delays are.

*VideoNegotiationProofs.*

- `TypeCorrect`: `Spec => []TypeOK`.
- `AgreementHolds`: `Spec => []Agreement`. `Agreement` is not inductive: that a
  server's `clientAddr` made the choice the server acts upon depends on what is
  in flight. The invariant adds what a datagram proves about its sender: a
  video request in flight names what its sender chose, from the list it was
  offered; an answer `Streaming` in flight proves that its server committed
  itself to its addressee; a list in flight or offered holds videos only.
- `OneServerRightVideo`: when `Servers` has one member, `Spec => []RightVideo`.
  It follows from `Agreement` and an invariant that a connected client is
  connected to a server that committed itself.
- `RefinesGrants`: `Spec => Grants!Spec`, every step is a step of VideoGrant or
  leaves its variables alone.

*StreamingProofs.* One inductive invariant, `IInv`, with a part per question:

- `RequestInv`: what the outstanding request or answer says about where the
  receiver is (a PLAY is outstanding only in `play`, and so on);
- `EarlyInv`: before PLAY is sent nothing plays, is closed, or was told BYE;
- `AnswerInv`: an answer `ok` in flight proves what the server has done: the
  track of a SETUP is set up, the streams of a PLAY are started;
- `OpenInv`, from which `PlayingIsOpen` follows;
- `ByeInv`: a stream that was reclaimed while its sink is still active has its
  BYE on its way, or lost; from which `ByeAccounted` follows;
- `AgreeInv`, from which `EndsAgree` follows.

The parts depend on one another (`ByeInv` needs `AnswerInv` to know that a
stream does not end before its sink exists), so they are proved together, in
one lemma for the steps, which has one step per action. `RefinesViewing` then maps every step to one of `Viewing`: callbacks
that create a sink to `Open`, the last of them also to the start of play, BYEs
to `Close`, shut-downs to `End`, and what the server and the network do to
stuttering.

*MultiFramedRTPSourceProofs.* `TypeCorrect`, `QueueStaysOrdered`, `SavedKeptOnce`,
`FramesStayWhole` and `NothingIsWasted`, for any number of sequence numbers, packets,
frames and faults. Of these only `SavedOnce` is inductive; the invariant
`IInv` is made of

- `WindowInv`: what is in flight, queued or expected lies within half the sequence
  space. `SeqNoOrder` then says that `seqNumLT` on numbers is `<` on places, which is
  all that `storePacket` and `getNextCompletedPacket` need;
- `QueueInv` and `FirstInv`: the queue lies between the expected packet and the last
  one sent, and only its head can be the very first packet;
- `FrameInv`: what is in the sink's buffer is the beginning of a frame, and the
  expected packet continues it unless a loss was noted. `FramesWhole` follows;
- `ShownInv`: what was shown lies behind what is being put together;
- `StoredInv`: what was accepted is queued or behind, and if all of a frame up to
  the expected packet was accepted, it is being put together, or was shown.
  `NothingWasted` follows.

The proof is in lemmas about the queue (`Insertion`, `PlaceFound`, `Stored`, `Taken`)
and one about the frames (`TakeStep`), since only `Take` touches those. The
assumption on the network that `Send` states is what `WindowInv` rests on.

*MatroskaDemuxProofs.*

- `TypeCorrect` and `BankStaysFile`. The invariant adds to the two where the bytes
  of a read that is under way will go (`ReadInv`), which a seek changes. A lemma for
  each operation of the buffer (`SaveStream`, `ReadMoreStream`, `FileReadStream`,
  `SeekStream`) keeps the arithmetic of indices out of the proof of the steps.
- `ParserAbortsAstray`: `BlocksFit => (Spec => []AbortsAstray)`, the first half of
  `NoInternalError`: whatever readers, PAUSEs and seeks do, the program does not abort
  before the parser has misread something. `FitInv` bounds, for each state of the parser, what
  it has read since it last saved its position, and says that a closed demultiplexor
  parses nothing; it is claimed as long as `misreads = 0` and `NextFits` keeps it in every
  step that does not misread (`CountStep`: the others are counted). Neither
  hypothesis of `BlocksFit` about sizes can be dropped, as section 5 shows. After a
  misread no bound on the file's own headers is of use, since the sizes are not the file's.

*RTSPRequestsProofs.*

- `TypeCorrect`, `SocketStaysPending` and `RequestsAccounted`. The invariant `Inv`
  states `Accounted` queue by queue (`Split`), with a place for the request that a
  step holds in its hand, since `sendRequest` is called with a request that is in
  none of them; `Loops`: the temporary queue belongs to a running loop, and the loop
  that sends what waited has a connection; `LinkEmpty`: without a connection
  nothing is under way or in the buffer; `CloseIsLast`: an answer that closes the
  connection is the last one. `SendKeeps` is about the three outcomes of
  `sendRequest`, and is used by the three actions that call it; `TakenOut` and
  `PutBack` are about the search for a CSeq.
- `RefinesHandlers`: `Spec => Handlers!Spec`. To the invariant it adds that a number
  belongs to one request, wherever this is (`Numbers`), and that what is in the
  buffer has arrived (`Known`). A handler that is called with another's answer was
  found behind the place where the search stopped, so a request was passed and is
  dropped; an answer that carries the number of the request found is its own.

*BasicTaskSchedulerProofs.*

- `RefinesAlarms`: `Spec => DelayedTasks!Spec`, the reason why the queue may hold
  relative delays. The invariant says that the entries are the pending tasks
  (`Entries`), that the sum of the delays up to an entry never ends before the task's
  deadline, and after it only by what the clock was set back (`InTime`), and that
  entries are in the order of the deadlines, but for the same time (`InOrder`). One lemma each says what `synchronize`, the insertion and
  the removal of an entry do to the sums; `SumsExist` is the induction.
- `SleepEnds`: `Spec => SleepsToNextAlarm`, from the same invariant: the first delay
  is no longer than what is left until any deadline.
- `EverySocketWatched` and `TypeCorrect`. `SocketsWatched` is inductive: a number that
  was counted up for a socket comes down by one at most, when the highest socket goes.

*RTPTransmissionProofs.*

- `TypeCorrect`: `Spec => []TypeOK`, which includes that what is written stays in the
  memory. `PacketInv` says where the packet ends in each step of its construction,
  `OverflowInv` where the overflow data lies: behind the packet when that is sent,
  and behind the headers of the next one. It shows on the way that `adjustPacketStart`
  never meets overflow data that begins before the new packet's end.
- `CountsTrue`: `Spec => []ReportsTrue`. `FlightInv` keeps what is under way close to the
  newest packet sent, and what is neither under way nor received below `faults`; hence
  a packet that arrives lies within half a cycle of the newest one received
  (`NearTheNewest`), and `NoteIncomingPacket` extends its number rightly, whichever
  branch it takes (`ExtendedInv`). A claimed loss is more numbers than packets between two
  reports, so one was missing (`LossInv`).
- `FramesComeWhole`: `Spec => [](Room => FramesArrive)`. The invariant, `Contents`, says
  what lies in the memory at every step and how it adds up to the frames read so far:
  the packet that is being built holds the last `used` of them, each behind its header
  (`BuildingIs`, with `Packed`); behind it, or behind the headers of the next, lies the
  rest of the last frame (`LeftIs`) or the frame in hand (`HandIs`); the receiver
  has the fragments sent of it (`FragmentIs`) and all frames before (`WholeIs`).
  A packet about to be sent may end in a header without a frame (`SendIs`), which a
  receiver takes for an empty frame. What it finds in a packet is a recursion over the units
  (`EnclosedFrames`); `EnclosedIs` shows that it reads back what `Packed` describes, by
  `UpTo` over the frames of the packet.

  `Room` asks, of packets with several frames only, that a frame and a packet, but
  for its headers, take no more than half of the memory: a packet may begin anywhere in its first half, and what then
  does not fit is cut off by `afterGettingFrame` (`numTruncatedBytes`). It is sufficient
  and not sharp; the run's constants meet it, and with `LIMIT` = 18 in
  place of 24 and four frames of 1, 2, 3, 5 or 9 units TLC finds `FramesArrive` violated.
  In the code the memory has 60000 bytes
  (`OutPacketBuffer::maxSize`), so frames of up to some 28000 bytes meet it. With one frame
  to a packet the assumption that a frame fits in the memory is enough.

## 7. What is only model-checked

- Liveness under fairness (`GrantReachesClient`, `NegotiationEnds`,
  `ReceiverEnds`, `SessionsReclaimed`, `KnownVideoEndsServer`, `AllShown`,
  `TasksRun`, `SocketsServed`, `HandlersCalled`, `ReadsAnswered`, `StreamEnds`):
  TLAPS does not prove it.
- That nothing is misread before a seek (the second half of `NoInternalError`): where
  headers begin is a recursion over the file.
- That the demultiplexor implements `TrackReading`: how many frames a track has
  before a place in the file is a recursion over the file.

## 8. Plan

Done, in this order: the negotiation and the streaming phase with their proofs;
RTP reception; the event loop; the request queues; the Matroska demultiplexor and
its parser; RTP transmission with the counts of the receiver; the proofs about
RTP reception and the demultiplexor; those about the request queues, the event loop,
and RTP transmission.

What would come next:

1. Proofs: that without unusual numbers each handler gets its own answer; the refinement
   of TrackReading.
2. A change of SSRC in the packet queue (a second sender), and packets that hold
   several frames, so that RTPTransmission and MultiFramedRTPSource can be composed.
3. Which demultiplexor each track of each session reads from, with sessions that
   overlap (`MatroskaFileServerDemux.cpp:80`).
4. PAUSE and the removal of connections and media sessions in use
   (GenericMediaServer) in Streaming.
5. The first pass of the Matroska parser: headers, tracks and cues.
6. The 32-bit microseconds of the receiver's timer (`RTSPReceiver.cpp:208`).

## 9. What is not modelled, and why

- *Texts*: formatting and parsing of datagrams, RTSP and SDP. The negotiation
  keeps what the comparisons of the code tell apart. Buffers of fixed size
  (`message`, `fileName`) are not modelled.
- *Lost datagrams and liveness*: no `recvfrom` has a timeout, nobody
  retransmits. With a loss both sides block; the liveness properties of the
  negotiation therefore end with `faults > 0`.
- *GET/SET_PARAMETER, REGISTER, authentication, HTTP tunnelling, RTP over
  TCP, multicast*: never used by the three
  programs. PAUSE and PLAY with a Range are not used by RTSPReceiver either, but
  any other player may send them: they are in MatroskaDemux and RTPTransmission,
  not in Streaming.
- *RTCP reports*: as the sign of life that keeps a session (reports that are
  lost for 65 s are the fault `ExpireEarly`), and the counts and the loss
  fraction in RTPReceptionStats; not their intervals, jitter, SDES, APP.
- *Packet queue*: a change of SSRC, partial reads (RTP over TCP), packets that
  hold several frames, special headers that are rejected, `doStopGettingFrames`
  (the receiver closes its sinks and exits).
- *The Matroska format*: the first pass over the headers, tracks and cues, the bytes of EBML
  numbers and of headers (each header is one unit, so a bank never ends inside
  one; what bytes out of place seem to say is any of a few sizes), lacing, header stripping, Opus frames, presentation times. Tracks set up after the first PLAY; which
  sessions share a demultiplexor (`MatroskaFileServerDemux`).
- *Transmission*: the time a packet is due, RTP timestamps, socket errors, and
  H264or5VideoRTPSink, whose fragmenter leaves one piece per packet. The first test of `afterGettingFrame1` cannot
  succeed with the two sinks modelled.
- *Frame parsers, codecs, containers, SIP, proxies*: pure
  data, or not called.
- *Event loop*: event triggers, the exit after `select()` failed, the entry that
  ends the delay queue.
- *RTSP client*: RTSP over HTTP, answers longer than the buffer, answers without
  CSeq, requests from the server, a client deleted by a handler, and an answer
  with `Connection: Close` whose body comes late. After such an answer, and
  after a redirection, pipelined requests wait until a later answer drops them:
  `HandlersCalled` is checked without these kinds.
