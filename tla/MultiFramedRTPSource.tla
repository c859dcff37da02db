----------------------- MODULE MultiFramedRTPSource -----------------------
(***************************************************************************)
(* How RTSPReceiver puts a track's frames together from RTP packets that   *)
(* the network lost, duplicated or reordered.  A frame is one packet or    *)
(* several in a row; the sink asks for a frame, gets it by a call or by a  *)
(* task of the event loop, and asks for the next one at once.              *)
(***************************************************************************)
EXTENDS ReorderingPacketBuffer

CONSTANTS
  NumPackets,   \* packets that the sender sends
  FrameStarts,  \* those that begin a frame
  MaxFaults     \* bound on losses, duplicates and thresholds exceeded

ASSUME SourceAssumption ==
  /\ NumPackets \in Nat \ {0} /\ MaxFaults \in Nat
  /\ FrameStarts \subseteq 0..(NumPackets - 1) /\ 0 \in FrameStarts

VARIABLES
  pc,      \* "idle" in the event loop, or "deliver" in doGetNextFrame1
  need,    \* fNeedDelivery
  task,    \* is FramedSource::afterGetting scheduled?
  frame,   \* the packets whose data is in the sink's buffer
  broken,  \* fPacketLossInFragmentedFrame
  sent,    \* packets sent so far
  net,     \* those in flight
  base,    \* the place of nextExpected in the sender's order
  stored,  \* every packet that storePacket ever accepted
  shown,   \* the frames that the sink was given
  faults

sourceVars  == <<pc, need, task, frame, broken>>
netVars     == <<sent, net>>
historyVars == <<base, stored, shown>>
vars == <<bufferVars, sourceVars, netVars, historyVars, faults>>

Begins(n) == n \in FrameStarts
Completes(n) == n + 1 \in FrameStarts \cup {NumPackets}

Init ==
  /\ BufferInit
  /\ pc = "idle" /\ need = TRUE /\ task = FALSE
  /\ frame = <<>> /\ broken = FALSE
  /\ sent = 0 /\ net = {}
  /\ base = 0 /\ stored = {} /\ shown = <<>>
  /\ faults = 0

Fault == faults < MaxFaults /\ faults' = faults + 1

(***************************************************************************)
(* The sender and the network.  No packet is overtaken by one that is half *)
(* the sequence space ahead, and not so many are lost or waited for in a   *)
(* row.  Sequence numbers mean nothing otherwise.                          *)
(***************************************************************************)
Send ==
  /\ sent < NumPackets
  /\ \A m \in net : sent + 1 - m < Half
  /\ seenFirst => sent - base < Half
  /\ sent' = sent + 1
  /\ net' = net \cup {sent}
  /\ UNCHANGED <<bufferVars, sourceVars, historyVars, faults>>

Lose ==
  /\ Fault
  /\ \E n \in net : net' = net \ {n}
  /\ UNCHANGED <<bufferVars, sourceVars, sent, historyVars>>

(***************************************************************************)
(* networkReadHandler, and the loop of doGetNextFrame1 turn by turn.       *)
(***************************************************************************)

\* The network may deliver another copy later.
Receive(n) ==
  /\ pc = "idle" /\ n \in net
  /\ \/ net' = net \ {n} /\ UNCHANGED faults
     \/ UNCHANGED net /\ Fault
  /\ StorePacket(n)
  /\ base' = IF seenFirst THEN base ELSE n
  /\ stored' = IF Ignored(n) THEN stored ELSE stored \cup {n}
  /\ pc' = "deliver"
  /\ UNCHANGED <<sent, need, task, frame, broken, shown>>

\* Mutant: a frame in pieces spoils the next one too.
StaysBroken(n, loss) == broken \/ (loss /\ ~Begins(n))

\* Is the packet of no use, because its frame has lost another?
BreaksFrame(n, loss) == ~Begins(n) /\ (broken \/ loss)

\* What the packet's data is appended to: the rest of an unfinished frame is
\* forgotten.
Before(n, loss) == IF Begins(n) /\ (loss \/ broken) THEN <<>> ELSE frame

\* The sink has its frame.  If more packets are queued, it is told by a task;
\* otherwise at once, and its next request finds nothing queued.
Deliver(f) ==
  /\ shown' = Append(shown, f)
  /\ frame' = <<>>
  /\ task' = (queue' # <<>>)
  /\ need' = (queue' = <<>>)

\* The head is the packet expected, or it has waited for too long.
Take ==
  /\ pc = "deliver" /\ need /\ queue # <<>>
  /\ IF InOrder THEN UNCHANGED faults ELSE Fault
  /\ ReleaseHead
  /\ LET n == queue[1].n
         f == Append(Before(n, PacketLoss), n)
     IN  /\ base' = n + 1
         /\ broken' = BreaksFrame(n, PacketLoss)
         /\ \/ /\ broken'
               /\ frame' = Before(n, PacketLoss)
               /\ UNCHANGED <<need, task, shown>>
            \/ /\ ~broken' /\ ~Completes(n)
               /\ frame' = f
               /\ UNCHANGED <<need, task, shown>>
            \/ /\ ~broken' /\ Completes(n)
               /\ Deliver(f)
  /\ UNCHANGED <<pc, netVars, stored>>

\* Nothing is asked for, or the packet expected is not there (yet).
Return ==
  /\ pc = "deliver"
  /\ ~need \/ ~InOrder
  /\ pc' = "idle"
  /\ UNCHANGED <<bufferVars, need, task, frame, broken, netVars, historyVars,
                 faults>>

\* The sink consumes its frame and asks for the next one.
AfterGetting ==
  /\ pc = "idle" /\ task
  /\ task' = FALSE /\ need' = TRUE /\ pc' = "deliver"
  /\ UNCHANGED <<bufferVars, frame, broken, netVars, historyVars, faults>>

Next ==
  \/ Send
  \/ Lose
  \/ \E n \in net : Receive(n)
  \/ Take
  \/ Return
  \/ AfterGetting

Spec == Init /\ [][Next]_vars

\* The sender sends, what is not lost arrives, and the event loop turns.
Fairness ==
  /\ WF_vars(Send)
  /\ \A n \in 0..(NumPackets - 1) : WF_vars(Receive(n))
  /\ WF_vars(Take \/ Return)
  /\ WF_vars(AfterGetting)

FairSpec == Spec /\ Fairness

(***************************************************************************)
(* Properties.                                                             *)
(***************************************************************************)

\* Every variable has its type.
TypeOK ==
  /\ BufferTypeOK
  /\ pc \in {"idle", "deliver"}
  /\ need \in BOOLEAN /\ task \in BOOLEAN /\ broken \in BOOLEAN
  /\ frame \in Seq(0..(NumPackets - 1))
  /\ sent \in 0..NumPackets /\ net \subseteq 0..(sent - 1)
  /\ base \in 0..NumPackets
  /\ stored \subseteq 0..(sent - 1)
  /\ shown \in Seq(Seq(0..(NumPackets - 1)))
  /\ faults \in 0..MaxFaults

\* The queue is in the sender's order and holds nothing that is behind the
\* expected packet: what the ASSERT comments of releaseUsedPacket and
\* getNextCompletedPacket say, for numbers that wrap around.
QueueOrdered ==
  /\ \A i, j \in 1..Len(queue) : i < j => queue[i].n < queue[j].n
  /\ \A i \in 1..Len(queue) : base <= queue[i].n
  /\ seenFirst => nextExpected = SeqNo(base)

\* The buffer that is kept for reuse holds at most one queued packet, and is
\* never handed out for another one while it does.
SavedOnce ==
  /\ \A i \in 1..Len(queue) : queue[i].saved => ~savedFree
  /\ \A i, j \in 1..Len(queue) :
       queue[i].saved /\ queue[j].saved => i = j

LastOf(f) == f[Len(f)]

\* A frame from its first packet to its last, with nothing missing.
IsFrame(f) ==
  /\ f # <<>> /\ Begins(f[1]) /\ Completes(LastOf(f))
  /\ \A i \in 1..(Len(f) - 1) : f[i + 1] = f[i] + 1 /\ ~Completes(f[i])

\* The sink is given whole frames only, each once, in the sender's order.
FramesWhole ==
  /\ \A i \in 1..Len(shown) : IsFrame(shown[i])
  /\ \A i \in 1..(Len(shown) - 1) : LastOf(shown[i]) < shown[i + 1][1]

FrameOf(s) == {n \in s..(NumPackets - 1) : \A m \in (s + 1)..n : ~Begins(m)}

Shown(s) == \E i \in 1..Len(shown) : shown[i][1] = s

\* A frame all of whose packets were accepted is not thrown away because of
\* what its neighbours lost.
NothingWasted ==
  \A s \in FrameStarts :
    FrameOf(s) \subseteq stored \ Queued => Shown(s)

\* Unless there is a fault, reordering costs no frame, but those that begin
\* before the packet that happened to arrive first.
AllShown ==
  \A s \in FrameStarts :
    FrameOf(s) \subseteq 0..(sent - 1) ~>
      Shown(s) \/ faults > 0 \/ (stored # {} /\ \A m \in stored : s < m)
=============================================================================
