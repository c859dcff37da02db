--------------------------- MODULE RTPTransmission ---------------------------
(***************************************************************************)
(* A track on its way: the sink that packs it (MultiFramedRTPSink), a      *)
(* network that loses, repeats and reorders its packets, and the counts    *)
(* the receiver keeps of them (RTPReceptionStats).                         *)
(***************************************************************************)
EXTENDS MultiFramedRTPSink, RTPReceptionStats, FiniteSets, FiniteSetsExt

CONSTANTS
  FirstSeqNos,  \* the first sequence numbers a sink may choose
  InFlight,     \* how many packets may be on their way at a time
  MaxFaults,    \* how many packets are lost or repeated
  MaxReports    \* how many reports the receiver makes

ASSUME FlightAssumption ==
  /\ FirstSeqNos \subseteq 0..(CYCLE - 1)
  /\ InFlight \in Nat \ {0} /\ MaxFaults \in Nat /\ MaxReports \in Nat
  /\ 2 * (InFlight + MaxFaults) < CYCLE

VARIABLES
  first,     \* the sink's first fSeqNo
  net,       \* which packets are on their way, counted from 0
  received,  \* which have arrived
  reported,  \* which had arrived when the last report was made
  reports, faults

networkVars == <<first, net, received, reported, reports, faults>>
vars == <<sinkAndBuffer, statsVars, networkVars>>

TypeOK ==
  /\ SinkTypeOK /\ StatsTypeOK
  /\ first \in 0..(CYCLE - 1)
  /\ net \subseteq 0..(seqNo - 1) /\ received \subseteq 0..(seqNo - 1)
  /\ reported \subseteq received /\ reports \in 0..MaxReports
  /\ Cardinality(net) <= InFlight /\ faults \in 0..MaxFaults

Init ==
  /\ SinkInit /\ StatsInit
  /\ first \in FirstSeqNos
  /\ net = {} /\ received = {} /\ reported = {} /\ reports = 0 /\ faults = 0

SeqNoOf(n) == (first + n) % CYCLE

\* PLAY and PAUSE.
Play == StartPlaying /\ UNCHANGED <<statsVars, networkVars>>
Pause == StopPlaying /\ UNCHANGED <<statsVars, networkVars>>

\* A packet leaves the sink; it is overtaken by fewer than InFlight others.
Send ==
  /\ SendPacket
  /\ \A n \in net: seqNo - n < InFlight
  /\ IF used > 0 THEN net' = net \cup {seqNo} ELSE UNCHANGED net
  /\ UNCHANGED <<statsVars, first, received, reported, reports, faults>>

SinkStep ==
  /\ \/ SendNext \/ PackFrame
     \/ AfterGettingFrame \/ OurHandleClosure \/ UseFrame
  /\ UNCHANGED <<statsVars, networkVars>>

\* The sink's steps between two waits touch nothing that the network and the
\* receiver do; these move between them, or when a packet is about to leave.
SinkWaits == step \in {"none", "send"}

Receive(n) ==
  /\ SinkWaits /\ n \in net
  /\ NoteIncomingPacket(SeqNoOf(n))
  /\ received' = received \cup {n}
  /\ \/ net' = net \ {n} /\ UNCHANGED faults
     \/ faults < MaxFaults /\ faults' = faults + 1 /\ UNCHANGED net
  /\ UNCHANGED <<sinkAndBuffer, first, reported, reports>>

Lose(n) ==
  /\ SinkWaits /\ n \in net
  /\ net' = net \ {n}
  /\ faults < MaxFaults /\ faults' = faults + 1
  /\ UNCHANGED <<sinkAndBuffer, statsVars, first, received, reported, reports>>

SendReport ==
  /\ SinkWaits /\ Report
  /\ reports < MaxReports /\ reports' = reports + 1
  /\ reported' = received
  /\ UNCHANGED <<sinkAndBuffer, first, net, received, faults>>

NetworkStep == \E n \in net: Receive(n) \/ Lose(n)

Next ==
  \/ SinkStep \/ Play \/ Pause \/ Send
  \/ NetworkStep
  \/ SendReport

Spec == Init /\ [][Next]_vars

\* The event loop runs delayed tasks and asks the source again; the source
\* has a frame or an end to tell; packets do not stay in the network.
Fairness ==
  /\ WF_vars(SinkStep)
  /\ WF_vars(Send)
  /\ WF_vars(NetworkStep)

FairSpec == Spec /\ Fairness

\* The n-th packet's number, extended as the receiver ought to extend it.
TrueNumber(n, anchor) == CYCLE + SeqNoOf(anchor) + n - anchor

\* However the numbers wrap around and whatever the network does, the
\* receiver's highest and lowest numbers (RTPReceptionStats) are those of the
\* newest and the oldest packet received, and after its first report none
\* claims a loss (enqueueReportBlock) unless a packet is missing.
ReportsTrue ==
  /\ received # {} =>
       \E a \in received:
         /\ highest = TrueNumber(Max(received), a)
         /\ base = TrueNumber(Min(received), a)
  /\ reports > 1 /\ fraction > 0 =>
       \E n \in Min(reported)..Max(reported): n \notin reported

WholeFrame(n) == [i \in 1..frames[n] |-> Data(n, i)]

\* A receiver that misses no packet gets the frames of the source, whole, in
\* order and once, and without a PAUSE all of them, although they are packed
\* several to a packet, cut into fragments and moved about in the sink's
\* memory (afterGettingFrame1, OutPacketBuffer).  Excepted is what follows a
\* PAUSE in the middle of a fragmented frame: stopPlaying() forgets the rest
\* of the frame, not that it has sent a part.
FramesArrive ==
  ~cut =>
    /\ \A j \in 1..Len(whole):
         \E n \in 1..Len(frames):
           /\ whole[j] = WholeFrame(n)
           /\ \A l \in 1..(j - 1): whole[l][1][1] < n
    /\ pauses = 0 =>
         /\ \A j \in 1..Len(whole): whole[j] = WholeFrame(j)
         /\ noneLeft /\ step = "none" => Len(whole) = MaxFrames
=============================================================================
