---------------------- MODULE ReorderingPacketBuffer ----------------------
(***************************************************************************)
(* The queue in which an RTP source puts the packets it receives back into *)
(* the order of their 16-bit sequence numbers, and the one packet buffer   *)
(* that it keeps for reuse.                                                *)
(*                                                                         *)
(* A packet is known by its place n in the sender's order.  The code sees  *)
(* only SeqNo(n): every decision below is taken on sequence numbers.       *)
(***************************************************************************)
EXTENDS Integers, Sequences

CONSTANTS
  Half,  \* half the number of sequence numbers: 32768 in the code
  First  \* the sequence number that the sender starts with

ASSUME SeqAssumption == Half \in Nat \ {0, 1} /\ First \in 0..(2 * Half - 1)

VARIABLES
  queue,         \* the packets from fHeadPacket to fTailPacket
  seenFirst,     \* fHaveSeenFirstPacket
  nextExpected,  \* fNextExpectedSeqNo, which means nothing before seenFirst
  savedFree      \* fSavedPacketFree: is the buffer fSavedPacket at hand?

bufferVars == <<queue, seenFirst, nextExpected, savedFree>>

SeqNo(n) == (First + n) % (2 * Half)

\* A queued packet: isFirstPacket, and whether fSavedPacket holds it.
Packets == [n : Nat, first : BOOLEAN, saved : BOOLEAN]

BufferTypeOK ==
  /\ queue \in Seq(Packets)
  /\ seenFirst \in BOOLEAN
  /\ nextExpected \in 0..(2 * Half - 1)
  /\ savedFree \in BOOLEAN

BufferInit ==
  /\ queue = <<>>
  /\ seenFirst = FALSE
  /\ nextExpected = 0
  /\ savedFree = TRUE

Queued == {queue[i].n : i \in 1..Len(queue)}

\* Mutant: numbers do not wrap around.
PlainLT(s1, s2) == s1 < s2

\* "Less than" on sequence numbers that wrap around.
seqNumLT(s1, s2) == (s2 - s1) % (2 * Half) \in 1..(Half - 1)

\* Mutant: whichever buffer it was, fSavedPacket is taken for free.
FreeAny(p) == savedFree' = TRUE

FreePacket(p) == savedFree' = (savedFree \/ p.saved)

(***************************************************************************)
(* storePacket.                                                            *)
(***************************************************************************)
Precedes(n, i) == seqNumLT(SeqNo(n), SeqNo(queue[i].n))
Same(n, i) == SeqNo(n) = SeqNo(queue[i].n)

FollowsTail(n) ==
  queue # <<>> => seqNumLT(SeqNo(queue[Len(queue)].n), SeqNo(n))

\* Excessively delayed, or a duplicate of a packet in the queue.
Ignored(n) ==
  \/ seenFirst /\ seqNumLT(SeqNo(n), nextExpected)
  \/ /\ ~FollowsTail(n)
     /\ \/ Same(n, Len(queue))
        \/ \E i \in 1..Len(queue) :
             Same(n, i) /\ \A j \in 1..i : ~Precedes(n, j)

InsertAfter(p, k) ==
  queue' = SubSeq(queue, 1, k) \o <<p>> \o SubSeq(queue, k + 1, Len(queue))

\* Mutant: a packet out of order becomes the head, without a search.
InsertAtHead(p) == InsertAfter(p, IF FollowsTail(p.n) THEN Len(queue) ELSE 0)

\* At the tail, or before the first packet that it precedes.
Insert(p) ==
  \/ FollowsTail(p.n) /\ InsertAfter(p, Len(queue))
  \/ /\ ~FollowsTail(p.n)
     /\ \E k \in 0..Len(queue) :
          /\ \A i \in 1..k : ~Precedes(p.n, i)
          /\ k < Len(queue) => Precedes(p.n, k + 1)
          /\ InsertAfter(p, k)

\* The very first packet decides which number is expected, wherever it comes
\* from in the sender's order.
StorePacket(n) ==
  \/ /\ Ignored(n)
     /\ UNCHANGED bufferVars
  \/ /\ ~Ignored(n)
     /\ Insert([n |-> n, first |-> ~seenFirst, saved |-> savedFree])
     /\ savedFree' = FALSE
     /\ seenFirst' = TRUE
     /\ nextExpected' = IF seenFirst THEN nextExpected ELSE SeqNo(n)

(***************************************************************************)
(* getNextCompletedPacket returns the head if its number is expected, or   *)
(* when it has waited too long; releaseUsedPacket takes it off the queue.  *)
(***************************************************************************)
InOrder == queue # <<>> /\ SeqNo(queue[1].n) = nextExpected

\* Mutant: a packet that was waited for in vain leaves no trace.
ForgetLoss == queue[1].first

\* Is the packet taken from the head preceded by a loss?
PacketLoss == ~InOrder \/ queue[1].first

\* Mutant: the number is not kept to 16 bits.
ReleaseUnbounded ==
  /\ nextExpected' = SeqNo(queue[1].n) + 1
  /\ queue' = Tail(queue)
  /\ FreePacket(queue[1])
  /\ UNCHANGED seenFirst

ReleaseHead ==
  /\ nextExpected' = (SeqNo(queue[1].n) + 1) % (2 * Half)
  /\ queue' = Tail(queue)
  /\ FreePacket(queue[1])
  /\ UNCHANGED seenFirst
=============================================================================
