--------------------- MODULE MultiFramedRTPSourceProofs ---------------------
(***************************************************************************)
(* Proofs about MultiFramedRTPSource, for any number of packets, any       *)
(* division into frames, any first sequence number, any number of sequence *)
(* numbers and any number of faults.                                       *)
(***************************************************************************)
EXTENDS MultiFramedRTPSource, SequenceTheorems, TLAPS

Place == 0..(NumPackets - 1)

-----------------------------------------------------------------------------
\* The inductive invariant.

\* Whatever can still arrive, is queued or is expected lies within half the
\* sequence space, so that sequence numbers compare as places do.
WindowInv ==
  /\ base <= sent
  /\ \A n \in net : sent - n < Half
  /\ seenFirst => sent - base <= Half

\* The queue between the expected packet and the last one sent.
QueueInv ==
  /\ QueueOrdered
  /\ \A i \in 1..Len(queue) : queue[i].n < sent

\* The very first packet is the expected one, until it is taken.
FirstInv ==
  /\ \A i \in 1..Len(queue) : queue[i].first => i = 1 /\ queue[1].n = base
  /\ ~seenFirst => queue = <<>> /\ frame = <<>> /\ shown = <<>>

\* What has been put together is the beginning of a frame; unless it lost a
\* packet, the expected one continues it, or begins a frame.
FrameInv ==
  /\ frame # <<>> => Begins(frame[1])
  /\ \A i \in 1..Len(frame) : ~Completes(frame[i])
  /\ \A i \in 1..(Len(frame) - 1) : frame[i + 1] = frame[i] + 1
  /\ frame # <<>> /\ ~broken => LastOf(frame) + 1 = base
  /\ frame = <<>> /\ ~broken /\ seenFirst =>
       \/ Begins(base) \/ base = NumPackets
       \/ queue # <<>> /\ queue[1].first

\* The frames shown are behind.
ShownInv ==
  /\ FramesWhole
  /\ shown # <<>> => /\ LastOf(LastOf(shown)) < base
                     /\ frame # <<>> => LastOf(LastOf(shown)) < frame[1]

\* What was accepted is queued or behind.  If that is all of a frame up to the
\* expected packet, the frame is being put together, or was shown.
StoredInv ==
  /\ Queued \subseteq stored /\ stored \ Queued \subseteq 0..(base - 1)
  /\ ~seenFirst => stored = {}
  /\ queue # <<>> /\ queue[1].first => \A m \in stored : base <= m
  /\ \A s \in FrameStarts :
       s < base /\ s..(base - 1) \subseteq stored /\ base - 1 \in FrameOf(s) =>
         IF Completes(base - 1) THEN Shown(s)
                                ELSE ~broken /\ frame # <<>> /\ frame[1] = s

IInv ==
  /\ TypeOK
  /\ WindowInv /\ QueueInv /\ FirstInv /\ SavedOnce
  /\ FrameInv /\ ShownInv
  /\ StoredInv /\ NothingWasted
-----------------------------------------------------------------------------
\* Sequence numbers.

LEMMA ModShift ==
  ASSUME NEW m \in Nat \ {0}, NEW r \in 0..(m - 1), NEW k \in Int
  PROVE  (r + k * m) % m = r
  OBVIOUS

LEMMA SeqNoOrder ==
  ASSUME NEW a \in Nat, NEW b \in Nat, b - a < Half, a - b < Half
  PROVE  /\ SeqNo(a) \in 0..(2 * Half - 1)
         /\ seqNumLT(SeqNo(a), SeqNo(b)) <=> a < b
         /\ SeqNo(a) = SeqNo(b) <=> a = b
<1> DEFINE m == 2 * Half
           x == First + a
           y == First + b
<1>1. m \in Nat \ {0} /\ x \in Int /\ y \in Int /\ y - x = b - a /\ m = 2 * Half
  BY SeqAssumption
<1> HIDE DEF m, x, y
<1>2. PICK p \in Int: x % m = x - p * m
  <2>1. x = m * (x \div m) + (x % m) /\ (x \div m) \in Int /\ (x % m) \in Int
    BY <1>1
  <2>2. m * (x \div m) = (x \div m) * m
    BY <1>1, <2>1
  <2> QED  BY <1>1, <2>1, <2>2
<1>3. PICK q \in Int: y % m = y - q * m
  <2>1. y = m * (y \div m) + (y % m) /\ (y \div m) \in Int /\ (y % m) \in Int
    BY <1>1
  <2>2. m * (y \div m) = (y \div m) * m
    BY <1>1, <2>1
  <2> QED  BY <1>1, <2>1, <2>2
<1>4. (y % m) - (x % m) = (b - a) + (p - q) * m
  BY <1>1, <1>2, <1>3
<1>5. x % m \in 0..(m - 1) /\ y % m \in 0..(m - 1)
  BY <1>1
<1>6. CASE b >= a
  <2>1. (b - a + (p - q) * m) % m = b - a
    <3>1. b - a \in 0..(m - 1) /\ p - q \in Int
      BY <1>1, <1>6, SeqAssumption
    <3> QED  BY <1>1, <3>1, ModShift, Zenon
  <2>2. ((y % m) - (x % m)) % m = b - a
    BY <1>4, <2>1
  <2>3. b - a \in 1..(Half - 1) <=> a < b
    BY <1>6, SeqAssumption
  <2>4. x % m = y % m <=> a = b
    <3>1. CASE x % m = y % m
      <4>1. ((y % m) - (x % m)) % m = 0
        BY <1>1, <1>5, <3>1
      <4> QED  BY <2>2, <4>1, <3>1
    <3>2. CASE a = b
      BY <3>2 DEF x, y
    <3> QED  BY <3>1, <3>2
  <2> QED  BY <1>5, <2>2, <2>3, <2>4 DEF SeqNo, seqNumLT, m, x, y
<1>7. CASE b < a
  <2>1. (b - a + m + (p - q - 1) * m) % m = b - a + m
    <3>1. b - a + m \in 0..(m - 1) /\ p - q - 1 \in Int
      BY <1>1, <1>7, SeqAssumption
    <3> QED  BY <1>1, <3>1, ModShift, Zenon
  <2>2. (y % m) - (x % m) = b - a + m + (p - q - 1) * m
    <3>1. (p - q) * m = m + (p - q - 1) * m
      BY <1>1
    <3> QED  BY <1>1, <1>2, <1>3, <1>4, <3>1
  <2>3. ((y % m) - (x % m)) % m = b - a + m
    BY <2>1, <2>2
  <2>4. b - a + m \notin 1..(Half - 1) /\ b - a + m # 0
    BY <1>1, <1>7, SeqAssumption
  <2>5. x % m # y % m
    <3>1. SUFFICES ASSUME x % m = y % m
                   PROVE  FALSE
      OBVIOUS
    <3>2. ((y % m) - (x % m)) % m = 0
      BY <1>1, <1>5, <3>1
    <3> QED  BY <2>3, <2>4, <3>2
  <2>6. ~(a < b) /\ a # b
    BY <1>7
  <2> QED  BY <1>5, <2>3, <2>4, <2>5, <2>6 DEF SeqNo, seqNumLT, m, x, y
<1> QED  BY <1>6, <1>7

-----------------------------------------------------------------------------
\* The queue.

\* What InsertAfter makes of a queue.
WithAfter(q, p, k) == SubSeq(q, 1, k) \o <<p>> \o SubSeq(q, k + 1, Len(q))

LEMMA Insertion ==
  ASSUME NEW S, NEW q \in Seq(S), NEW p \in S, NEW k \in 0..Len(q)
  PROVE  LET r == WithAfter(q, p, k)
         IN  /\ r \in Seq(S) /\ Len(r) = Len(q) + 1
             /\ \A i \in 1..k : r[i] = q[i]
             /\ r[k + 1] = p
             /\ \A i \in (k + 2)..(Len(q) + 1) : r[i] = q[i - 1]
<1> DEFINE a == SubSeq(q, 1, k)
           b == SubSeq(q, k + 1, Len(q))
           c == a \o <<p>>
           r == c \o b
<1>1. a \in Seq(S) /\ Len(a) = k /\ \A i \in 1..k : a[i] = q[i]
  OBVIOUS
<1>2. /\ b \in Seq(S) /\ Len(b) = Len(q) - k
      /\ \A i \in 1..(Len(q) - k) : b[i] = q[k + i]
  OBVIOUS
<1>3. WithAfter(q, p, k) = r
  BY DEF WithAfter
<1> HIDE DEF a, b
<1>4. /\ c \in Seq(S) /\ Len(c) = k + 1 /\ c[k + 1] = p
      /\ \A i \in 1..k : c[i] = a[i]
  <2>1. <<p>> \in Seq(S) /\ Len(<<p>>) = 1 /\ <<p>>[1] = p
    OBVIOUS
  <2> QED  BY <1>1, <2>1, ConcatProperties
<1> HIDE DEF c
<1>5. /\ r \in Seq(S) /\ Len(r) = Len(q) + 1
      /\ \A i \in 1..(Len(q) + 1) :
            r[i] = IF i <= k + 1 THEN c[i] ELSE b[i - (k + 1)]
  <2>1. c \in Seq(S) /\ b \in Seq(S)
    BY <1>2, <1>4
  <2>2. c \o b \in Seq(S)
    BY ONLY <2>1, ConcatProperties
  <2>3. Len(c \o b) = Len(c) + Len(b)
    BY ONLY <2>1, ConcatProperties
  <2>4. \A i \in 1..(Len(c) + Len(b)) :
           (c \o b)[i] = IF i <= Len(c) THEN c[i] ELSE b[i - Len(c)]
    BY ONLY <2>1, ConcatProperties
  <2>5. Len(c) = k + 1 /\ Len(c) + Len(b) = Len(q) + 1
    BY <1>2, <1>4
  <2> QED  BY <2>2, <2>3, <2>4, <2>5
<1> HIDE DEF r
<1>6. \A i \in 1..(k + 1) : r[i] = c[i]
  BY <1>5
<1>7. ASSUME NEW i \in (k + 2)..(Len(q) + 1)
      PROVE  r[i] = q[i - 1]
  <2>1. r[i] = b[i - (k + 1)]
    BY <1>5
  <2>2. i - (k + 1) \in 1..(Len(q) - k) /\ k + (i - (k + 1)) = i - 1
    OBVIOUS
  <2> QED  BY <1>2, <2>1, <2>2
<1>8. /\ r \in Seq(S) /\ Len(r) = Len(q) + 1
      /\ \A i \in 1..k : r[i] = q[i]
      /\ r[k + 1] = p
      /\ \A i \in (k + 2)..(Len(q) + 1) : r[i] = q[i - 1]
  BY <1>1, <1>4, <1>5, <1>6, <1>7
<1> QED  BY <1>3, <1>8, Zenon

\* Where the code puts a packet that it accepts.
LEMMA PlaceFound ==
  ASSUME IInv, NEW n \in net, ~Ignored(n), NEW p, p.n = n, Insert(p)
  PROVE  /\ seenFirst => base <= n
         /\ \E k \in 0..Len(queue) :
              /\ InsertAfter(p, k)
              /\ \A i \in 1..k : queue[i].n < n
              /\ \A i \in (k + 1)..Len(queue) : n < queue[i].n
<1>0. /\ n \in Nat /\ n < sent /\ sent - n < Half /\ sent \in Nat /\ base \in Nat
      /\ base <= sent /\ Half \in Nat /\ Len(queue) \in Nat
      /\ seenFirst => sent - base <= Half
      /\ \A i \in 1..Len(queue) :
            queue[i].n \in Nat /\ base <= queue[i].n /\ queue[i].n < sent /\ seenFirst
      /\ \A i, j \in 1..Len(queue) : i < j => queue[i].n < queue[j].n
      /\ seenFirst => nextExpected = SeqNo(base)
  <2>1. /\ n \in Nat /\ n < sent /\ sent - n < Half /\ sent \in Nat /\ base \in Nat
        /\ base <= sent /\ Half \in Nat
        /\ seenFirst => sent - base <= Half
    BY SeqAssumption, SourceAssumption DEF IInv, TypeOK, WindowInv
  <2>2. queue \in Seq(Packets)
    BY DEF IInv, TypeOK, BufferTypeOK
  <2>3. ASSUME NEW i \in 1..Len(queue)
        PROVE  queue[i].n \in Nat
    <3>1. queue[i] \in Packets
      BY <2>2
    <3> QED  BY <3>1 DEF Packets
  <2>4. ASSUME NEW i \in 1..Len(queue)
        PROVE  base <= queue[i].n /\ queue[i].n < sent /\ seenFirst
    <3>1. queue # <<>>
      BY <2>2
    <3> QED  BY <3>1 DEF IInv, QueueInv, QueueOrdered, FirstInv
  <2> QED  BY <2>1, <2>2, <2>3, <2>4 DEF IInv, QueueInv, QueueOrdered
<1>1. ASSUME NEW i \in 1..Len(queue)
      PROVE  /\ Precedes(n, i) <=> n < queue[i].n
             /\ Same(n, i) <=> n = queue[i].n
             /\ seqNumLT(SeqNo(queue[i].n), SeqNo(n)) <=> queue[i].n < n
  <2> DEFINE m == queue[i].n
  <2>1. m \in Nat /\ m - n < Half /\ n - m < Half
    BY <1>0
  <2> HIDE DEF m
  <2>2. /\ seqNumLT(SeqNo(n), SeqNo(m)) <=> n < m
        /\ SeqNo(n) = SeqNo(m) <=> n = m
        /\ seqNumLT(SeqNo(m), SeqNo(n)) <=> m < n
    BY <1>0, <2>1, SeqNoOrder, Zenon
  <2> QED  BY <2>2 DEF Precedes, Same, m
<1>2. seenFirst => base <= n
  <2>1. SUFFICES ASSUME seenFirst
                 PROVE  base <= n
    OBVIOUS
  <2>2. n - base < Half /\ base - n < Half
    BY <1>0, <2>1
  <2>3. ~seqNumLT(SeqNo(n), SeqNo(base))
    BY <1>0, <2>1 DEF Ignored
  <2>4. ~(n < base)
    BY <1>0, <2>2, <2>3, SeqNoOrder, Zenon
  <2> QED  BY <1>0, <2>4
<1>3. CASE FollowsTail(n)
  <2>1. InsertAfter(p, Len(queue))
    <3>1. CASE FollowsTail(p.n) /\ InsertAfter(p, Len(queue))
      BY <3>1
    <3>2. CASE ~FollowsTail(p.n)
      BY <1>3, <3>2
    <3> QED  BY <3>1, <3>2 DEF Insert
  <2>2. ASSUME NEW i \in 1..Len(queue)
        PROVE  queue[i].n < n
    <3>1. Len(queue) \in 1..Len(queue) /\ queue # <<>>
      BY <1>0
    <3>2. queue[Len(queue)].n < n
      BY <1>1, <1>3, <3>1 DEF FollowsTail
    <3>3. i = Len(queue) \/ queue[i].n < queue[Len(queue)].n
      BY <1>0, <3>1
    <3> QED  BY <1>0, <3>1, <3>2, <3>3
  <2> QED  BY <1>0, <1>2, <2>1, <2>2
<1>4. CASE ~FollowsTail(n)
  <2>1. PICK k \in 0..Len(queue) :
          /\ \A i \in 1..k : ~Precedes(n, i)
          /\ k < Len(queue) => Precedes(n, k + 1)
          /\ InsertAfter(p, k)
    BY <1>4 DEF Insert
  <2>2. ASSUME NEW i \in 1..k
        PROVE  queue[i].n < n
    <3>1. i \in 1..Len(queue) /\ \A j \in 1..i : j \in 1..k
      BY <1>0
    <3>2. ~Same(n, i) /\ ~Precedes(n, i)
      BY <1>4, <2>1, <3>1 DEF Ignored
    <3>3. n # queue[i].n /\ ~(n < queue[i].n) /\ queue[i].n \in Nat
      BY <1>0, <1>1, <3>1, <3>2
    <3> QED  BY <1>0, <3>3
  <2>3. ASSUME NEW i \in (k + 1)..Len(queue)
        PROVE  n < queue[i].n
    <3>1. k + 1 \in 1..Len(queue) /\ i \in 1..Len(queue) /\ k < Len(queue)
      BY <1>0
    <3>2. n < queue[k + 1].n
      BY <1>1, <2>1, <3>1
    <3>3. i = k + 1 \/ queue[k + 1].n < queue[i].n
      BY <1>0, <3>1
    <3> QED  BY <1>0, <3>1, <3>2, <3>3
  <2> QED  BY <1>2, <2>1, <2>2, <2>3
<1> QED  BY <1>3, <1>4

\* A packet that arrives and is kept.
LEMMA Stored ==
  ASSUME IInv, NEW n \in net, ~Ignored(n), StorePacket(n), sent' = sent,
         base' = IF seenFirst THEN base ELSE n
  PROVE  /\ BufferTypeOK' /\ QueueInv' /\ SavedOnce'
         /\ \A i \in 1..Len(queue') : queue'[i].first => i = 1 /\ queue'[1].n = base'
         /\ queue' # <<>> /\ seenFirst'
         /\ queue # <<>> /\ queue[1].first => queue'[1].first
         /\ ~seenFirst => queue'[1].first
         /\ seenFirst /\ queue'[1].first => queue # <<>> /\ queue[1].first
         /\ Queued' = Queued \cup {n}
         /\ seenFirst => base <= n
<1>1. /\ Insert([n |-> n, first |-> ~seenFirst, saved |-> savedFree])
      /\ savedFree' = FALSE /\ seenFirst' = TRUE
      /\ nextExpected' = IF seenFirst THEN nextExpected ELSE SeqNo(n)
  BY Zenon DEF StorePacket
<1>2. /\ queue \in Seq(Packets) /\ Len(queue) \in Nat
      /\ n \in Nat /\ n < sent /\ sent - n < Half /\ base \in Nat /\ sent \in Nat
      /\ seenFirst \in BOOLEAN /\ savedFree \in BOOLEAN
      /\ nextExpected \in 0..(2 * Half - 1)
      /\ ~seenFirst => queue = <<>>
      /\ seenFirst => nextExpected = SeqNo(base)
  <2>1. /\ n \in Nat /\ n < sent /\ sent - n < Half /\ base \in Nat /\ sent \in Nat
    BY SourceAssumption DEF IInv, TypeOK, WindowInv
  <2>2. /\ queue \in Seq(Packets)
        /\ seenFirst \in BOOLEAN /\ savedFree \in BOOLEAN
        /\ nextExpected \in 0..(2 * Half - 1)
    BY Zenon DEF IInv, TypeOK, BufferTypeOK
  <2>3. /\ ~seenFirst => queue = <<>>
        /\ seenFirst => nextExpected = SeqNo(base)
    BY Zenon DEF IInv, FirstInv, QueueInv, QueueOrdered
  <2>4. Len(queue) \in Nat
    BY <2>2, LenProperties
  <2> QED  BY <2>1, <2>2, <2>3, <2>4
<1> DEFINE new == [n |-> n, first |-> ~seenFirst, saved |-> savedFree]
<1>3. new \in Packets
  BY <1>2, Zenon DEF Packets
<1>4. PICK p \in Packets :
        Insert(p) /\ p.n = n /\ p.first = ~seenFirst /\ p.saved = savedFree
  <2>1. new.n = n /\ new.first = ~seenFirst /\ new.saved = savedFree
    OBVIOUS
  <2>2. Insert(new)
    BY <1>1
  <2> HIDE DEF new
  <2> QED  BY <1>3, <2>1, <2>2, Zenon
<1>5. PICK k \in 0..Len(queue) :
        /\ InsertAfter(p, k)
        /\ \A i \in 1..k : queue[i].n < n
        /\ \A i \in (k + 1)..Len(queue) : n < queue[i].n
  BY <1>1, <1>4, PlaceFound
<1>6. seenFirst => base <= n
  BY <1>1, <1>4, PlaceFound
<1>7. /\ queue' \in Seq(Packets) /\ Len(queue') = Len(queue) + 1
      /\ \A i \in 1..k : queue'[i] = queue[i]
      /\ queue'[k + 1] = p
      /\ \A i \in (k + 2)..(Len(queue) + 1) : queue'[i] = queue[i - 1]
  <2>1. queue' = WithAfter(queue, p, k)
    BY <1>5, Zenon DEF InsertAfter, WithAfter
  <2>2. queue \in Seq(Packets) /\ p \in Packets /\ k \in 0..Len(queue)
    BY <1>2, <1>4, <1>5
  <2>3. WithAfter(queue, p, k) \in Seq(Packets)
    BY ONLY <2>2, Insertion
  <2>4. Len(WithAfter(queue, p, k)) = Len(queue) + 1
    BY ONLY <2>2, Insertion
  <2>5. \A i \in 1..k : WithAfter(queue, p, k)[i] = queue[i]
    BY ONLY <2>2, Insertion
  <2>6. WithAfter(queue, p, k)[k + 1] = p
    BY ONLY <2>2, Insertion
  <2>7. \A i \in (k + 2)..(Len(queue) + 1) : WithAfter(queue, p, k)[i] = queue[i - 1]
    BY ONLY <2>2, Insertion
  <2> QED  BY <2>1, <2>3, <2>4, <2>5, <2>6, <2>7
\* Where the packets of the new queue come from.
<1> DEFINE Old(i) == IF i <= k THEN i ELSE i - 1
<1>8. ASSUME NEW i \in 1..Len(queue'), i # k + 1
      PROVE  Old(i) \in 1..Len(queue) /\ queue'[i] = queue[Old(i)]
  BY <1>2, <1>7, <1>8
<1>9. ASSUME NEW i \in 1..Len(queue')
      PROVE  queue'[i].n \in Nat
  <2>1. queue'[i] \in Packets
    BY <1>7
  <2> QED  BY <2>1 DEF Packets
<1>10. /\ \A i \in 1..Len(queue) : base <= queue[i].n /\ queue[i].n < sent
       /\ \A i, j \in 1..Len(queue) : i < j => queue[i].n < queue[j].n
       /\ \A i \in 1..Len(queue) : queue[i].first => i = 1 /\ queue[1].n = base
       /\ \A i \in 1..Len(queue) : queue[i].saved => ~savedFree
       /\ \A i, j \in 1..Len(queue) : queue[i].saved /\ queue[j].saved => i = j
  BY DEF IInv, QueueInv, QueueOrdered, FirstInv, SavedOnce
<1>11. BufferTypeOK'
  <2>1. nextExpected' \in 0..(2 * Half - 1)
    BY <1>1, <1>2, SeqNoOrder, SeqAssumption
  <2> QED  BY <1>1, <1>7, <2>1 DEF BufferTypeOK
<1>12. QueueInv'
  <2>1. ASSUME NEW i \in 1..Len(queue'), NEW j \in 1..Len(queue'), i < j
        PROVE  queue'[i].n < queue'[j].n
    <3>1. CASE i = k + 1
      <4>1. j # k + 1 /\ Old(j) \in (k + 1)..Len(queue)
        BY <1>2, <1>7, <2>1, <3>1
      <4>2. queue'[j] = queue[Old(j)] /\ queue'[i].n = n
        BY <1>4, <1>7, <1>8, <3>1, <4>1
      <4> QED  BY <1>5, <4>1, <4>2, Zenon
    <3>2. CASE j = k + 1
      <4>1. i # k + 1 /\ Old(i) \in 1..k
        BY <1>2, <1>7, <2>1, <3>2
      <4>2. queue'[i] = queue[Old(i)] /\ queue'[j].n = n
        BY <1>4, <1>7, <1>8, <3>2, <4>1
      <4> QED  BY <1>5, <4>1, <4>2, Zenon
    <3>3. CASE i # k + 1 /\ j # k + 1
      <4>1. Old(i) < Old(j)
        BY <1>2, <1>7, <2>1, <3>3
      <4> QED  BY <1>8, <1>10, <3>3, <4>1
    <3> QED  BY <3>1, <3>2, <3>3
  <2>2. ASSUME NEW i \in 1..Len(queue')
        PROVE  base' <= queue'[i].n /\ queue'[i].n < sent'
    <3>1. CASE i = k + 1
      BY <1>2, <1>4, <1>6, <1>7, <3>1
    <3>2. CASE i # k + 1
      <4>1. queue # <<>>
        BY <1>2, <1>8, <3>2
      <4> QED  BY <1>2, <1>8, <1>10, <3>2, <4>1
    <3> QED  BY <3>1, <3>2
  <2>3. nextExpected' = SeqNo(base)'
    BY <1>1, <1>2 DEF SeqNo
  <2> QED  BY <2>1, <2>2, <2>3 DEF QueueInv, QueueOrdered, SeqNo
<1>13. SavedOnce'
  <2>1. ASSUME NEW i \in 1..Len(queue'), NEW j \in 1..Len(queue'),
               queue'[i].saved, queue'[j].saved
        PROVE  i = j
    <3>1. CASE savedFree
      BY <1>8, <1>10, <2>1, <3>1, Zenon
    <3>2. CASE ~savedFree
      <4>1. i # k + 1 /\ j # k + 1
        BY <1>4, <1>7, <2>1, <3>2, Zenon
      <4>2. Old(i) = Old(j)
        BY <1>8, <1>10, <2>1, <4>1, Zenon
      <4> QED  BY <1>2, <1>7, <4>1, <4>2
    <3> QED  BY <3>1, <3>2
  <2> QED  BY <1>1, <2>1, Zenon DEF SavedOnce
<1>14. ASSUME NEW i \in 1..Len(queue'), queue'[i].first
       PROVE  i = 1 /\ queue'[1].n = base'
  <2>1. CASE ~seenFirst
    BY <1>2, <1>4, <1>7, <2>1
  <2>2. CASE seenFirst
    <3>1. i # k + 1
      BY <1>4, <1>7, <1>14, <2>2, Zenon
    <3>2. queue[Old(i)].first /\ Old(i) \in 1..Len(queue)
      BY <1>8, <1>14, <3>1
    <3>3. Old(i) = 1 /\ queue[1].n = base
      BY <1>10, <3>2
    <3>4. k >= 1
      BY <1>2, <1>5, <1>6, <2>2, <3>2, <3>3
    <3> QED  BY <1>2, <1>7, <2>2, <3>3, <3>4, <3>1
  <2> QED  BY <1>2, <2>1, <2>2
<1>15. queue # <<>> /\ queue[1].first => queue'[1].first
  <2>1. SUFFICES ASSUME queue # <<>>, queue[1].first
                 PROVE  queue'[1].first
    OBVIOUS
  <2>2. 1 \in 1..Len(queue) /\ queue[1].n = base /\ seenFirst
    BY <1>2, <1>10, <2>1
  <2>3. k >= 1
    BY <1>2, <1>5, <1>6, <2>2
  <2>4. queue'[1] = queue[1]
    BY <1>7, <2>3
  <2> QED  BY <2>1, <2>4
<1>16. ~seenFirst => queue'[1].first
  <2>1. ~seenFirst => k = 0 /\ queue'[1] = p
    BY <1>2, <1>7
  <2> QED  BY <1>4, <2>1
<1>19. seenFirst /\ queue'[1].first => queue # <<>> /\ queue[1].first
  <2>1. SUFFICES ASSUME seenFirst, queue'[1].first
                 PROVE  queue # <<>> /\ queue[1].first
    OBVIOUS
  <2>2. k # 0
    <3>1. k = 0 => queue'[1] = p
      BY <1>7
    <3> QED  BY <1>4, <2>1, <3>1
  <2>3. 1 \in 1..k /\ queue # <<>>
    BY <1>2, <2>2
  <2> QED  BY <1>7, <2>1, <2>3, Zenon
<1>17. Queued' = Queued \cup {n}
  <2>1. ASSUME NEW i \in 1..Len(queue')
        PROVE  queue'[i].n \in Queued \cup {n}
    <3>1. CASE i = k + 1
      BY <1>4, <1>7, <3>1
    <3>2. CASE i # k + 1
      BY <1>8, <3>2 DEF Queued
    <3> QED  BY <3>1, <3>2
  <2>2. ASSUME NEW i \in 1..Len(queue)
        PROVE  \E j \in 1..Len(queue') : queue[i].n = queue'[j].n
    <3>1. CASE i <= k
      <4>1. i \in 1..k /\ i \in 1..Len(queue')
        BY <1>2, <1>7, <3>1
      <4> QED  BY <1>7, <4>1
    <3>2. CASE i > k
      <4>1. PICK j \in (k + 2)..(Len(queue) + 1) : j - 1 = i
        BY <1>2, <3>2
      <4>2. j \in 1..Len(queue')
        BY <1>2, <1>7
      <4> QED  BY <1>7, <4>1, <4>2
    <3> QED  BY <1>2, <3>1, <3>2
  <2>3. k + 1 \in 1..Len(queue') /\ queue'[k + 1].n = n
    BY <1>2, <1>4, <1>7
  <2> SUFFICES ASSUME NEW x
               PROVE  x \in Queued' <=> x \in Queued \cup {n}
    OBVIOUS
  <2>4. x \in Queued' <=> \E i \in 1..Len(queue') : x = queue'[i].n
    BY Zenon DEF Queued
  <2>5. x \in Queued <=> \E i \in 1..Len(queue) : x = queue[i].n
    BY Zenon DEF Queued
  <2> QED  BY <2>1, <2>2, <2>3, <2>4, <2>5, Zenon
<1>18. queue' # <<>>
  BY <1>2, <1>7
<1> QED
  BY <1>1, <1>6, <1>11, <1>12, <1>13, <1>14, <1>15, <1>16, <1>17, <1>18, <1>19,
     Zenon

\* The packet at the head is taken.
LEMMA Taken ==
  ASSUME IInv, queue # <<>>, ReleaseHead, base' = queue[1].n + 1, sent' = sent
  PROVE  /\ BufferTypeOK' /\ QueueInv' /\ SavedOnce' /\ seenFirst /\ seenFirst'
         /\ \A i \in 1..Len(queue') : ~queue'[i].first
         /\ Queued' = Queued \ {queue[1].n}
         /\ queue[1].n \in base..(sent - 1)
         /\ InOrder <=> queue[1].n = base
         /\ \A i \in 1..Len(queue) : queue[1].n <= queue[i].n
         /\ queue[1].first \in BOOLEAN
<1> DEFINE n == queue[1].n
<1>1. /\ queue' = Tail(queue) /\ savedFree' = (savedFree \/ queue[1].saved)
      /\ nextExpected' = (SeqNo(n) + 1) % (2 * Half)
      /\ UNCHANGED seenFirst
  BY Zenon DEF ReleaseHead, FreePacket
<1>2. /\ queue \in Seq(Packets) /\ Len(queue) \in Nat /\ Len(queue) > 0
      /\ seenFirst /\ savedFree \in BOOLEAN /\ nextExpected = SeqNo(base)
      /\ base \in Nat /\ sent \in Nat /\ sent - base <= Half /\ Half \in Nat \ {0, 1}
      /\ First \in Nat
  <2>1. queue \in Seq(Packets) /\ savedFree \in BOOLEAN
    BY Zenon DEF IInv, TypeOK, BufferTypeOK
  <2>2. seenFirst /\ nextExpected = SeqNo(base)
    BY Zenon DEF IInv, FirstInv, QueueInv, QueueOrdered
  <2>3. base \in Nat /\ sent \in Nat /\ sent - base <= Half
    BY <2>2, SourceAssumption DEF IInv, TypeOK, WindowInv
  <2>4. Len(queue) \in Nat /\ Len(queue) > 0
    BY <2>1
  <2> QED  BY <2>1, <2>2, <2>3, <2>4, SeqAssumption
<1>3. ASSUME NEW i \in 1..Len(queue)
      PROVE  /\ queue[i] \in Packets /\ queue[i].n \in Nat
             /\ queue[i].first \in BOOLEAN /\ queue[i].saved \in BOOLEAN
  <2>1. queue[i] \in Packets
    BY <1>2
  <2> QED  BY <2>1 DEF Packets
<1>4. /\ \A i \in 1..Len(queue) : base <= queue[i].n /\ queue[i].n < sent
      /\ \A i, j \in 1..Len(queue) : i < j => queue[i].n < queue[j].n
      /\ \A i \in 1..Len(queue) : queue[i].first => i = 1 /\ queue[1].n = base
      /\ \A i \in 1..Len(queue) : queue[i].saved => ~savedFree
      /\ \A i, j \in 1..Len(queue) : queue[i].saved /\ queue[j].saved => i = j
  BY DEF IInv, QueueInv, QueueOrdered, FirstInv, SavedOnce
<1>5. /\ queue' \in Seq(Packets) /\ Len(queue') = Len(queue) - 1
      /\ \A i \in 1..Len(queue') : i + 1 \in 1..Len(queue) /\ queue'[i] = queue[i + 1]
  BY <1>1, <1>2
<1>6. 1 \in 1..Len(queue) /\ n \in Nat /\ base <= n /\ n < sent
  BY <1>2, <1>3, <1>4
<1>7. InOrder <=> n = base
  <2>1. n - base < Half /\ base - n < Half
    BY <1>2, <1>6
  <2>2. InOrder <=> SeqNo(n) = SeqNo(base)
    BY <1>2 DEF InOrder
  <2> HIDE DEF n
  <2> QED  BY <1>2, <1>6, <2>1, <2>2, SeqNoOrder, Zenon
<1>8. \A i \in 1..Len(queue) : n <= queue[i].n
  BY <1>2, <1>3, <1>4, <1>6
<1>9. nextExpected' = SeqNo(base')
  <2> HIDE DEF n
  <2> DEFINE m == 2 * Half
             x == First + n
  <2>1. m \in Nat \ {0} /\ x \in Int /\ First + (n + 1) = x + 1
    BY <1>2, <1>6
  <2> HIDE DEF m, x
  <2>2. ((x % m) + 1) % m = (x + 1) % m
    <3> DEFINE r == x % m
               d == x \div m
    <3>1. x = m * d + r /\ d \in Int /\ r \in 0..(m - 1)
      BY <2>1
    <3>2. m * d = d * m /\ m * d + m = (d + 1) * m
      BY <2>1, <3>1
    <3> HIDE DEF r, d
    <3>3. CASE r + 1 < m
      <4>1. r + 1 \in 0..(m - 1) /\ x + 1 = r + 1 + d * m
        BY <2>1, <3>1, <3>2, <3>3
      <4>2. (r + 1 + d * m) % m = r + 1
        BY <2>1, <3>1, <4>1, ModShift, Zenon
      <4>3. (r + 1) % m = r + 1
        BY <2>1, <4>1
      <4> QED  BY <4>1, <4>2, <4>3 DEF r
    <3>4. CASE r + 1 = m
      <4>1. 0 \in 0..(m - 1) /\ x + 1 = 0 + (d + 1) * m /\ d + 1 \in Int
        BY <2>1, <3>1, <3>2, <3>4
      <4>2. (0 + (d + 1) * m) % m = 0
        BY <2>1, <4>1, ModShift, Zenon
      <4>3. m % m = 0
        BY <2>1
      <4> QED  BY <3>4, <4>1, <4>2, <4>3 DEF r
    <3> QED  BY <2>1, <3>1, <3>3, <3>4
  <2> QED  BY <1>1, <2>1, <2>2 DEF SeqNo, m, x, n
<1>10. BufferTypeOK'
  <2>1. nextExpected' \in 0..(2 * Half - 1)
    BY <1>2, <1>6, <1>9, SeqNoOrder
  <2> QED  BY <1>1, <1>2, <1>3, <1>5, <1>6, <2>1 DEF BufferTypeOK
\* All that is left is behind the head.
<1>16. ASSUME NEW i \in 1..Len(queue')
       PROVE  n < queue'[i].n /\ queue'[i].n < sent /\ queue'[i].n \in Nat
  <2>1. PICK j \in 1..Len(queue) : j = i + 1
    BY <1>5
  <2>2. 1 < j /\ queue'[i] = queue[j]
    BY <1>5, <2>1
  <2> QED  BY <1>3, <1>4, <1>6, <2>2
<1>11. QueueInv'
  <2>1. ASSUME NEW i \in 1..Len(queue'), NEW j \in 1..Len(queue'), i < j
        PROVE  queue'[i].n < queue'[j].n
    BY <1>4, <1>5, <2>1
  <2>2. ASSUME NEW i \in 1..Len(queue')
        PROVE  base' <= queue'[i].n /\ queue'[i].n < sent'
    BY <1>6, <1>16
  <2>3. nextExpected' = SeqNo(base)'
    BY <1>9 DEF SeqNo
  <2> QED  BY <2>1, <2>2, <2>3 DEF QueueInv, QueueOrdered, SeqNo
<1>12. SavedOnce'
  <2>1. ASSUME NEW i \in 1..Len(queue'), NEW j \in 1..Len(queue'),
               queue'[i].saved, queue'[j].saved
        PROVE  i = j
    <3>1. i + 1 = j + 1
      BY <1>4, <1>5, <2>1, Zenon
    <3> QED  BY <3>1
  <2>2. ASSUME NEW i \in 1..Len(queue'), queue'[i].saved
        PROVE  ~savedFree'
    <3>1. i + 1 # 1
      OBVIOUS
    <3>2. ~queue[1].saved /\ ~savedFree
      BY <1>4, <1>5, <1>6, <2>2, <3>1, Zenon
    <3> QED  BY <1>1, <3>2, Zenon
  <2> QED  BY <2>1, <2>2, Zenon DEF SavedOnce
<1>13. ASSUME NEW i \in 1..Len(queue'), queue'[i].first
       PROVE  FALSE
  <2>1. i + 1 # 1
    OBVIOUS
  <2> QED  BY <1>4, <1>5, <1>13, <2>1, Zenon
<1>14. Queued' = Queued \ {n}
  <2>1. ASSUME NEW i \in 1..Len(queue')
        PROVE  queue'[i].n # n /\ \E j \in 1..Len(queue) : queue'[i].n = queue[j].n
    <3>1. queue'[i].n # n
      BY <1>6, <1>16
    <3>2. PICK j \in 1..Len(queue) : j = i + 1
      BY <1>5
    <3>3. queue'[i].n = queue[j].n
      BY <1>5, <3>2
    <3> QED  BY <3>1, <3>3
  <2>2. ASSUME NEW j \in 1..Len(queue), queue[j].n # n
        PROVE  \E i \in 1..Len(queue') : queue[j].n = queue'[i].n
    <3>1. j # 1
      BY <2>2
    <3>2. PICK i \in 1..Len(queue') : i + 1 = j
      BY <1>2, <1>5, <3>1
    <3> QED  BY <1>5, <3>2
  <2> SUFFICES ASSUME NEW x
               PROVE  x \in Queued' <=> x \in Queued \ {n}
    OBVIOUS
  <2>3. x \in Queued' <=> \E i \in 1..Len(queue') : x = queue'[i].n
    BY Zenon DEF Queued
  <2>4. x \in Queued <=> \E i \in 1..Len(queue) : x = queue[i].n
    BY Zenon DEF Queued
  <2> QED  BY <2>1, <2>2, <2>3, <2>4, Zenon
<1>15. queue[1].first \in BOOLEAN /\ queue[1].n \in base..(sent - 1)
  BY <1>2, <1>3, <1>6
<1> QED  BY <1>1, <1>2, <1>7, <1>8, <1>10, <1>11, <1>12, <1>13, <1>14, <1>15, Zenon

-----------------------------------------------------------------------------
\* The frames.

\* The packet at the head is made part of a frame, or thrown away.
LEMMA TakeStep ==
  ASSUME IInv, Take
  PROVE  IInv'
<1> DEFINE n == queue[1].n
           b == Before(n, PacketLoss)
           f == Append(b, n)
<1>1. /\ ReleaseHead /\ queue # <<>> /\ base' = n + 1
      /\ UNCHANGED <<pc, sent, net, stored>> /\ need
      /\ faults' \in {faults, faults + 1} /\ (faults' = faults \/ faults < MaxFaults)
  BY DEF Take, Fault, netVars
<1>2. /\ BufferTypeOK' /\ QueueInv' /\ SavedOnce' /\ seenFirst /\ seenFirst'
      /\ \A i \in 1..Len(queue') : ~queue'[i].first
      /\ Queued' = Queued \ {n}
      /\ n \in base..(sent - 1)
      /\ InOrder <=> n = base
      /\ \A i \in 1..Len(queue) : n <= queue[i].n
      /\ queue[1].first \in BOOLEAN
  BY <1>1, Taken
<1> HIDE DEF n
<1>3. /\ base \in Nat /\ sent \in Nat /\ NumPackets \in Nat /\ sent <= NumPackets
      /\ n \in Place /\ base <= n /\ n < sent /\ FrameStarts \subseteq Place
      /\ frame \in Seq(Place) /\ shown \in Seq(Seq(Place)) /\ broken \in BOOLEAN
      /\ queue \in Seq(Packets) /\ sent - base <= Half /\ stored \subseteq 0..(sent - 1)
      /\ \A m \in net : sent - m < Half
  <2>1. /\ base \in Nat /\ sent \in Nat /\ NumPackets \in Nat /\ sent <= NumPackets
        /\ FrameStarts \subseteq Place /\ stored \subseteq 0..(sent - 1)
    BY SourceAssumption DEF IInv, TypeOK, Place
  <2>2. /\ frame \in Seq(Place) /\ shown \in Seq(Seq(Place)) /\ broken \in BOOLEAN
        /\ queue \in Seq(Packets)
    BY Zenon DEF IInv, TypeOK, BufferTypeOK, Place
  <2>3. sent - base <= Half /\ \A m \in net : sent - m < Half
    BY <1>2 DEF IInv, WindowInv
  <2> QED  BY <1>2, <2>1, <2>2, <2>3 DEF Place
\* What there is of the frame before the packet continues up to it, if the
\* packet is of any use.
<1>4. ASSUME ~BreaksFrame(n, PacketLoss)
      PROVE  /\ f \in Seq(Place) /\ f # <<>> /\ LastOf(f) = n
             /\ Begins(f[1])
             /\ \A i \in 1..(Len(f) - 1) : f[i + 1] = f[i] + 1 /\ ~Completes(f[i])
             /\ shown # <<>> => LastOf(LastOf(shown)) < f[1]
             /\ Begins(n) => f[1] = n
             /\ ~Begins(n) => frame # <<>> /\ f[1] = frame[1]
  <2>1. CASE Begins(n)
    <3>1. b = <<>>
      <4>1. CASE PacketLoss \/ broken
        BY <2>1, <4>1 DEF Before
      <4>2. CASE ~PacketLoss /\ ~broken
        <5>1. n = base
          BY <1>2, <4>2 DEF PacketLoss
        <5>2. SUFFICES ASSUME frame # <<>>
                       PROVE  FALSE
          BY <4>2 DEF Before
        <5>3. Len(frame) \in 1..Len(frame) /\ LastOf(frame) = frame[Len(frame)]
          BY <1>3, <5>2 DEF LastOf
        <5>4. ~Completes(LastOf(frame)) /\ LastOf(frame) + 1 = base
          BY <4>2, <5>2, <5>3 DEF IInv, FrameInv
        <5> QED  BY <2>1, <5>1, <5>4 DEF Completes, Begins
      <4> QED  BY <4>1, <4>2
    <3>2. f = <<n>>
      BY <3>1
    <3>3. shown # <<>> => LastOf(LastOf(shown)) < base
      BY DEF IInv, ShownInv
    <3>4. shown # <<>> => LastOf(LastOf(shown)) \in Int
      <4>1. SUFFICES ASSUME shown # <<>>
                     PROVE  LastOf(LastOf(shown)) \in Int
        OBVIOUS
      <4>2. Len(shown) \in 1..Len(shown) /\ LastOf(shown) \in Seq(Place)
        BY <1>3, <4>1 DEF LastOf
      <4>3. LastOf(shown) # <<>>
        BY <4>2 DEF IInv, ShownInv, FramesWhole, IsFrame, LastOf
      <4> QED  BY <1>3, <4>2, <4>3 DEF LastOf, Place
    <3> QED  BY <1>3, <2>1, <3>2, <3>3, <3>4 DEF LastOf, Place
  <2>2. CASE ~Begins(n)
    <3>1. ~broken /\ ~PacketLoss
      BY <1>4, <2>2 DEF BreaksFrame
    <3>2. n = base /\ ~queue[1].first
      BY <1>2, <3>1 DEF PacketLoss
    <3>3. b = frame
      BY <2>2 DEF Before
    <3>4. frame # <<>>
      <4>1. n # NumPackets
        BY <1>3 DEF Place
      <4> QED  BY <1>2, <2>2, <3>1, <3>2, <4>1 DEF IInv, FrameInv
    <3>5. /\ Begins(frame[1])
          /\ \A i \in 1..Len(frame) : ~Completes(frame[i])
          /\ \A i \in 1..(Len(frame) - 1) : frame[i + 1] = frame[i] + 1
          /\ LastOf(frame) + 1 = n
          /\ shown # <<>> => LastOf(LastOf(shown)) < frame[1]
      BY <3>1, <3>2, <3>4 DEF IInv, FrameInv, ShownInv
    <3>6. /\ f \in Seq(Place) /\ Len(f) = Len(frame) + 1 /\ f[Len(f)] = n
          /\ \A i \in 1..Len(frame) : f[i] = frame[i]
      BY <1>3, <3>3
    <3>7. Len(frame) \in Nat \ {0}
      BY <1>3, <3>4
    <3> HIDE DEF f
    <3>8. ASSUME NEW i \in 1..(Len(f) - 1)
          PROVE  f[i + 1] = f[i] + 1 /\ ~Completes(f[i])
      <4>1. CASE i = Len(frame)
        BY <3>5, <3>6, <3>7, <4>1 DEF LastOf
      <4>2. CASE i # Len(frame)
        BY <3>5, <3>6, <3>7, <4>2
      <4> QED  BY <4>1, <4>2
    <3> QED  BY <2>2, <3>4, <3>5, <3>6, <3>7, <3>8 DEF LastOf
  <2> QED  BY <2>1, <2>2
\* A frame of which all packets up to this one were accepted is intact.
<1>5. ASSUME NEW s \in FrameStarts, s..n \subseteq stored, n \in FrameOf(s)
      PROVE  ~BreaksFrame(n, PacketLoss) /\ f[1] = s
  <2>0. s \in Nat /\ s <= n
    BY <1>3, <1>5 DEF FrameOf, Place
  <2>1. CASE s = n
    <3>1. Begins(n)
      BY <1>5, <2>1 DEF Begins
    <3> QED  BY <1>4, <2>1, <3>1 DEF BreaksFrame
  <2>2. CASE s < n
    <3>1. ~Begins(n) /\ \A m \in (s + 1)..n : ~Begins(m)
      BY <1>3, <1>5, <2>0, <2>2 DEF FrameOf, Place
    <3>2. n = base
      <4>1. SUFFICES ASSUME base < n
                     PROVE  FALSE
        BY <1>3 DEF Place
      <4>2. n - 1 \in stored /\ n - 1 \notin 0..(base - 1)
        BY <1>3, <1>5, <2>0, <2>2, <4>1 DEF Place
      <4>3. n - 1 \in Queued
        BY <4>2 DEF IInv, StoredInv
      <4>4. PICK i \in 1..Len(queue) : queue[i].n = n - 1
        BY <4>3 DEF Queued
      <4>5. n <= n - 1
        BY <1>2, <4>4
      <4> QED  BY <1>3, <4>5 DEF Place
    <3>3. InOrder /\ ~queue[1].first
      <4>1. s \in stored /\ ~(base <= s)
        BY <1>3, <1>5, <2>0, <2>2, <3>2 DEF Place
      <4>2. queue[1].first => \A m \in stored : base <= m
        BY <1>1 DEF IInv, StoredInv
      <4> QED  BY <1>2, <3>2, <4>1, <4>2
    <3>4. s < base /\ s..(base - 1) \subseteq stored /\ base - 1 \in FrameOf(s)
      BY <1>3, <1>5, <2>0, <2>2, <3>1, <3>2 DEF FrameOf, Place
    <3>5. ~Completes(base - 1)
      BY <1>3, <3>1, <3>2 DEF Completes, Begins, Place
    <3>6. ~broken /\ frame # <<>> /\ frame[1] = s
      BY <3>4, <3>5 DEF IInv, StoredInv
    <3>7. ~BreaksFrame(n, PacketLoss)
      BY <3>3, <3>6 DEF BreaksFrame, PacketLoss
    <3> QED  BY <1>4, <3>1, <3>6, <3>7
  <2>3. s = n \/ s < n
    BY <1>3, <2>0 DEF Place
  <2> QED  BY <2>1, <2>2, <2>3
<1> HIDE DEF b, f
<1>6. /\ broken' = BreaksFrame(n, PacketLoss)
      /\ \/ broken' /\ frame' = frame /\ UNCHANGED <<need, task, shown>>
         \/ ~broken' /\ ~Completes(n) /\ frame' = f /\ UNCHANGED <<need, task, shown>>
         \/ /\ ~broken' /\ Completes(n)
            /\ frame' = <<>> /\ shown' = Append(shown, f)
            /\ task' \in BOOLEAN /\ need' \in BOOLEAN
  <2>1. broken' = BreaksFrame(n, PacketLoss)
    BY Zenon DEF Take, n
  <2>2. \/ broken' /\ frame' = b /\ UNCHANGED <<need, task, shown>>
        \/ ~broken' /\ ~Completes(n) /\ frame' = f /\ UNCHANGED <<need, task, shown>>
        \/ ~broken' /\ Completes(n) /\ Deliver(f)
    BY Zenon DEF Take, n, b, f
  <2>3. BreaksFrame(n, PacketLoss) => b = frame
    BY DEF BreaksFrame, Before, b
  <2>4. Deliver(f) => /\ frame' = <<>> /\ shown' = Append(shown, f)
                      /\ task' \in BOOLEAN /\ need' \in BOOLEAN
    BY Zenon DEF Deliver
  <2> QED  BY <2>1, <2>2, <2>3, <2>4, Zenon
\* What is shown now, and what was before.
<1>7. \/ UNCHANGED shown
      \/ /\ ~BreaksFrame(n, PacketLoss) /\ Completes(n)
         /\ Len(shown') = Len(shown) + 1 /\ shown' \in Seq(Seq(Place))
         /\ LastOf(shown') = f /\ shown'[Len(shown) + 1] = f /\ shown' # <<>>
         /\ \A i \in 1..Len(shown) : shown'[i] = shown[i]
  <2>1. SUFFICES ASSUME ~BreaksFrame(n, PacketLoss), Completes(n), shown' = Append(shown, f)
                 PROVE  /\ Len(shown') = Len(shown) + 1 /\ shown' \in Seq(Seq(Place))
                        /\ LastOf(shown') = f /\ shown'[Len(shown) + 1] = f
                        /\ shown' # <<>>
                        /\ \A i \in 1..Len(shown) : shown'[i] = shown[i]
    BY <1>6, Zenon
  <2>2. f \in Seq(Place) /\ shown \in Seq(Seq(Place)) /\ Len(shown) \in Nat
    BY <1>3, <1>4, <2>1
  <2>3. /\ Append(shown, f) \in Seq(Seq(Place)) /\ Append(shown, f) # <<>>
        /\ Len(Append(shown, f)) = Len(shown) + 1
        /\ Append(shown, f)[Len(shown) + 1] = f
        /\ \A i \in 1..Len(shown) : Append(shown, f)[i] = shown[i]
    BY <2>2, AppendProperties
  <2> QED  BY <2>1, <2>3 DEF LastOf
<1>8. ASSUME NEW s, Shown(s)
      PROVE  Shown(s)'
  <2>1. PICK i \in 1..Len(shown) : shown[i][1] = s
    BY <1>8 DEF Shown
  <2>2. Len(shown) \in Nat
    BY <1>3
  <2>3. i \in 1..Len(shown') /\ shown'[i] = shown[i]
    BY <1>7, <2>2
  <2> QED  BY <2>1, <2>3 DEF Shown
<1>9. TypeOK'
  <2>1. frame' \in Seq(Place) /\ shown' \in Seq(Seq(Place)) /\ broken' \in BOOLEAN
    <3>1. frame' \in Seq(Place)
      <4>1. CASE frame' = f /\ ~BreaksFrame(n, PacketLoss)
        BY <1>4, <4>1
      <4>2. frame \in Seq(Place) /\ <<>> \in Seq(Place)
        BY <1>3
      <4>3. \/ frame' = f /\ ~BreaksFrame(n, PacketLoss)
            \/ frame' = frame \/ frame' = <<>>
        BY <1>6, Zenon
      <4> QED  BY <4>1, <4>2, <4>3
    <3>2. shown' \in Seq(Seq(Place))
      BY <1>3, <1>7
    <3>3. broken' \in BOOLEAN
      BY <1>6, Zenon DEF BreaksFrame
    <3> QED  BY <3>1, <3>2, <3>3
  <2>2. need' \in BOOLEAN /\ task' \in BOOLEAN
    BY <1>6, Zenon DEF IInv, TypeOK
  <2>3. pc' \in {"idle", "deliver"}
    BY <1>1 DEF IInv, TypeOK
  <2>4. base' \in 0..NumPackets /\ sent' \in 0..NumPackets /\ net' \subseteq 0..(sent' - 1)
        /\ stored' \subseteq 0..(sent' - 1) /\ faults' \in 0..MaxFaults
    BY <1>1, <1>3, SourceAssumption DEF IInv, TypeOK
  <2> QED  BY <1>2, <2>1, <2>2, <2>3, <2>4, Zenon DEF TypeOK, Place
<1>10. WindowInv'
  BY <1>1, <1>3, SeqAssumption DEF WindowInv, Place
<1>11. FirstInv'
  BY <1>2, Zenon DEF FirstInv
<1>12. FrameInv'
  <2>1. CASE broken' /\ frame' = frame
    BY <2>1 DEF IInv, FrameInv, LastOf, Begins, Completes
  <2>2. CASE ~broken' /\ ~Completes(n) /\ frame' = f
    <3>1. /\ f \in Seq(Place) /\ f # <<>> /\ LastOf(f) = n /\ Begins(f[1])
          /\ \A i \in 1..(Len(f) - 1) : f[i + 1] = f[i] + 1 /\ ~Completes(f[i])
      BY <1>4, <1>6, <2>2
    <3>2. \A i \in 1..Len(f) : ~Completes(f[i])
      BY <2>2, <3>1 DEF LastOf
    <3> QED
      BY <1>1, <2>2, <3>1, <3>2 DEF FrameInv, LastOf, Begins, Completes
  <2>3. CASE ~broken' /\ Completes(n) /\ frame' = <<>>
    <3>1. Begins(base') \/ base' = NumPackets
      BY <1>1, <2>3 DEF Begins, Completes
    <3> QED  BY <2>3, <3>1 DEF FrameInv, Begins
  <2> QED  BY <1>6, <2>1, <2>2, <2>3
<1>13. ShownInv'
  <2>1. ShownInv /\ Len(shown) \in Nat /\ (shown # <<>> => Len(shown) \in 1..Len(shown))
    BY <1>3 DEF IInv
  <2>2. ASSUME shown # <<>>
        PROVE  LastOf(LastOf(shown)) \in Place
    <3>1. LastOf(shown) \in Seq(Place) /\ LastOf(shown) # <<>>
      BY <1>3, <2>1, <2>2 DEF ShownInv, FramesWhole, IsFrame, LastOf
    <3> QED  BY <3>1 DEF LastOf
  <2>3. CASE UNCHANGED shown
    <3>1. FramesWhole'
      BY <2>1, <2>3 DEF ShownInv, FramesWhole, IsFrame, LastOf, Begins, Completes
    <3>2. ASSUME shown # <<>>
          PROVE  LastOf(LastOf(shown)) < base'
      BY <1>1, <1>3, <2>1, <2>2, <3>2 DEF ShownInv, Place
    <3>3. ASSUME shown # <<>>, frame' # <<>>
          PROVE  LastOf(LastOf(shown)) < frame'[1]
      <4>1. CASE frame' = frame
        BY <2>1, <3>3, <4>1 DEF ShownInv
      <4>2. CASE frame' = f /\ ~BreaksFrame(n, PacketLoss)
        BY <1>4, <3>3, <4>2
      <4> QED  BY <1>6, <3>3, <4>1, <4>2
    <3> QED  BY <2>3, <3>1, <3>2, <3>3 DEF ShownInv, LastOf
  <2>4. CASE /\ ~BreaksFrame(n, PacketLoss) /\ Completes(n)
             /\ Len(shown') = Len(shown) + 1 /\ shown' \in Seq(Seq(Place))
             /\ LastOf(shown') = f /\ shown'[Len(shown) + 1] = f /\ shown' # <<>>
             /\ \A i \in 1..Len(shown) : shown'[i] = shown[i]
    <3>1. IsFrame(f) /\ LastOf(f) = n /\ (shown # <<>> => LastOf(LastOf(shown)) < f[1])
      BY <1>4, <2>4 DEF IsFrame
    <3>2. ASSUME NEW i \in 1..Len(shown')
          PROVE  IsFrame(shown'[i])
      <4>1. i \in 1..Len(shown) \/ i = Len(shown) + 1
        BY <2>1, <2>4
      <4> QED  BY <2>1, <2>4, <3>1, <4>1 DEF ShownInv, FramesWhole
    <3>3. ASSUME NEW i \in 1..(Len(shown') - 1)
          PROVE  LastOf(shown'[i]) < shown'[i + 1][1]
      <4>1. i \in 1..Len(shown) /\ shown'[i] = shown[i] /\ shown # <<>>
        BY <1>3, <2>1, <2>4
      <4>2. CASE i = Len(shown)
        BY <2>4, <3>1, <4>1, <4>2 DEF LastOf
      <4>3. CASE i # Len(shown)
        <5>1. i \in 1..(Len(shown) - 1) /\ shown'[i + 1] = shown[i + 1]
          BY <2>1, <2>4, <4>1, <4>3
        <5> QED  BY <2>1, <4>1, <5>1 DEF ShownInv, FramesWhole
      <4> QED  BY <4>2, <4>3
    <3>4. FramesWhole'
      BY <3>2, <3>3 DEF FramesWhole, IsFrame, LastOf, Begins, Completes
    <3>5. frame' = <<>>
      BY <1>6, <2>4
    <3>6. LastOf(LastOf(shown')) < base'
      BY <1>1, <1>3, <2>4, <3>1 DEF Place
    <3> QED  BY <3>4, <3>5, <3>6 DEF ShownInv, LastOf
  <2> QED  BY <1>7, <2>3, <2>4
<1>14. StoredInv'
  <2>1. Queued' \subseteq stored' /\ stored' \ Queued' \subseteq 0..(base' - 1)
    <3>1. Queued \subseteq stored /\ stored \ Queued \subseteq 0..(base - 1)
      BY DEF IInv, StoredInv
    <3> QED  BY <1>1, <1>2, <1>3, <3>1 DEF Place
  <2>2. queue' # <<>> => ~queue'[1].first
    <3>1. queue' # <<>> => 1 \in 1..Len(queue')
      BY <1>2 DEF BufferTypeOK
    <3> QED  BY <1>2, <3>1
  <2>3. ASSUME NEW s \in FrameStarts, s < base', s..(base' - 1) \subseteq stored',
               base' - 1 \in FrameOf(s)
        PROVE  IF Completes(base' - 1) THEN Shown(s)'
                                       ELSE ~broken' /\ frame' # <<>> /\ frame'[1] = s
    <3>1. base' - 1 = n /\ stored' = stored
      BY <1>1, <1>3 DEF Place
    <3>2. ~BreaksFrame(n, PacketLoss) /\ f[1] = s
      BY <1>5, <2>3, <3>1
    <3>3. CASE Completes(n)
      <4>1. shown' = Append(shown, f)
        BY <1>6, <3>2, <3>3
      <4>2. shown'[Len(shown) + 1] = f /\ Len(shown) + 1 \in 1..Len(shown')
        BY <1>3, <1>4, <3>2, <4>1
      <4> QED  BY <3>1, <3>2, <3>3, <4>2 DEF Shown
    <3>4. CASE ~Completes(n)
      BY <1>4, <1>6, <3>1, <3>2, <3>4
    <3> QED  BY <3>3, <3>4
  <2> QED  BY <1>2, <2>1, <2>2, <2>3 DEF StoredInv, Completes, FrameOf, Begins
<1>15. NothingWasted'
  <2> SUFFICES ASSUME NEW s \in FrameStarts, FrameOf(s) \subseteq stored' \ Queued'
               PROVE  Shown(s)'
    BY DEF NothingWasted, FrameOf, Begins
  <2>1. CASE FrameOf(s) \subseteq stored \ Queued
    BY <1>8, <2>1 DEF IInv, NothingWasted
  <2>2. CASE ~(FrameOf(s) \subseteq stored \ Queued)
    <3>1. n \in FrameOf(s) /\ s \in Nat /\ s <= n /\ s..n \subseteq FrameOf(s)
      <4>1. n \in FrameOf(s)
        BY <1>1, <1>2, <2>2
      <4> QED  BY <1>3, <4>1 DEF FrameOf, Place
    <3>2. s..n \subseteq stored
      BY <1>1, <3>1
    <3>3. ~BreaksFrame(n, PacketLoss) /\ f[1] = s
      BY <1>5, <3>1, <3>2
    <3>4. Completes(n)
      <4>1. SUFFICES ASSUME n + 1 \notin FrameStarts, n + 1 # NumPackets
                     PROVE  FALSE
        BY DEF Completes
      <4>2. n + 1 \in FrameOf(s)
        BY <1>3, <3>1, <4>1 DEF FrameOf, Begins, Place
      <4>3. n + 1 \in 0..(base' - 1)
        BY <1>14, <4>2 DEF StoredInv
      <4> QED  BY <1>1, <1>3, <4>3 DEF Place
    <3>5. shown' = Append(shown, f)
      BY <1>6, <3>3, <3>4
    <3>6. shown'[Len(shown) + 1] = f /\ Len(shown) + 1 \in 1..Len(shown')
      BY <1>3, <1>4, <3>3, <3>5
    <3> QED  BY <3>3, <3>6 DEF Shown
  <2> QED  BY <2>1, <2>2
<1> QED  BY <1>2, <1>9, <1>10, <1>11, <1>12, <1>13, <1>14, <1>15 DEF IInv

-----------------------------------------------------------------------------
\* The other steps, and the theorems.

LEMMA NextIInv ==
  ASSUME IInv, [Next]_vars
  PROVE  IInv'
\* What is known of the buffer, the frames and what was accepted does not
\* depend on the network or on whose turn it is.
<1>1. ASSUME UNCHANGED <<bufferVars, frame, broken, base, stored, shown>>
      PROVE  /\ BufferTypeOK' /\ QueueOrdered' /\ FirstInv' /\ SavedOnce'
             /\ FrameInv' /\ ShownInv' /\ StoredInv' /\ NothingWasted'
  <2>1. BufferTypeOK'
    BY <1>1 DEF IInv, TypeOK, BufferTypeOK, bufferVars
  <2>2. QueueOrdered' /\ FirstInv' /\ SavedOnce'
    BY <1>1 DEF IInv, QueueInv, QueueOrdered, FirstInv, SavedOnce, bufferVars
  <2>3. FrameInv' /\ ShownInv'
    BY <1>1 DEF IInv, FrameInv, ShownInv, FramesWhole, IsFrame, LastOf, Begins,
                Completes, bufferVars
  <2>4. StoredInv' /\ NothingWasted'
    BY <1>1 DEF IInv, StoredInv, NothingWasted, Queued, FrameOf, Shown, Begins,
                Completes, bufferVars
  <2> QED  BY <2>1, <2>2, <2>3, <2>4
<1>2. /\ sent \in 0..NumPackets /\ NumPackets \in Nat /\ net \subseteq 0..(sent - 1)
      /\ base \in 0..NumPackets /\ stored \subseteq 0..(sent - 1)
      /\ faults \in 0..MaxFaults /\ MaxFaults \in Nat /\ base <= sent
      /\ \A m \in net : sent - m < Half
      /\ seenFirst => sent - base <= Half
      /\ \A i \in 1..Len(queue) : queue[i].n < sent /\ queue[i].n \in Nat
      /\ Half \in Nat \ {0, 1}
  <2>1. ASSUME NEW i \in 1..Len(queue)
        PROVE  queue[i].n \in Nat
    <3>1. queue[i] \in Packets
      BY DEF IInv, TypeOK, BufferTypeOK
    <3> QED  BY <3>1 DEF Packets
  <2> QED  BY <2>1, SourceAssumption, SeqAssumption DEF IInv, TypeOK, WindowInv, QueueInv
<1>3. CASE Send
  <2>1. /\ UNCHANGED <<bufferVars, frame, broken, base, stored, shown>>
        /\ UNCHANGED <<pc, need, task, faults, queue, seenFirst>>
        /\ sent' = sent + 1 /\ net' = net \cup {sent} /\ sent < NumPackets
        /\ \A m \in net : sent + 1 - m < Half
        /\ seenFirst => sent - base < Half
    BY <1>3 DEF Send, bufferVars, sourceVars, historyVars
  <2>2. TypeOK'
    BY <1>1, <1>2, <2>1 DEF IInv, TypeOK
  <2>3. WindowInv' /\ (\A i \in 1..Len(queue) : queue[i].n < sent')
    BY <1>2, <2>1 DEF WindowInv
  <2> QED  BY <1>1, <2>1, <2>2, <2>3 DEF IInv, QueueInv
<1>4. ASSUME UNCHANGED <<bufferVars, frame, broken, base, stored, shown, sent>>,
             net' \subseteq net, TypeOK'
      PROVE  IInv'
  <2>1. UNCHANGED <<queue, seenFirst>>
    BY <1>4 DEF bufferVars
  <2>2. WindowInv' /\ (\A i \in 1..Len(queue) : queue[i].n < sent')
    BY <1>2, <1>4, <2>1 DEF WindowInv
  <2> QED  BY <1>1, <1>4, <2>1, <2>2 DEF IInv, QueueInv
<1>5. CASE Lose
  <2>1. /\ UNCHANGED <<bufferVars, frame, broken, base, stored, shown, sent>>
        /\ UNCHANGED <<pc, need, task>>
        /\ net' \subseteq net /\ faults' = faults + 1 /\ faults < MaxFaults
    BY <1>5 DEF Lose, Fault, bufferVars, sourceVars, historyVars
  <2>2. TypeOK'
    BY <1>1, <1>2, <2>1 DEF IInv, TypeOK
  <2> QED  BY <1>4, <2>1, <2>2
<1>6. ASSUME NEW n \in net, Receive(n)
      PROVE  IInv'
  <2>1. /\ StorePacket(n)
        /\ base' = (IF seenFirst THEN base ELSE n)
        /\ stored' = (IF Ignored(n) THEN stored ELSE stored \cup {n})
        /\ pc' = "deliver" /\ UNCHANGED <<sent, need, task, frame, broken, shown>>
        /\ net' \subseteq net
        /\ faults' \in {faults, faults + 1} /\ (faults' = faults \/ faults < MaxFaults)
    BY <1>6 DEF Receive, Fault
  <2>2. n \in 0..(sent - 1) /\ base' \in 0..NumPackets /\ faults' \in 0..MaxFaults
    BY <1>2, <2>1
  <2>3. CASE Ignored(n)
    <3>1. seenFirst
      <4>1. ~seenFirst => FollowsTail(n)
        BY DEF IInv, FirstInv, FollowsTail
      <4> QED  BY <2>3, <4>1 DEF Ignored
    <3>2. UNCHANGED bufferVars
      BY <2>1, <2>3, Zenon DEF StorePacket
    <3>3. UNCHANGED <<base, stored>>
      BY <2>1, <2>3, <3>1
    <3>4. TypeOK'
      BY <1>1, <1>2, <2>1, <2>2, <3>2, <3>3 DEF IInv, TypeOK
    <3> QED  BY <1>4, <2>1, <3>2, <3>3, <3>4
  <2>4. CASE ~Ignored(n)
    <3>1. /\ BufferTypeOK' /\ QueueInv' /\ SavedOnce'
          /\ \A i \in 1..Len(queue') : queue'[i].first => i = 1 /\ queue'[1].n = base'
          /\ queue' # <<>> /\ seenFirst'
          /\ queue # <<>> /\ queue[1].first => queue'[1].first
          /\ ~seenFirst => queue'[1].first
          /\ seenFirst /\ queue'[1].first => queue # <<>> /\ queue[1].first
          /\ Queued' = Queued \cup {n}
          /\ seenFirst => base <= n
      BY <2>1, <2>4, Stored
    <3>2. stored' = stored \cup {n}
      BY <2>1, <2>4
    <3>3. ~seenFirst => /\ queue = <<>> /\ frame = <<>> /\ shown = <<>> /\ stored = {}
                        /\ base' = n
      BY <2>1 DEF IInv, FirstInv, StoredInv
    <3>4. seenFirst => base' = base
      BY <2>1
    <3>5. TypeOK'
      <4>1. stored' \subseteq 0..(sent' - 1) /\ net' \subseteq 0..(sent' - 1)
        BY <1>2, <2>1, <2>2, <3>2
      <4> QED  BY <1>2, <2>1, <2>2, <3>1, <4>1 DEF IInv, TypeOK
    <3>6. WindowInv'
      BY <1>2, <2>1, <2>2, <3>3, <3>4 DEF WindowInv
    <3>7. FirstInv'
      BY <3>1, Zenon DEF FirstInv
    <3>8. FrameInv'
      BY <2>1, <3>1, <3>3, <3>4 DEF IInv, FrameInv, LastOf, Begins, Completes
    <3>9. ShownInv'
      BY <2>1, <3>3, <3>4 DEF IInv, ShownInv, FramesWhole, IsFrame, LastOf, Begins,
                              Completes
    <3>10. StoredInv'
      <4>1. Queued' \subseteq stored' /\ stored' \ Queued' \subseteq 0..(base' - 1)
        BY <3>1, <3>2, <3>3, <3>4 DEF IInv, StoredInv
      <4>2. ASSUME queue'[1].first, NEW m \in stored'
            PROVE  base' <= m
        BY <1>2, <2>2, <3>1, <3>2, <3>3, <3>4, <4>2 DEF IInv, StoredInv
      <4>3. ASSUME NEW s \in FrameStarts, s < base', s..(base' - 1) \subseteq stored',
                   base' - 1 \in FrameOf(s)
            PROVE  IF Completes(base' - 1) THEN Shown(s)'
                                           ELSE ~broken' /\ frame' # <<>> /\ frame'[1] = s
        <5>1. s \in Nat
          BY SourceAssumption
        <5>2. seenFirst
          <6>1. SUFFICES ASSUME ~seenFirst
                         PROVE  FALSE
            OBVIOUS
          <6>2. n - 1 \in s..(n - 1) /\ stored' = {n}
            BY <2>2, <3>2, <3>3, <4>3, <5>1, <6>1
          <6> QED  BY <2>2, <3>3, <4>3, <6>1, <6>2
        <5>3. s < base /\ s..(base - 1) \subseteq stored /\ base - 1 \in FrameOf(s)
          BY <1>2, <2>2, <3>1, <3>2, <3>4, <4>3, <5>1, <5>2
        <5>4. IF Completes(base - 1) THEN Shown(s)
                                     ELSE ~broken /\ frame # <<>> /\ frame[1] = s
          BY <5>3 DEF IInv, StoredInv
        <5> QED  BY <2>1, <3>4, <5>2, <5>4 DEF Shown
      <4> QED  BY <3>1, <4>1, <4>2, <4>3 DEF StoredInv, FrameOf, Completes, Begins
    <3>11. NothingWasted'
      <4>1. stored' \ Queued' \subseteq stored \ Queued
        BY <3>1, <3>2
      <4> QED  BY <2>1, <4>1 DEF IInv, NothingWasted, FrameOf, Shown, Begins
    <3> QED  BY <3>1, <3>5, <3>6, <3>7, <3>8, <3>9, <3>10, <3>11 DEF IInv
  <2> QED  BY <2>3, <2>4
<1>7. CASE Take
  BY <1>7, TakeStep
<1>8. CASE Return \/ AfterGetting
  <2>1. /\ UNCHANGED <<bufferVars, frame, broken, base, stored, shown, sent, net, faults>>
        /\ pc' \in {"idle", "deliver"} /\ need' \in BOOLEAN /\ task' \in BOOLEAN
    <3>1. need \in BOOLEAN /\ task \in BOOLEAN
      BY DEF IInv, TypeOK
    <3> QED  BY <1>8, <3>1, Zenon DEF Return, AfterGetting, bufferVars, netVars, historyVars
  <2>2. TypeOK'
    BY <1>1, <1>2, <2>1 DEF IInv, TypeOK
  <2> QED  BY <1>4, <2>1, <2>2
<1>9. CASE UNCHANGED vars
  <2>1. /\ UNCHANGED <<bufferVars, frame, broken, base, stored, shown, sent, net>>
        /\ UNCHANGED <<pc, need, task, faults>>
    BY <1>9 DEF vars, bufferVars, sourceVars, netVars, historyVars
  <2>2. TypeOK'
    BY <1>1, <1>2, <2>1 DEF IInv, TypeOK
  <2> QED  BY <1>4, <2>1, <2>2
<1> QED  BY <1>3, <1>5, <1>6, <1>7, <1>8, <1>9 DEF Next

LEMMA InvariantIInv == Spec => []IInv
<1>1. Init => IInv
  <2> SUFFICES ASSUME Init
               PROVE  IInv
    OBVIOUS
  <2>1. /\ queue = <<>> /\ frame = <<>> /\ shown = <<>> /\ stored = {} /\ net = {}
        /\ base = 0 /\ sent = 0 /\ faults = 0 /\ seenFirst = FALSE /\ savedFree = TRUE
        /\ nextExpected = 0 /\ pc = "idle" /\ need = TRUE /\ task = FALSE
        /\ broken = FALSE
    BY DEF Init, BufferInit
  <2>2. TypeOK
    <3>1. <<>> \in Seq(Packets) /\ <<>> \in Seq(Place) /\ <<>> \in Seq(Seq(Place))
      OBVIOUS
    <3>2. need \in BOOLEAN /\ task \in BOOLEAN /\ broken \in BOOLEAN
          /\ seenFirst \in BOOLEAN /\ savedFree \in BOOLEAN
          /\ pc \in {"idle", "deliver"}
      BY <2>1
    <3>3. /\ nextExpected \in 0..(2 * Half - 1) /\ sent \in 0..NumPackets
          /\ base \in 0..NumPackets /\ faults \in 0..MaxFaults
          /\ net \subseteq 0..(sent - 1) /\ stored \subseteq 0..(sent - 1)
      BY <2>1, SourceAssumption, SeqAssumption
    <3>4. /\ queue \in Seq(Packets) /\ frame \in Seq(Place)
          /\ shown \in Seq(Seq(Place))
      BY <2>1, <3>1
    <3> QED  BY <3>2, <3>3, <3>4 DEF TypeOK, BufferTypeOK, Place
  <2>3. WindowInv /\ QueueInv /\ FirstInv /\ SavedOnce
    BY <2>1 DEF WindowInv, QueueInv, QueueOrdered, FirstInv, SavedOnce
  <2>4. FrameInv /\ ShownInv
    BY <2>1 DEF FrameInv, ShownInv, FramesWhole
  <2>5. StoredInv
    BY <2>1, SourceAssumption DEF StoredInv, Queued
  <2>6. NothingWasted
    <3>1. ASSUME NEW s \in FrameStarts
          PROVE  s \in FrameOf(s)
      BY SourceAssumption DEF FrameOf
    <3> QED  BY <2>1, <3>1 DEF NothingWasted
  <2> QED  BY <2>2, <2>3, <2>4, <2>5, <2>6 DEF IInv
<1>2. IInv /\ [Next]_vars => IInv'
  BY NextIInv
<1> QED  BY <1>1, <1>2, PTL DEF Spec

\* Every variable keeps its type: places stay below what was sent, numbers
\* below the size of the sequence space.
THEOREM TypeCorrect == Spec => []TypeOK
<1>1. IInv => TypeOK
  BY DEF IInv
<1> QED  BY <1>1, InvariantIInv, PTL

\* The queue of the reordering buffer is in the sender's order and holds
\* nothing behind the expected packet, although storePacket compares 16-bit
\* numbers only and the first packet to arrive may be any.
THEOREM QueueStaysOrdered == Spec => []QueueOrdered
<1>1. IInv => QueueOrdered
  BY DEF IInv, QueueInv
<1> QED  BY <1>1, InvariantIInv, PTL

\* The buffer that freePacket keeps for reuse is never handed out by
\* getFreePacket while a queued packet is in it.
THEOREM SavedKeptOnce == Spec => []SavedOnce
<1>1. IInv => SavedOnce
  BY DEF IInv
<1> QED  BY <1>1, InvariantIInv, PTL

\* Whatever the network loses, repeats or reorders and however often a packet
\* waits for too long, doGetNextFrame1 gives the sink whole frames only, each
\* once and in the sender's order.
THEOREM FramesStayWhole == Spec => []FramesWhole
<1>1. IInv => FramesWhole
  BY DEF IInv, ShownInv
<1> QED  BY <1>1, InvariantIInv, PTL

\* A frame all of whose packets were accepted reaches the sink: doGetNextFrame1
\* does not throw it away because of what was lost before or after it.
THEOREM NothingIsWasted == Spec => []NothingWasted
<1>1. IInv => NothingWasted
  BY DEF IInv
<1> QED  BY <1>1, InvariantIInv, PTL
=============================================================================
