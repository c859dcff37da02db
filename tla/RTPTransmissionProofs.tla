----------------------- MODULE RTPTransmissionProofs -----------------------
(***************************************************************************)
(* Proofs about RTPTransmission, for any sizes of packets, of the memory   *)
(* and of frames, any first sequence number, any number of sequence        *)
(* numbers, of packets under way, of faults and of reports.                *)
(***************************************************************************)
EXTENDS RTPTransmission, LeastElements, FiniteSetTheorems, SequenceTheorems, TLAPS

-----------------------------------------------------------------------------
\* The inductive invariant.

\* Where the packet ends that is being built: its headers are in it, and one
\* to which a frame may be added has room for the frame's own header.
PacketInv ==
  /\ step # "none" => playing
  /\ start + MAX <= LIMIT
  /\ step = "none" /\ ~asked => off = 0
  /\ step = "pack" => off \in HEADERS..(MAX - 1) /\ used <= FrameLimit
  /\ asked \/ step = "use" =>
       off \in (HEADERS + FRAMEHEADER)..MAX /\ used <= FrameLimit
  /\ step = "use" => start + off + size <= LIMIT
  /\ step = "send" => off >= HEADERS + FRAMEHEADER

\* Overflow data lies behind the packet when that is sent, and behind the
\* headers of the next one, until this takes it in as its first frame.
OverflowInv ==
  overSize > 0 =>
    /\ ~asked /\ step # "use"
    /\ overOffset >= HEADERS + FRAMEHEADER
    /\ step = "pack" => off = HEADERS
    /\ step = "send" => overOffset = off

\* Of the packets sent only the last InFlight are under way, and of those that
\* neither are under way nor have arrived there are no more than faults.
Missing == (0..(seqNo - 1)) \ (net \cup received)
FlightInv ==
  /\ \A n \in net: seqNo - n <= InFlight
  /\ Cardinality(Missing) <= faults

\* The receiver's counts.
CountsInv ==
  /\ seen <=> received # {}
  /\ seen <=> total > 0
  /\ ~seen => highest = 0
  /\ sinceReset >= Cardinality(received \ reported)
  /\ reports > 0 => reported # {}

\* The receiver's highest and lowest numbers, and the highest at its last
\* report, as extended from the first packet that arrived, a.
ExtendedInv ==
  received # {} =>
    \E a \in received:
      /\ highest = TrueNumber(Max(received), a)
      /\ base = TrueNumber(Min(received), a)
      /\ reports > 0 => lastReset = TrueNumber(Max(reported), a)

LossInv ==
  reports > 1 /\ fraction > 0 =>
    \E n \in Min(reported)..Max(reported): n \notin reported

IInv ==
  /\ TypeOK
  /\ PacketInv /\ OverflowInv
  /\ FlightInv /\ CountsInv /\ ExtendedInv /\ LossInv

-----------------------------------------------------------------------------
\* The sink: the packet, the overflow data and the memory.

LEMMA FrameHeaderSize == FRAMEHEADER \in {0, 1}
  BY DEF FRAMEHEADER

LEMMA WrittenDomain ==
  ASSUME NEW at, NEW units
  PROVE  DOMAIN Written(at, units) = DOMAIN buf
  BY DEF Written

\* The parts of SinkTypeOK.
Flags ==
  /\ several \in BOOLEAN /\ playing \in BOOLEAN
  /\ due \in BOOLEAN /\ asked \in BOOLEAN
  /\ noneLeft \in BOOLEAN /\ begins \in BOOLEAN /\ ends \in BOOLEAN
  /\ cut \in BOOLEAN
Waits == ~(due /\ asked) /\ (due \/ asked => playing /\ step = "none")
Numbers ==
  /\ step \in {"none", "pack", "use", "send"}
  /\ size \in Nat /\ used \in 0..(FrameLimit + 1) /\ fragOffset \in Nat
  /\ seqNo \in Nat /\ frames \in Seq(Nat) /\ pauses \in 0..MaxPauses
  /\ step = "send" => off <= MAX

LEMMA PartsOfType ==
  /\ SinkTypeOK <=> BufferTypeOK /\ Flags /\ Waits /\ Numbers
  /\ SinkTypeOK' <=> BufferTypeOK' /\ Flags' /\ Waits' /\ Numbers'
  BY Zenon DEF SinkTypeOK, Flags, Waits, Numbers

\* What every step of the sink has to keep.
SinkInv == SinkTypeOK /\ PacketInv /\ OverflowInv

LEMMA SinkInitInv ==
  ASSUME SinkInit PROVE SinkInv
<1>1. BufferTypeOK /\ frames \in Seq(Nat)
  BY PacketAssumption DEF SinkInit, BufferInit, BufferTypeOK
<1>2. PacketInv /\ OverflowInv /\ Numbers
  <2> USE HeaderAssumption, FrameAssumption, PacketAssumption
  <2>1. off = 0 /\ start = 0 /\ overSize = 0 /\ step = "none" /\ asked = FALSE
    BY DEF SinkInit, BufferInit
  <2>2. PacketInv
    BY <2>1 DEF PacketInv
  <2>3. OverflowInv
    BY <2>1 DEF OverflowInv
  <2>4. Numbers
    BY <1>1 DEF SinkInit, Numbers
  <2> QED  BY <2>2, <2>3, <2>4
<1>3. Flags /\ Waits
  BY Zenon DEF SinkInit, Flags, Waits
<1> QED  BY <1>1, <1>2, <1>3, PartsOfType DEF SinkInv

LEMMA SinkSame ==
  ASSUME SinkInv, UNCHANGED sinkAndBuffer PROVE SinkInv'
<1>1. /\ buf' = buf /\ start' = start /\ off' = off
      /\ overOffset' = overOffset /\ overSize' = overSize
      /\ several' = several /\ playing' = playing /\ due' = due
      /\ asked' = asked /\ step' = step /\ size' = size /\ used' = used
      /\ fragOffset' = fragOffset /\ noneLeft' = noneLeft
      /\ begins' = begins /\ ends' = ends /\ seqNo' = seqNo
      /\ frames' = frames /\ cut' = cut /\ pauses' = pauses
  BY DEF sinkAndBuffer, bufferVars, sinkVars, packVars, streamVars
<1>2. BufferTypeOK' /\ Flags' /\ Waits' /\ Numbers'
  BY <1>1, PartsOfType, Zenon
  DEF SinkInv, BufferTypeOK, Flags, Waits, Numbers
<1>3. PacketInv' /\ OverflowInv'
  BY <1>1, Zenon DEF SinkInv, PacketInv, OverflowInv, FRAMEHEADER
<1> QED  BY <1>2, <1>3, PartsOfType DEF SinkInv

LEMMA BuildInv ==
  ASSUME SinkInv, StartPlaying \/ SendNext PROVE SinkInv'
<1> USE HeaderAssumption, FrameAssumption, PacketAssumption DEF SinkInv
<1>1. /\ buf' = Written(off, [i \in 1..HEADERS |-> Header])
      /\ off' = off + HEADERS
      /\ noneLeft' = FALSE /\ used' = 0
      /\ begins' = FALSE /\ ends' = FALSE
      /\ step' = "pack"
      /\ start' = start /\ overOffset' = overOffset /\ overSize' = overSize
      /\ several' = several /\ asked' = asked /\ size' = size
      /\ fragOffset' = fragOffset /\ seqNo' = seqNo
      /\ frames' = frames /\ pauses' = pauses /\ cut' = cut
  BY DEF StartPlaying, SendNext, BuildPacket, streamVars
<1>2. /\ off = 0 /\ asked = FALSE
      /\ playing' = TRUE /\ due' = FALSE
  BY DEF StartPlaying, SendNext, SinkTypeOK, PacketInv
<1>3. FRAMEHEADER' = FRAMEHEADER /\ FRAMEHEADER \in {0, 1}
  BY <1>1, FrameHeaderSize DEF FRAMEHEADER
<1>4. BufferTypeOK' /\ PacketInv'
  BY <1>1, <1>2, <1>3, WrittenDomain DEF SinkTypeOK, BufferTypeOK, PacketInv
<1>5. OverflowInv'
  BY <1>1, <1>2, <1>3 DEF OverflowInv
<1>6. Flags' /\ Waits'
  BY <1>1, <1>2, Zenon DEF SinkTypeOK, Flags, Waits
<1>7. Numbers'
  BY <1>1 DEF SinkTypeOK, Numbers
<1> QED  BY <1>4, <1>5, <1>6, <1>7, PartsOfType

LEMMA StopInv ==
  ASSUME SinkInv, StopPlaying PROVE SinkInv'
<1> USE HeaderAssumption, FrameAssumption, PacketAssumption DEF SinkInv
<1>1. /\ playing' = FALSE /\ due' = FALSE /\ asked' = FALSE
      /\ start' = 0 /\ off' = 0 /\ overOffset' = 0 /\ overSize' = 0
      /\ cut' \in BOOLEAN /\ buf' = buf /\ several' = several
      /\ step = "none" /\ step' = step /\ size' = size /\ used' = used
      /\ fragOffset' = fragOffset /\ noneLeft' = noneLeft /\ begins' = begins
      /\ ends' = ends /\ seqNo' = seqNo /\ frames' = frames
      /\ pauses < MaxPauses /\ pauses' = pauses + 1
  BY DEF StopPlaying, packVars, SinkTypeOK
<1>2. BufferTypeOK' /\ PacketInv' /\ OverflowInv'
  BY <1>1 DEF SinkTypeOK, BufferTypeOK, PacketInv, OverflowInv
<1>3. Flags' /\ Waits'
  BY <1>1, Zenon DEF SinkTypeOK, Flags, Waits
<1>4. Numbers'
  BY <1>1 DEF SinkTypeOK, Numbers
<1> QED  BY <1>2, <1>3, <1>4, PartsOfType

LEMMA PackFrameInv ==
  ASSUME SinkInv, PackFrame PROVE SinkInv'
<1> USE HeaderAssumption, FrameAssumption, PacketAssumption DEF SinkInv
<1>1. /\ step = "pack" /\ off' = off + FRAMEHEADER
      /\ start' = start /\ several' = several /\ playing' = playing
      /\ due' = due /\ used' = used /\ fragOffset' = fragOffset
      /\ noneLeft' = noneLeft /\ begins' = begins /\ ends' = ends
      /\ seqNo' = seqNo /\ frames' = frames /\ pauses' = pauses /\ cut' = cut
  BY DEF PackFrame, streamVars
<1>2. FRAMEHEADER' = FRAMEHEADER /\ FRAMEHEADER \in {0, 1}
  BY <1>1, FrameHeaderSize DEF FRAMEHEADER
<1>3. playing /\ due = FALSE /\ asked = FALSE
  BY <1>1 DEF SinkTypeOK, PacketInv
<1>4. off \in HEADERS..(MAX - 1) /\ used <= FrameLimit
  BY <1>1 DEF PacketInv
<1>5. CASE overSize > 0
  <2>1. /\ buf' = Moved(off + FRAMEHEADER) /\ size' = overSize
        /\ overOffset' = 0 /\ overSize' = 0 /\ step' = "use" /\ asked' = FALSE
    BY <1>3, <1>5 DEF PackFrame
  <2>2. off = HEADERS /\ overOffset >= HEADERS + FRAMEHEADER
    BY <1>1, <1>5 DEF OverflowInv
  <2>3. DOMAIN buf' = DOMAIN buf
    BY <2>1, WrittenDomain DEF Moved
  <2>4. BufferTypeOK' /\ PacketInv' /\ OverflowInv'
    BY <1>1, <1>2, <1>3, <1>4, <1>5, <2>1, <2>2, <2>3
    DEF SinkTypeOK, BufferTypeOK, PacketInv, OverflowInv
  <2>5. SinkTypeOK'
    BY <1>1, <1>3, <2>1, <2>4, <1>5 DEF SinkTypeOK, BufferTypeOK
  <2> QED  BY <2>4, <2>5
<1>6. CASE ~(overSize > 0)
  <2>1. /\ asked' = TRUE /\ step' = "none" /\ buf' = buf /\ size' = size
        /\ overOffset' = overOffset /\ overSize' = overSize
    BY <1>6 DEF PackFrame
  <2>2. BufferTypeOK' /\ PacketInv' /\ OverflowInv'
    BY <1>1, <1>2, <1>3, <1>4, <1>6, <2>1
    DEF SinkTypeOK, BufferTypeOK, PacketInv, OverflowInv
  <2>3. SinkTypeOK'
    BY <1>1, <1>3, <2>1, <2>2 DEF SinkTypeOK
  <2> QED  BY <2>2, <2>3
<1> QED  BY <1>5, <1>6

\* Steps that leave the buffer's offsets alone until the sink has its frame.
LEMMA GotFrameInv ==
  ASSUME SinkInv, AfterGettingFrame PROVE SinkInv'
<1> USE HeaderAssumption, FrameAssumption, PacketAssumption DEF SinkInv
<1>1. PICK n \in Sizes:
        LET got == IF n < BytesAvailable THEN n ELSE BytesAvailable
        IN  /\ frames' = Append(frames, n)
            /\ size' = got
            /\ buf' = Written(off, [i \in 1..got |-> Data(Len(frames) + 1, i)])
  BY DEF AfterGettingFrame
<1>2. /\ asked /\ asked' = FALSE /\ step' = "use" /\ start' = start
      /\ off' = off /\ overOffset' = overOffset /\ overSize' = overSize
      /\ several' = several /\ playing' = playing /\ due' = due
      /\ used' = used /\ fragOffset' = fragOffset /\ noneLeft' = noneLeft
      /\ begins' = begins /\ ends' = ends /\ seqNo' = seqNo
      /\ cut' = cut /\ pauses' = pauses
  BY DEF AfterGettingFrame
<1>3. playing /\ due = FALSE
  BY <1>2 DEF SinkTypeOK
<1>4. ~(overSize > 0) /\ overSize = 0
  BY <1>2 DEF OverflowInv, SinkTypeOK, BufferTypeOK
<1>5. size' \in Nat /\ start + off + size' <= LIMIT
  <2>1. n \in Nat /\ BytesAvailable = LIMIT - (start + off)
    BY DEF BytesAvailable
  <2>2. BytesAvailable \in Nat
    BY <2>1 DEF SinkTypeOK, BufferTypeOK
  <2>3. size' = IF n < BytesAvailable THEN n ELSE BytesAvailable
    BY <1>1
  <2> QED  BY <2>1, <2>2, <2>3 DEF SinkTypeOK, BufferTypeOK
<1>6. frames' \in Seq(Nat)
  BY <1>1 DEF SinkTypeOK
<1>7. DOMAIN buf' = DOMAIN buf
  BY <1>1, WrittenDomain
<1>8. FRAMEHEADER' = FRAMEHEADER /\ FRAMEHEADER \in {0, 1}
  BY <1>2, FrameHeaderSize DEF FRAMEHEADER
<1>9. off \in (HEADERS + FRAMEHEADER)..MAX /\ used <= FrameLimit
  BY <1>2 DEF PacketInv
<1>10. BufferTypeOK' /\ OverflowInv'
  BY <1>2, <1>4, <1>7 DEF SinkTypeOK, BufferTypeOK, OverflowInv
<1>11. PacketInv'
  BY <1>2, <1>3, <1>5, <1>8, <1>9 DEF PacketInv
<1>12. Flags' /\ Waits'
  BY <1>2, <1>3, Zenon DEF SinkTypeOK, Flags, Waits
<1>13. Numbers'
  BY <1>2, <1>5, <1>6 DEF SinkTypeOK, Numbers
<1> QED  BY <1>10, <1>11, <1>12, <1>13, PartsOfType

LEMMA ClosureInv ==
  ASSUME SinkInv, OurHandleClosure PROVE SinkInv'
<1> USE HeaderAssumption, FrameAssumption, PacketAssumption DEF SinkInv
<1>1. /\ asked /\ asked' = FALSE /\ noneLeft' = TRUE /\ step' = "send"
      /\ buf' = buf /\ start' = start /\ off' = off
      /\ overOffset' = overOffset /\ overSize' = overSize
      /\ several' = several /\ playing' = playing /\ due' = due
      /\ size' = size /\ used' = used /\ fragOffset' = fragOffset
      /\ begins' = begins /\ ends' = ends /\ seqNo' = seqNo
      /\ frames' = frames /\ cut' = cut /\ pauses' = pauses
  BY DEF OurHandleClosure, bufferVars, streamVars
<1>2. playing /\ due = FALSE
  BY <1>1 DEF SinkTypeOK
<1>3. ~(overSize > 0)
  BY <1>1 DEF OverflowInv
<1>4. FRAMEHEADER' = FRAMEHEADER
  BY <1>1 DEF FRAMEHEADER
<1>5. off \in (HEADERS + FRAMEHEADER)..MAX /\ used <= FrameLimit
  BY <1>1 DEF PacketInv
<1>6. BufferTypeOK' /\ OverflowInv'
  BY <1>1, <1>3 DEF SinkTypeOK, BufferTypeOK, OverflowInv
<1>7. PacketInv'
  BY <1>1, <1>2, <1>4, <1>5, FrameHeaderSize DEF PacketInv
<1>8. Flags' /\ Waits'
  BY <1>1, <1>2, Zenon DEF SinkTypeOK, Flags, Waits
<1>9. Numbers'
  BY <1>1, <1>5, FrameHeaderSize DEF SinkTypeOK, Numbers
<1> QED  BY <1>6, <1>7, <1>8, <1>9, PartsOfType

\* k units of the frame in hand go into the packet, left of them do not.
LEMMA UseUnitsInv ==
  ASSUME SinkInv, UseFrame, NEW k \in Nat, NEW left \in Nat, UseUnits(k, left),
         off + k <= MAX, k + left = size, left > 0 => off + k = MAX
  PROVE  SinkInv'
<1> USE HeaderAssumption, FrameAssumption, PacketAssumption DEF SinkInv
<1>1. /\ step = "use" /\ off' = off + k /\ used' = used + 1
      /\ overOffset' = IF left > 0 THEN off + k ELSE overOffset
      /\ overSize' = IF left > 0 THEN left ELSE overSize
      /\ fragOffset' = IF left > 0 THEN fragOffset + k ELSE 0
      /\ begins' \in BOOLEAN /\ ends' \in BOOLEAN
      /\ start' = start /\ several' = several /\ playing' = playing
      /\ due' = due /\ asked' = asked /\ size' = size
      /\ noneLeft' = noneLeft /\ seqNo' = seqNo
      /\ frames' = frames /\ cut' = cut /\ pauses' = pauses
  BY DEF UseFrame, UseUnits, MarkPacket, streamVars
<1>2. playing /\ due = FALSE /\ asked = FALSE
  BY <1>1 DEF SinkTypeOK, PacketInv
<1>3. overSize = 0
  BY <1>1 DEF OverflowInv, SinkTypeOK, BufferTypeOK
<1>4. FRAMEHEADER' = FRAMEHEADER /\ FRAMEHEADER \in {0, 1}
  BY <1>1, FrameHeaderSize DEF FRAMEHEADER
<1>5. /\ off \in (HEADERS + FRAMEHEADER)..MAX /\ used <= FrameLimit
      /\ start + off + size <= LIMIT /\ start + MAX <= LIMIT
  BY <1>1 DEF PacketInv
<1>6. DOMAIN buf' = DOMAIN buf
  BY WrittenDomain DEF UseUnits, MarkPacket
<1>7. \/ step' = "send"
      \/ step' = "pack" /\ off' < PREFERRED /\ used' <= FrameLimit /\ left = 0
  <2>1. CASE IsPreferredSize(k) \/ WouldOverflow(k + k)
             \/ (left = 0 /\ fragOffset > 0) \/ ~CanAppearAfterStart(used + 1)
    BY <2>1 DEF UseUnits
  <2>2. CASE ~(IsPreferredSize(k) \/ WouldOverflow(k + k)
             \/ (left = 0 /\ fragOffset > 0) \/ ~CanAppearAfterStart(used + 1))
    <3>1. step' = "pack"
      BY <2>2 DEF UseUnits
    <3>2. ~(off + k >= PREFERRED) /\ used + 1 <= FrameLimit
      BY <2>2 DEF IsPreferredSize, CanAppearAfterStart
    <3> QED  BY <1>1, <1>5, <3>1, <3>2
  <2> QED  BY <2>1, <2>2
<1>8. BufferTypeOK'
  BY <1>1, <1>3, <1>5, <1>6 DEF SinkTypeOK, BufferTypeOK
<1>9. OverflowInv'
  <2>1. SUFFICES ASSUME overSize' > 0
                 PROVE  overOffset' = off' /\ off' >= HEADERS + FRAMEHEADER
                        /\ step' = "send" /\ ~asked'
    BY <1>4 DEF OverflowInv
  <2>2. left > 0
    BY <1>1, <1>3, <2>1
  <2>3. overOffset' = off' /\ off' = MAX
    BY <1>1, <2>2
  <2>4. step' = "send"
    BY <1>7, <2>2
  <2>5. off' >= HEADERS + FRAMEHEADER
    BY <1>4, <1>5, <2>3
  <2> QED  BY <1>1, <1>2, <2>3, <2>4, <2>5
<1>10. PacketInv'
  BY <1>1, <1>2, <1>4, <1>5, <1>7 DEF PacketInv
<1>11. Flags' /\ Waits'
  BY <1>1, <1>2, Zenon DEF SinkTypeOK, Flags, Waits
<1>12. Numbers'
  BY <1>1, <1>5, <1>7 DEF SinkTypeOK, Numbers
<1> QED  BY <1>8, <1>9, <1>10, <1>11, <1>12, PartsOfType

LEMMA UseFrameInv ==
  ASSUME SinkInv, UseFrame PROVE SinkInv'
<1> USE HeaderAssumption, FrameAssumption, PacketAssumption DEF SinkInv
<1>1. /\ step = "use" /\ FRAMEHEADER \in {0, 1}
      /\ off \in (HEADERS + FRAMEHEADER)..MAX /\ used <= FrameLimit
      /\ start + off + size <= LIMIT /\ size \in Nat /\ off \in Nat
      /\ start + MAX <= LIMIT
  BY FrameHeaderSize DEF UseFrame, PacketInv, SinkTypeOK
<1>2. CASE ~WouldOverflow(size) /\ UseUnits(size, 0)
  BY <1>1, <1>2, UseUnitsInv DEF WouldOverflow
<1>3. CASE WouldOverflow(size) /\ UseUnits(MAX - off, off + size - MAX)
  <2>1. off + size > MAX
    BY <1>3 DEF WouldOverflow
  <2>2. /\ MAX - off \in Nat /\ off + size - MAX \in Nat
        /\ off + (MAX - off) = MAX /\ (MAX - off) + (off + size - MAX) = size
    BY <1>1, <2>1
  <2> DEFINE k == MAX - off
             l == off + size - MAX
  <2>3. k \in Nat /\ l \in Nat /\ off + k = MAX /\ k + l = size
        /\ UseUnits(k, l)
    BY <1>3, <2>2
  <2> HIDE DEF k, l
  <2> QED  BY <2>3, UseUnitsInv
<1>4. CASE WouldOverflow(size) /\ KeepForNextPacket
  <2>1. /\ overOffset' = off /\ overSize' = size /\ step' = "send"
        /\ buf' = buf /\ off' = off /\ used' = used
        /\ fragOffset' = fragOffset /\ begins' = begins /\ ends' = ends
        /\ start' = start /\ several' = several /\ playing' = playing
        /\ due' = due /\ asked' = asked /\ size' = size
        /\ noneLeft' = noneLeft /\ seqNo' = seqNo
        /\ frames' = frames /\ cut' = cut /\ pauses' = pauses
    BY <1>4 DEF UseFrame, KeepForNextPacket, streamVars
  <2>2. playing /\ due = FALSE /\ asked = FALSE
    BY <1>1 DEF SinkTypeOK, PacketInv
  <2>3. FRAMEHEADER' = FRAMEHEADER
    BY <2>1 DEF FRAMEHEADER
  <2>4. BufferTypeOK'
    BY <1>1, <2>1 DEF SinkTypeOK, BufferTypeOK
  <2>5. OverflowInv'
    BY <1>1, <2>1, <2>2, <2>3 DEF OverflowInv
  <2>6. PacketInv'
    BY <1>1, <2>1, <2>2, <2>3 DEF PacketInv
  <2>7. Flags' /\ Waits'
    BY <2>1, <2>2, Zenon DEF SinkTypeOK, Flags, Waits
  <2>8. Numbers'
    BY <1>1, <2>1 DEF SinkTypeOK, Numbers
  <2> QED  BY <2>4, <2>5, <2>6, <2>7, <2>8, PartsOfType
<1> QED  BY <1>2, <1>3, <1>4 DEF UseFrame

LEMMA SendPacketInv ==
  ASSUME SinkInv, SendPacket
  PROVE  SinkInv' /\ seqNo' = IF used > 0 THEN seqNo + 1 ELSE seqNo
<1> USE HeaderAssumption, FrameAssumption, PacketAssumption DEF SinkInv
<1>1. /\ step = "send" /\ off' = 0 /\ used' = 0 /\ step' = "none"
      /\ buf' = buf /\ overSize' = overSize /\ several' = several
      /\ asked' = asked /\ size' = size /\ fragOffset' = fragOffset
      /\ noneLeft' = noneLeft /\ begins' = begins /\ ends' = ends
      /\ frames' = frames /\ cut' = cut /\ pauses' = pauses
  BY DEF SendPacket
<1>2. seqNo' = IF used > 0 THEN seqNo + 1 ELSE seqNo
  BY DEF SendPacket
<1>3. playing = TRUE /\ due = FALSE /\ asked = FALSE
  BY <1>1 DEF SinkTypeOK, PacketInv
<1>4. \/ noneLeft /\ playing' = FALSE /\ due' = FALSE
      \/ due' = TRUE /\ playing' = TRUE
  BY <1>3 DEF SendPacket
<1> DEFINE h == HEADERS + FRAMEHEADER
<1>5. /\ FRAMEHEADER' = FRAMEHEADER /\ FRAMEHEADER \in {0, 1} /\ h \in Nat
      /\ h' = h
  BY <1>1, FrameHeaderSize DEF FRAMEHEADER
<1>6. off \in h..MAX /\ start + MAX <= LIMIT
  BY <1>1 DEF PacketInv, SinkTypeOK, BufferTypeOK
<1>7. overSize > 0 => overOffset = off
  BY <1>1 DEF OverflowInv
<1>8. /\ start' \in Nat /\ start' + MAX <= LIMIT /\ overOffset' \in Nat
      /\ overSize > 0 => /\ start' + overOffset' = start + overOffset
                         /\ overOffset' >= h
  <2>1. start \in Nat /\ off \in Nat /\ overOffset \in Nat /\ overSize \in Nat
    BY DEF SinkTypeOK, BufferTypeOK
  <2>2. CASE overSize > 0 /\ BytesAvailable > LIMIT \div 2
    <3>1. start' = start + off - h /\ overOffset' = overOffset - (off - h)
      BY <2>2 DEF SendPacket, NextPacketStart
    <3>2. LIMIT - (start + off) > LIMIT \div 2 /\ LIMIT \div 2 >= MAX
      BY <2>2 DEF BytesAvailable
    <3> HIDE DEF h
    <3> QED  BY <1>5, <1>6, <1>7, <2>1, <2>2, <3>1, <3>2
  <2>3. CASE ~(overSize > 0 /\ BytesAvailable > LIMIT \div 2)
    <3>1. /\ start' = 0
          /\ overOffset' = IF overSize > 0 THEN overOffset + start ELSE overOffset
      BY <2>3 DEF SendPacket, NextPacketStart
    <3> HIDE DEF h
    <3> QED  BY <1>5, <1>6, <1>7, <2>1, <3>1
  <2> QED  BY <2>2, <2>3
<1>9. BufferTypeOK'
  BY <1>1, <1>8 DEF SinkTypeOK, BufferTypeOK
<1>10. OverflowInv'
  BY <1>1, <1>3, <1>5, <1>8 DEF OverflowInv
<1>11. PacketInv'
  BY <1>1, <1>3, <1>8 DEF PacketInv
<1>12. Flags' /\ Waits'
  BY <1>1, <1>3, <1>4, Zenon DEF SinkTypeOK, Flags, Waits
<1>13. Numbers'
  BY <1>1, <1>2 DEF SinkTypeOK, Numbers
<1> QED  BY <1>2, <1>9, <1>10, <1>11, <1>12, <1>13, PartsOfType

-----------------------------------------------------------------------------
\* Sequence numbers and their extensions.

LEMMA ModShift ==
  ASSUME NEW m \in Nat \ {0}, NEW r \in 0..(m - 1), NEW k \in Int
  PROVE  (r + k * m) % m = r
  OBVIOUS

LEMMA ModIs ==
  ASSUME NEW m \in Nat \ {0}, NEW x \in Int
  PROVE  \E q \in Int: x = (x % m) + q * m /\ x \div m = q
<1>1. x = m * (x \div m) + (x % m) /\ (x \div m) \in Int /\ (x % m) \in Int
  OBVIOUS
<1>2. m * (x \div m) = (x \div m) * m
  BY <1>1
<1> QED  BY <1>1, <1>2

LEMMA QuotientType ==
  ASSUME NEW x \in Nat, NEW m \in Nat \ {0}
  PROVE  x \div m \in Nat /\ (x = 0 => x \div m = 0)
  OBVIOUS

Half == CYCLE \div 2

LEMMA HalfIs ==
  /\ Half \in Nat \ {0} /\ CYCLE = 2 * Half
  /\ InFlight + MaxFaults < Half
  BY CycleAssumption, FlightAssumption DEF Half

\* The n-th packet bears the number that its extension ends with.
LEMMA TrueNumberMod ==
  ASSUME first \in 0..(CYCLE - 1), NEW n \in Nat, NEW a \in Nat
  PROVE  /\ SeqNoOf(n) \in 0..(CYCLE - 1)
         /\ TrueNumber(n, a) \in Int
         /\ TrueNumber(n, a) % CYCLE = SeqNoOf(n)
<1> DEFINE m == CYCLE
<1>1. m \in Nat \ {0} /\ first + n \in Int /\ first + a \in Int
  BY CycleAssumption
<1> HIDE DEF m
<1>2. PICK p \in Int: first + a = ((first + a) % m) + p * m
  BY <1>1, ModIs
<1>3. PICK q \in Int: first + n = ((first + n) % m) + q * m
  BY <1>1, ModIs
<1>4. (first + n) % m \in 0..(m - 1) /\ (first + a) % m \in 0..(m - 1)
  BY <1>1
<1>5. (m + ((first + a) % m) + n) - a = ((first + n) % m) + (q - p + 1) * m
  <2>1. (q - p + 1) * m = (q * m - p * m) + m
    BY <1>1
  <2>2. q * m \in Int /\ p * m \in Int
    BY <1>1
  <2> DEFINE A == (first + a) % m
             B == (first + n) % m
             P == p * m
             Q == q * m
             R == (q - p + 1) * m
  <2>3. /\ first + a = A + P /\ first + n = B + Q /\ R = (Q - P) + m
        /\ A \in Int /\ B \in Int /\ P \in Int /\ Q \in Int /\ first \in Int
        /\ m \in Int
    BY <1>1, <1>2, <1>3, <1>4, <2>1, <2>2
  <2> HIDE DEF A, B, P, Q, R
  <2>4. (m + A + n) - a = B + R
    BY <2>3
  <2> QED  BY <2>4 DEF A, B, R
<1>6. (((first + n) % m) + (q - p + 1) * m) % m = (first + n) % m
  BY <1>1, <1>4, ModShift, q - p + 1 \in Int, Zenon
<1>7. SeqNoOf(n) = (first + n) % m
  BY DEF SeqNoOf, m
<1>8. TrueNumber(n, a) = (m + ((first + a) % m) + n) - a
  BY <1>1, <1>4 DEF TrueNumber, SeqNoOf, m
<1>9. TrueNumber(n, a) \in Int
  BY <1>1, <1>4, <1>8
<1> QED  BY <1>4, <1>5, <1>6, <1>7, <1>8, <1>9 DEF m

LEMMA TrueNumberIs ==
  ASSUME first \in 0..(CYCLE - 1), NEW n \in Nat, NEW a \in Nat
  PROVE  TrueNumber(n, a) = (CYCLE + SeqNoOf(a) + n) - a
<1>1. SeqNoOf(a) \in 0..(CYCLE - 1) /\ CYCLE \in Nat
  BY TrueNumberMod, CycleAssumption
<1> QED  BY <1>1 DEF TrueNumber

\* What noteIncomingPacket() makes of the number of the packet d places from
\* the newest.
LEMMA ExtendedIs ==
  ASSUME NEW high \in Nat, high >= CYCLE,
         NEW d \in Int, 0 - Half < d, d < Half,
         NEW s, s = (high + d) % CYCLE
  PROVE  /\ SeqNumLT(high % CYCLE, s) <=> d > 0
         /\ d > 0 => Extended(s, high, IF s - (high % CYCLE) < 0 THEN 1 ELSE 0)
                       = high + d
         /\ ~(d > 0) =>
              Extended(s, high,
                       IF s - (high % CYCLE) >= CYCLE \div 2 THEN -1 ELSE 0)
                = high + d
<1> DEFINE m == CYCLE
           old == high % m
<1>1. /\ m \in Nat \ {0} /\ m = 2 * Half /\ Half \in Nat \ {0}
      /\ CYCLE \div 2 = Half
  BY HalfIs, CycleAssumption DEF Half
<1> HIDE DEF m
<1>2. PICK q \in Int: high = old + q * m /\ high \div m = q
  <2>1. \E q \in Int: high = (high % m) + q * m /\ high \div m = q
    BY ONLY <1>1, high \in Int, ModIs, Zenon
  <2> QED  BY <2>1
<1>3. old \in 0..(m - 1)
  BY <1>1
<1> HIDE DEF old
<1>4. /\ (q - 1) * m = q * m - m /\ (q + 1) * m = q * m + m /\ q * m \in Int
      /\ (q + 0) * m = q * m
  BY <1>1
<1>5. s = (high + d) % m /\ SeqNumLT(high % CYCLE, s) = SeqNumLT(old, s)
      /\ high % CYCLE = old
  BY DEF m, old
<1>6. /\ Extended(s, high, 1) = (q + 1) * m + s
      /\ Extended(s, high, 0) = q * m + s
      /\ Extended(s, high, -1) = (q - 1) * m + s
  BY <1>1, <1>2, <1>4 DEF Extended, m
<1>7. CASE old + d < 0
  <2>1. old + d + m \in 0..(m - 1) /\ q - 1 \in Int
    BY <1>1, <1>3, <1>7
  <2>2. ((old + d + m) + (q - 1) * m) % m = old + d + m
    BY <1>1, <2>1, ModShift, Zenon
  <2>3. (old + d + m) + (q - 1) * m = high + d
    BY <1>1, <1>2, <1>3, <1>4
  <2>4. s = old + d + m /\ s \in Int
    BY <1>5, <2>1, <2>2, <2>3
  <2>5. d < 0
    BY <1>3, <1>7
  <2>6. s - old = d + m /\ d + m \in 0..(m - 1) /\ d + m > Half
    BY <1>1, <1>3, <2>4, <2>5
  <2>7. (s - old) % m = d + m
    BY <1>1, <2>6
  <2>8. ~SeqNumLT(old, s)
    BY <1>1, <2>6, <2>7 DEF SeqNumLT, m
  <2>9. Extended(s, high, -1) = high + d
    BY <1>1, <1>2, <1>3, <1>4, <1>6, <2>4
  <2> QED  BY <1>1, <1>5, <2>5, <2>6, <2>8, <2>9
<1>8. CASE old + d \in 0..(m - 1)
  <2>1. (old + d + q * m) % m = old + d
    BY <1>1, <1>8, ModShift, Zenon
  <2>2. old + d + q * m = high + d
    BY <1>1, <1>2, <1>3, <1>4
  <2>3. s = old + d /\ s \in Int /\ s - old = d
    BY <1>3, <1>5, <1>8, <2>1, <2>2
  <2>4. d > 0 => (s - old) % m = d
    BY <1>1, <2>3
  <2>5. d < 0 => (s - old) % m = d + m
    <3>1. SUFFICES ASSUME d < 0 PROVE (s - old) % m = d + m
      OBVIOUS
    <3>2. d + m \in 0..(m - 1)
      BY <1>1, <3>1
    <3>3. ((d + m) + (-1) * m) % m = d + m
      BY <1>1, <3>2, ModShift, -1 \in Int, Zenon
    <3>4. (d + m) + (-1) * m = d
      BY <1>1
    <3> QED  BY <2>3, <3>3, <3>4
  <2>6. SeqNumLT(old, s) <=> d > 0
    <3>1. SeqNumLT(old, s) <=> s # old /\ (s - old) % m < Half
      BY <1>1 DEF SeqNumLT, m
    <3>2. CASE d > 0
      BY <1>1, <1>3, <2>3, <2>4, <3>1, <3>2
    <3>3. CASE d < 0
      BY <1>1, <1>3, <2>3, <2>5, <3>1, <3>3
    <3>4. CASE d = 0
      BY <1>3, <2>3, <3>1, <3>4
    <3> QED  BY <3>2, <3>3, <3>4
  <2>7. Extended(s, high, 0) = high + d
    BY <1>1, <1>2, <1>3, <1>4, <1>6, <2>3
  <2> QED  BY <1>1, <1>5, <2>3, <2>6, <2>7
<1>9. CASE old + d >= m
  <2>1. (old + d) - m \in 0..(m - 1) /\ q + 1 \in Int
    BY <1>1, <1>3, <1>9
  <2>2. (((old + d) - m) + (q + 1) * m) % m = (old + d) - m
    BY <1>1, <2>1, ModShift, Zenon
  <2>3. ((old + d) - m) + (q + 1) * m = high + d
    BY <1>1, <1>2, <1>3, <1>4
  <2>4. s = (old + d) - m /\ s \in Int
    BY <1>5, <2>1, <2>2, <2>3
  <2>5. d > 0
    BY <1>1, <1>3, <1>9
  <2>6. s - old = d - m /\ s - old < 0 /\ s # old
    BY <1>1, <1>3, <2>4
  <2>7. (s - old) % m = d
    <3>1. (d + (-1) * m) % m = d
      BY <1>1, <2>5, ModShift, -1 \in Int, d \in 0..(m - 1), Zenon
    <3>2. d + (-1) * m = s - old
      BY <1>1, <2>6
    <3> QED  BY <3>1, <3>2
  <2>8. SeqNumLT(old, s)
    BY <1>1, <2>6, <2>7 DEF SeqNumLT, m
  <2>9. Extended(s, high, 1) = high + d
    <3> DEFINE Q == (q + 1) * m
    <3>1. Extended(s, high, 1) = Q + s /\ s + Q = high + d /\ Q \in Int
      BY <1>1, <1>6, <2>3, <2>4
    <3> HIDE DEF Q
    <3> QED  BY <2>4, <3>1
  <2>10. Extended(s, high, IF s - old < 0 THEN 1 ELSE 0) = high + d
    BY <2>6, <2>9
  <2> QED  BY <1>5, <2>5, <2>8, <2>10
<1> QED  BY <1>1, <1>3, <1>7, <1>8, <1>9

-----------------------------------------------------------------------------
\* The newest and the oldest packet of a set.

LEMMA MaxIs ==
  ASSUME NEW n \in Nat, NEW T, T \subseteq 0..n, T # {}
  PROVE  Max(T) \in T /\ \A x \in T: x <= Max(T)
<1>1. PICK x \in T: \A y \in T: y <= x
  BY GreatestExists
<1>2. \A y \in T: x >= y
  BY <1>1
<1>3. \E z \in T: \A y \in T: z >= y
  BY <1>2
<1>4. Max(T) \in T /\ \A y \in T: Max(T) >= y
  BY <1>3 DEF Max
<1> QED  BY <1>4

LEMMA MinIs ==
  ASSUME NEW T, T \subseteq Nat, T # {}
  PROVE  Min(T) \in T /\ \A x \in T: Min(T) <= x
  BY LeastExists DEF Min

\* A packet more, newer than the newest or not, older than the oldest or not.
LEMMA MaxWith ==
  ASSUME NEW k \in Nat, NEW T, T \subseteq 0..k, T # {}, NEW n \in 0..k
  PROVE  Max(T \cup {n}) = IF n > Max(T) THEN n ELSE Max(T)
<1>1. T \cup {n} \subseteq 0..k /\ T \cup {n} # {}
  OBVIOUS
<1>2. /\ Max(T) \in T /\ \A x \in T: x <= Max(T)
      /\ Max(T \cup {n}) \in T \cup {n}
      /\ \A x \in T \cup {n}: x <= Max(T \cup {n})
  BY <1>1, MaxIs
<1> DEFINE M == Max(T)
           N == Max(T \cup {n})
<1>3. M \in T \cup {n} /\ N \in T \cup {n} /\ n \in T \cup {n}
  BY <1>2
<1>4. M \in Nat /\ N \in Nat /\ M <= N /\ n <= N
  <2>1. T \cup {n} \subseteq Nat
    OBVIOUS
  <2> QED  BY <1>2, <1>3, <2>1
<1>5. N = n \/ N <= M
  BY <1>2
<1> HIDE DEF M, N
<1>6. N = IF n > M THEN n ELSE M
  BY <1>4, <1>5
<1> QED  BY <1>6 DEF M, N

LEMMA MinWith ==
  ASSUME NEW k \in Nat, NEW T, T \subseteq 0..k, T # {}, NEW n \in 0..k
  PROVE  Min(T \cup {n}) = IF n < Min(T) THEN n ELSE Min(T)
<1>1. T \cup {n} \subseteq Nat /\ T \cup {n} # {} /\ T \subseteq Nat
  OBVIOUS
<1>2. /\ Min(T) \in T /\ \A x \in T: Min(T) <= x
      /\ Min(T \cup {n}) \in T \cup {n}
      /\ \A x \in T \cup {n}: Min(T \cup {n}) <= x
  BY <1>1, MinIs
<1> DEFINE M == Min(T)
           N == Min(T \cup {n})
<1>3. M \in T \cup {n} /\ N \in T \cup {n} /\ n \in T \cup {n}
  BY <1>2
<1>4. M \in Nat /\ N \in Nat /\ N <= M /\ N <= n
  BY <1>1, <1>2, <1>3
<1>5. N = n \/ M <= N
  BY <1>2
<1> HIDE DEF M, N
<1>6. N = IF n < M THEN n ELSE M
  BY <1>4, <1>5
<1> QED  BY <1>6 DEF M, N

LEMMA OfOne ==
  ASSUME NEW n \in Nat
  PROVE  Max({n}) = n /\ Min({n}) = n
<1>1. {n} \subseteq 0..n /\ {n} # {} /\ {n} \subseteq Nat
  OBVIOUS
<1>2. Max({n}) \in {n} /\ Min({n}) \in {n}
  BY <1>1, MaxIs, MinIs
<1> QED  BY <1>2

\* Sets of packets are finite.
LEMMA PacketsFinite ==
  ASSUME NEW k \in Int, NEW T, T \subseteq 0..k
  PROVE  IsFiniteSet(T) /\ Cardinality(T) \in Nat
<1>1. IsFiniteSet(0..k)
  BY FS_Interval
<1> QED  BY <1>1, FS_Subset, FS_CardinalityType

\* A set that takes up an element at most does not grow by more than one.
LEMMA OneMoreAtMost ==
  ASSUME NEW T, IsFiniteSet(T), NEW x, NEW U, U \subseteq T \cup {x}
  PROVE  Cardinality(U) <= Cardinality(T) + 1
<1>1. IsFiniteSet(T \cup {x}) /\ Cardinality(T \cup {x}) <= Cardinality(T) + 1
      /\ Cardinality(T) \in Nat /\ Cardinality(T \cup {x}) \in Nat
  BY FS_AddElement, FS_CardinalityType
<1>2. Cardinality(U) <= Cardinality(T \cup {x}) /\ IsFiniteSet(U)
  BY <1>1, FS_Subset
<1>3. Cardinality(U) \in Nat
  BY <1>2, FS_CardinalityType
<1> QED  BY <1>1, <1>2, <1>3

-----------------------------------------------------------------------------
\* The network and the receiver.

NetTypeOK ==
  /\ StatsTypeOK
  /\ first \in 0..(CYCLE - 1)
  /\ net \subseteq 0..(seqNo - 1) /\ received \subseteq 0..(seqNo - 1)
  /\ reported \subseteq received /\ reports \in 0..MaxReports
  /\ Cardinality(net) <= InFlight /\ faults \in 0..MaxFaults

NetInv ==
  seqNo \in Nat /\ NetTypeOK /\ FlightInv /\ CountsInv /\ ExtendedInv /\ LossInv

LEMMA PartsOfInv ==
  /\ IInv <=> SinkInv /\ NetInv
  /\ IInv' <=> SinkInv' /\ NetInv'
<1>1. /\ SinkTypeOK => seqNo \in Nat
      /\ TypeOK <=> SinkTypeOK /\ NetTypeOK
  BY Zenon DEF TypeOK, NetTypeOK, SinkTypeOK
<1>2. /\ SinkTypeOK' => seqNo' \in Nat
      /\ TypeOK' <=> SinkTypeOK' /\ NetTypeOK'
  BY Zenon DEF TypeOK, NetTypeOK, SinkTypeOK
<1>3. IInv <=> SinkInv /\ NetInv
  BY <1>1, Zenon DEF IInv, SinkInv, NetInv
<1>4. IInv' <=> SinkInv' /\ NetInv'
  BY <1>2, Zenon DEF IInv, SinkInv, NetInv
<1> QED  BY <1>3, <1>4

LEMMA NetInitInv ==
  ASSUME Init PROVE NetInv
<1>1. /\ seqNo = 0 /\ seen = FALSE /\ base = 0 /\ highest = 0
      /\ total = 0 /\ sinceReset = 0 /\ lastReset = 0 /\ fraction = 0
      /\ first \in FirstSeqNos /\ net = {} /\ received = {} /\ reported = {}
      /\ reports = 0 /\ faults = 0
  BY DEF Init, SinkInit, StatsInit
<1>2. Cardinality({}) = 0
  BY FS_EmptySet
<1>3. NetTypeOK
  <2>1. StatsTypeOK
    <3>1. seen \in BOOLEAN
      BY <1>1, Zenon
    <3>2. 0 \in Nat /\ 0 <= 0 /\ 0 \in 0..0 /\ 0 \in 0..255
      OBVIOUS
    <3> QED  BY <1>1, <3>1, <3>2, Zenon DEF StatsTypeOK
  <2>2. Cardinality(net) = 0
    BY <1>1, <1>2
  <2>3. /\ first \in 0..(CYCLE - 1) /\ net \subseteq 0..(seqNo - 1)
        /\ received \subseteq 0..(seqNo - 1) /\ reported \subseteq received
        /\ reports \in 0..MaxReports /\ faults \in 0..MaxFaults
        /\ InFlight \in Nat
    BY <1>1, FlightAssumption
  <2> QED  BY <2>1, <2>2, <2>3 DEF NetTypeOK
<1>4. FlightInv
  <2>1. Missing = {}
    BY <1>1 DEF Missing
  <2> QED  BY <1>1, <1>2, <2>1 DEF FlightInv
<1>5. CountsInv
  <2>1. received \ reported = {}
    BY <1>1
  <2> QED  BY <1>1, <1>2, <2>1 DEF CountsInv
<1>6. ExtendedInv /\ LossInv
  BY <1>1 DEF ExtendedInv, LossInv
<1> QED  BY <1>1, <1>3, <1>4, <1>5, <1>6 DEF NetInv

\* What neither sends nor receives a packet.
LEMMA NetSame ==
  ASSUME NetInv, UNCHANGED <<statsVars, networkVars>>, seqNo' = seqNo
  PROVE  NetInv'
<1>1. /\ seen' = seen /\ base' = base /\ highest' = highest
      /\ total' = total /\ sinceReset' = sinceReset
      /\ lastReset' = lastReset /\ fraction' = fraction
      /\ first' = first /\ net' = net /\ received' = received
      /\ reported' = reported /\ reports' = reports /\ faults' = faults
  BY DEF statsVars, networkVars
<1>2. NetTypeOK'
  BY <1>1, Zenon DEF NetInv, NetTypeOK, StatsTypeOK
<1>3. FlightInv' /\ CountsInv'
  BY <1>1, Zenon DEF NetInv, FlightInv, Missing, CountsInv
<1>4. ExtendedInv' /\ LossInv'
  BY <1>1, Zenon DEF NetInv, ExtendedInv, LossInv, TrueNumber, SeqNoOf
<1> QED  BY <1>2, <1>3, <1>4, Zenon DEF NetInv

LEMMA SendNetInv ==
  ASSUME SinkInv, NetInv, Send PROVE NetInv'
<1>1. seqNo \in Nat /\ seqNo' = IF used > 0 THEN seqNo + 1 ELSE seqNo
  BY SendPacketInv DEF Send, NetInv
<1>2. CASE ~(used > 0)
  <2>1. UNCHANGED <<statsVars, networkVars>>
    BY <1>2 DEF Send, networkVars
  <2> QED  BY <1>1, <1>2, <2>1, NetSame
<1>3. CASE used > 0
  <2>1. /\ seen' = seen /\ base' = base /\ highest' = highest
        /\ total' = total /\ sinceReset' = sinceReset
        /\ lastReset' = lastReset /\ fraction' = fraction
        /\ first' = first /\ net' = net \cup {seqNo} /\ received' = received
        /\ reported' = reported /\ reports' = reports /\ faults' = faults
    BY <1>3 DEF Send, statsVars
  <2>2. seqNo' = seqNo + 1 /\ \A n \in net: seqNo - n < InFlight
    BY <1>1, <1>3 DEF Send
  <2>3. InFlight \in Nat \ {0} /\ net \subseteq 0..(seqNo - 1)
        /\ received \subseteq 0..(seqNo - 1)
    BY FlightAssumption DEF NetInv, NetTypeOK
  <2>4. Cardinality(net') <= InFlight
    <3> DEFINE Last == (seqNo' - InFlight)..(seqNo' - 1)
    <3>1. net' \subseteq Last
      <4>1. SUFFICES ASSUME NEW n \in net' PROVE n \in Last
        OBVIOUS
      <4>2. n \in Int /\ n <= seqNo /\ seqNo - n < InFlight
        BY <1>1, <2>1, <2>2, <2>3
      <4> QED  BY <1>1, <2>2, <2>3, <4>2
    <3>2. IsFiniteSet(Last) /\ Cardinality(Last) = InFlight
      <4>1. seqNo' - InFlight \in Int /\ seqNo' - 1 \in Int
            /\ ~(seqNo' - InFlight > seqNo' - 1)
            /\ (seqNo' - 1) - (seqNo' - InFlight) + 1 = InFlight
        BY <1>1, <2>2, <2>3
      <4>2. /\ IsFiniteSet(Last)
            /\ Cardinality(Last) =
                 IF seqNo' - InFlight > seqNo' - 1 THEN 0
                 ELSE (seqNo' - 1) - (seqNo' - InFlight) + 1
        BY ONLY <4>1, FS_Interval
      <4> QED  BY <4>1, <4>2
    <3> QED  BY <3>1, <3>2, FS_Subset
  <2>5. NetTypeOK'
    <3>1. StatsTypeOK'
      BY <2>1, Zenon DEF NetInv, NetTypeOK, StatsTypeOK
    <3>2. net' \subseteq 0..(seqNo' - 1) /\ received' \subseteq 0..(seqNo' - 1)
      BY <1>1, <2>1, <2>2, <2>3
    <3>3. /\ first' \in 0..(CYCLE - 1) /\ reported' \subseteq received'
          /\ reports' \in 0..MaxReports /\ faults' \in 0..MaxFaults
      BY <2>1 DEF NetInv, NetTypeOK
    <3> QED  BY <2>4, <3>1, <3>2, <3>3 DEF NetTypeOK
  <2>6. FlightInv'
    <3>1. \A n \in net': seqNo' - n <= InFlight
      BY <1>1, <2>1, <2>2, <2>3
    <3>2. Missing' = Missing
      BY <1>1, <2>1, <2>2, <2>3 DEF Missing
    <3> QED  BY <2>1, <3>1, <3>2 DEF NetInv, FlightInv
  <2>7. CountsInv'
    BY <2>1, Zenon DEF NetInv, CountsInv
  <2>8. ExtendedInv' /\ LossInv'
    BY <2>1, Zenon DEF NetInv, ExtendedInv, LossInv, TrueNumber, SeqNoOf
  <2> QED  BY <1>1, <2>2, <2>5, <2>6, <2>7, <2>8 DEF NetInv
<1> QED  BY <1>2, <1>3

LEMMA LoseNetInv ==
  ASSUME NetInv, NEW n \in net, Lose(n) PROVE NetInv'
<1>1. /\ seen' = seen /\ base' = base /\ highest' = highest
      /\ total' = total /\ sinceReset' = sinceReset
      /\ lastReset' = lastReset /\ fraction' = fraction /\ seqNo' = seqNo
      /\ first' = first /\ net' = net \ {n} /\ received' = received
      /\ reported' = reported /\ reports' = reports
      /\ faults < MaxFaults /\ faults' = faults + 1
  BY DEF Lose, statsVars, sinkAndBuffer, sinkVars
<1>2. seqNo \in Nat /\ net \subseteq 0..(seqNo - 1) /\ faults \in Nat
      /\ Cardinality(net) <= InFlight /\ InFlight \in Nat /\ MaxFaults \in Nat
  BY FlightAssumption DEF NetInv, NetTypeOK
<1>3. Cardinality(net') <= InFlight
  <2>1. IsFiniteSet(net) /\ net' \in SUBSET net /\ IsFiniteSet(net')
        /\ Cardinality(net') \in Nat /\ Cardinality(net) \in Nat
    BY <1>1, <1>2, PacketsFinite, FS_Subset, FS_CardinalityType, seqNo - 1 \in Int
  <2>2. Cardinality(net') <= Cardinality(net)
    BY ONLY <2>1, FS_Subset
  <2> QED  BY <1>2, <2>1, <2>2
<1>4. NetTypeOK'
  <2>1. StatsTypeOK'
    BY <1>1, Zenon DEF NetInv, NetTypeOK, StatsTypeOK
  <2> QED  BY <1>1, <1>2, <1>3, <2>1 DEF NetInv, NetTypeOK
<1>5. FlightInv'
  <2>1. Missing' \subseteq Missing \cup {n}
    BY <1>1 DEF Missing
  <2>2. IsFiniteSet(Missing) /\ Missing' \subseteq 0..(seqNo - 1)
        /\ Missing \subseteq 0..(seqNo - 1)
    BY <1>1, <1>2, PacketsFinite, seqNo - 1 \in Int DEF Missing
  <2>3. Cardinality(Missing') <= Cardinality(Missing) + 1
        /\ Cardinality(Missing') \in Nat /\ Cardinality(Missing) \in Nat
    BY <1>2, <2>1, <2>2, OneMoreAtMost, PacketsFinite, seqNo - 1 \in Int
  <2>4. Cardinality(Missing') <= faults'
    BY <1>1, <1>2, <2>3 DEF NetInv, FlightInv
  <2> QED  BY <1>1, <2>4 DEF NetInv, FlightInv
<1>6. CountsInv'
  BY <1>1, Zenon DEF NetInv, CountsInv
<1>7. ExtendedInv' /\ LossInv'
  BY <1>1, Zenon DEF NetInv, ExtendedInv, LossInv, TrueNumber, SeqNoOf
<1> QED  BY <1>1, <1>2, <1>4, <1>5, <1>6, <1>7 DEF NetInv

\* A packet that is under way is less than half the sequence space away from
\* the newest that has arrived: one behind has been overtaken, and those before
\* one ahead are under way with it or missing.
LEMMA NearTheNewest ==
  ASSUME NetInv, received # {}, NEW n \in net
  PROVE  /\ Max(received) \in received /\ Max(received) \in Nat
         /\ n - Max(received) \in Int
         /\ 0 - Half < n - Max(received) /\ n - Max(received) < Half
<1>1. /\ seqNo \in Nat /\ net \subseteq 0..(seqNo - 1)
      /\ received \subseteq 0..(seqNo - 1) /\ faults \in 0..MaxFaults
      /\ \A k \in net: seqNo - k <= InFlight
      /\ Cardinality(Missing) <= faults
      /\ InFlight \in Nat \ {0} /\ MaxFaults \in Nat
  BY FlightAssumption DEF NetInv, NetTypeOK, FlightInv
<1>2. n \in Nat /\ n <= seqNo - 1 /\ seqNo - n <= InFlight /\ seqNo - 1 \in Nat
  BY <1>1
<1>3. /\ Max(received) \in received /\ \A x \in received: x <= Max(received)
  BY <1>1, <1>2, MaxIs
<1> DEFINE M == Max(received)
<1>4. M \in Nat /\ M <= seqNo - 1
  <2>1. M \in 0..(seqNo - 1)
    BY ONLY <1>1, <1>3
  <2> HIDE DEF M
  <2> QED  BY <1>1, <2>1
<1> HIDE DEF M
<1>5. n - M <= InFlight + MaxFaults
  <2>1. SUFFICES ASSUME n - M > InFlight + MaxFaults
                 PROVE  FALSE
    BY <1>1, <1>2, <1>4
  <2> DEFINE Gap == (M + 1)..(n - InFlight)
  <2>2. Gap \subseteq Missing
    <3>1. SUFFICES ASSUME NEW k \in Gap PROVE k \in Missing
      OBVIOUS
    <3>2. k \in Int /\ k > M /\ k + InFlight <= n
      BY <1>1, <1>2, <1>4
    <3>3. k \in 0..(seqNo - 1)
      BY <1>1, <1>2, <1>4, <3>2
    <3>4. k \notin received
      BY <1>3, <1>4, <3>2 DEF M
    <3>5. k \notin net
      BY <1>1, <1>2, <3>2
    <3> QED  BY <3>3, <3>4, <3>5 DEF Missing
  <2>3. M + 1 \in Int /\ n - InFlight \in Int /\ ~(M + 1 > n - InFlight)
    BY <1>1, <1>2, <1>4, <2>1
  <2>4. Cardinality(Gap) = (n - InFlight) - (M + 1) + 1
    BY ONLY <2>3, FS_Interval
  <2>5. IsFiniteSet(Missing) /\ Cardinality(Missing) \in Nat
    BY <1>1, PacketsFinite, seqNo - 1 \in Int DEF Missing
  <2>6. Cardinality(Gap) <= Cardinality(Missing)
    BY ONLY <2>2, <2>5, FS_Subset
  <2> HIDE DEF Gap
  <2> QED  BY <1>1, <1>2, <1>4, <2>1, <2>4, <2>5, <2>6
<1>6. /\ n - M \in Int /\ 0 - Half < n - M /\ n - M < Half
  <2>1. InFlight + MaxFaults < Half /\ Half \in Nat
    BY HalfIs
  <2> QED  BY <1>1, <1>2, <1>4, <1>5, <2>1
<1>7. M \in received
  BY <1>3 DEF M
<1> QED  BY <1>4, <1>6, <1>7 DEF M

\* What arrives changes the receiver's numbers as it changes the set of what
\* has arrived.
LEMMA NoteFirst ==
  ASSUME NetInv, received = {}, NEW n \in net, NoteIncomingPacket(SeqNoOf(n))
  PROVE  highest' = TrueNumber(n, n) /\ base' = TrueNumber(n, n)
<1> DEFINE s == SeqNoOf(n)
<1>1. /\ n \in Nat /\ first \in 0..(CYCLE - 1) /\ ~seen /\ ~(total > 0)
  BY DEF NetInv, NetTypeOK, StatsTypeOK, CountsInv
<1>2. s \in 0..(CYCLE - 1) /\ CYCLE \in Nat \ {0}
  BY <1>1, TrueNumberMod, CycleAssumption
<1>3. TrueNumber(n, n) = CYCLE + s
  BY <1>1, <1>2 DEF TrueNumber
<1>4. (CYCLE + s) % CYCLE = s
  <2>1. (s + 1 * CYCLE) % CYCLE = s
    BY <1>2, ModShift, 1 \in Int, Zenon
  <2> QED  BY <1>2, <2>1
<1> HIDE DEF s
<1>5. ~SeqNumLT(s, s)
  BY DEF SeqNumLT
<1>6. NoteIncomingPacket(s)
  BY DEF s
<1> QED  BY <1>1, <1>3, <1>4, <1>5, <1>6 DEF NoteIncomingPacket

LEMMA NoteNext ==
  ASSUME NetInv, received # {}, NEW a \in received,
         highest = TrueNumber(Max(received), a),
         base = TrueNumber(Min(received), a),
         NEW n \in net, NoteIncomingPacket(SeqNoOf(n))
  PROVE  /\ highest' = TrueNumber(Max(received \cup {n}), a)
         /\ base' = TrueNumber(Min(received \cup {n}), a)
<1> DEFINE M == Max(received)
           m == Min(received)
           s == SeqNoOf(n)
           d == n - M
           A == SeqNoOf(a)
<1>1. /\ seqNo \in Nat /\ net \subseteq 0..(seqNo - 1)
      /\ received \subseteq 0..(seqNo - 1) /\ first \in 0..(CYCLE - 1)
      /\ highest \in Nat /\ base \in Nat
  BY DEF NetInv, NetTypeOK, StatsTypeOK
<1>2. seen /\ total > 0
  BY DEF NetInv, CountsInv
<1>3. /\ M \in received /\ M \in Nat /\ d \in Int /\ 0 - Half < d /\ d < Half
  BY NearTheNewest
<1>4. seqNo - 1 \in Nat /\ n \in 0..(seqNo - 1) /\ a \in Nat /\ n \in Nat
  BY <1>1
<1>5. m \in received /\ m \in Nat /\ a <= M
  <2>1. received \subseteq Nat
    BY <1>1
  <2>2. \A x \in received: x <= M
    BY <1>1, <1>4, MaxIs
  <2> QED  BY <2>1, <2>2, MinIs
<1>6. /\ A \in 0..(CYCLE - 1) /\ s \in 0..(CYCLE - 1) /\ CYCLE \in Nat \ {0}
      /\ highest % CYCLE = SeqNoOf(M)
      /\ TrueNumber(n, a) % CYCLE = s
  BY <1>1, <1>3, <1>4, TrueNumberMod, CycleAssumption
<1>7. /\ highest = (CYCLE + A + M) - a /\ base = (CYCLE + A + m) - a
      /\ TrueNumber(n, a) = (CYCLE + A + n) - a
  BY <1>3, <1>4, <1>5, <1>6 DEF TrueNumber
<1>8. /\ Max(received \cup {n}) = IF n > M THEN n ELSE M
      /\ Min(received \cup {n}) = IF n < m THEN n ELSE m
  BY <1>1, <1>4, MaxWith, MinWith
<1>9. NoteIncomingPacket(s)
  OBVIOUS
<1>10. n = M + d
  BY <1>3, <1>4
<1> HIDE DEF M, m, s, d, A
<1>11. highest + d = TrueNumber(n, a) /\ highest >= CYCLE
  BY <1>3, <1>4, <1>5, <1>6, <1>7, <1>10
<1>12. s = (highest + d) % CYCLE
  BY <1>6, <1>11
<1>13. /\ SeqNumLT(highest % CYCLE, s) <=> d > 0
       /\ d > 0 => Extended(s, highest, IF s - (highest % CYCLE) < 0 THEN 1 ELSE 0)
                     = highest + d
       /\ ~(d > 0) =>
            Extended(s, highest,
                     IF s - (highest % CYCLE) >= CYCLE \div 2 THEN -1 ELSE 0)
              = highest + d
  BY ONLY <1>1, <1>3, <1>11, <1>12, ExtendedIs
<1>14. CASE d > 0
  <2>1. /\ highest' = IF highest + d > highest THEN highest + d ELSE highest
        /\ base' = base
    BY <1>2, <1>9, <1>13, <1>14 DEF NoteIncomingPacket
  <2>2. highest' = TrueNumber(n, a)
    BY <1>1, <1>3, <1>11, <1>14, <2>1
  <2>3. n > M /\ ~(n < m)
    <3>1. m <= M
      BY <1>1, <1>4, <1>5, MaxIs DEF M
    <3> QED  BY <1>3, <1>4, <1>5, <1>10, <1>14, <3>1
  <2> QED  BY <1>8, <2>1, <2>2, <2>3 DEF m
<1>15. CASE ~(d > 0)
  <2>1. /\ highest' = highest
        /\ base' = IF highest + d < base THEN highest + d ELSE base
    BY <1>2, <1>9, <1>13, <1>15 DEF NoteIncomingPacket
  <2>2. ~(n > M)
    BY <1>3, <1>4, <1>10, <1>15
  <2>3. highest + d < base <=> n < m
    BY <1>3, <1>4, <1>5, <1>6, <1>7, <1>11
  <2> QED  BY <1>8, <1>11, <2>1, <2>2, <2>3 DEF M, m
<1> QED  BY <1>14, <1>15

LEMMA ReceiveNetInv ==
  ASSUME NetInv, NEW n \in net, Receive(n) PROVE NetInv'
<1>1. /\ NoteIncomingPacket(SeqNoOf(n)) /\ received' = received \cup {n}
      /\ net' \subseteq net /\ net \ {n} \subseteq net'
      /\ seqNo' = seqNo /\ first' = first /\ reported' = reported
      /\ reports' = reports
      /\ \/ faults' = faults
         \/ faults < MaxFaults /\ faults' = faults + 1
  BY DEF Receive, sinkAndBuffer, sinkVars
<1>2. /\ seqNo \in Nat /\ net \subseteq 0..(seqNo - 1)
      /\ received \subseteq 0..(seqNo - 1) /\ faults \in Nat
      /\ Cardinality(net) <= InFlight /\ InFlight \in Nat /\ MaxFaults \in Nat
      /\ seqNo - 1 \in Int /\ n \in Nat /\ faults <= MaxFaults
  BY FlightAssumption DEF NetInv, NetTypeOK
<1>3. /\ seen' = TRUE /\ total' = total + 1 /\ sinceReset' = sinceReset + 1
      /\ lastReset' = lastReset /\ fraction' = fraction
  BY <1>1 DEF NoteIncomingPacket
<1>4. /\ total \in Nat /\ sinceReset \in 0..total /\ lastReset \in 0..highest
      /\ fraction \in 0..255 /\ highest \in Nat /\ base \in Nat
      /\ reported \subseteq received
  BY DEF NetInv, NetTypeOK, StatsTypeOK
<1>5. ExtendedInv'
  <2>1. SUFFICES
          \E a \in received':
            /\ highest' = TrueNumber(Max(received'), a)
            /\ base' = TrueNumber(Min(received'), a)
            /\ reports > 0 => lastReset = TrueNumber(Max(reported), a)
    BY <1>1, <1>3, Zenon DEF ExtendedInv, TrueNumber, SeqNoOf
  <2>2. CASE received = {}
    <3>1. highest' = TrueNumber(n, n) /\ base' = TrueNumber(n, n)
      BY <1>1, <2>2, NoteFirst
    <3>2. received' = {n} /\ Max({n}) = n /\ Min({n}) = n
      BY <1>1, <1>2, <2>2, OfOne
    <3>3. ~(reports > 0)
      BY <1>4, <2>2 DEF NetInv, CountsInv
    <3> QED  BY <3>1, <3>2, <3>3
  <2>3. CASE received # {}
    <3>1. PICK a \in received:
            /\ highest = TrueNumber(Max(received), a)
            /\ base = TrueNumber(Min(received), a)
            /\ reports > 0 => lastReset = TrueNumber(Max(reported), a)
      BY <2>3 DEF NetInv, ExtendedInv
    <3>2. /\ highest' = TrueNumber(Max(received \cup {n}), a)
          /\ base' = TrueNumber(Min(received \cup {n}), a)
      BY <1>1, <2>3, <3>1, NoteNext
    <3> QED  BY <1>1, <3>1, <3>2
  <2> QED  BY <2>2, <2>3
<1>6. StatsTypeOK'
  <2>1. highest' \in Nat /\ base' \in Nat /\ base' <= highest'
        /\ highest' >= highest
    <3>1. PICK a \in received':
            /\ highest' = TrueNumber(Max(received'), a)
            /\ base' = TrueNumber(Min(received'), a)
      BY <1>1, <1>3, <1>5 DEF ExtendedInv, TrueNumber, SeqNoOf
    <3>2. n \in 0..(seqNo - 1) /\ seqNo - 1 \in Nat
          /\ received' \subseteq 0..(seqNo - 1) /\ received' # {}
          /\ received' \subseteq Nat
      BY <1>1, <1>2
    <3> DEFINE M == Max(received')
               m == Min(received')
               A == SeqNoOf(a)
    <3>3. M \in Nat /\ m \in Nat /\ m <= M /\ a <= M /\ a \in Nat
      BY <3>1, <3>2, MaxIs, MinIs
    <3>4. A \in Nat /\ A <= CYCLE - 1 /\ CYCLE \in Nat
      BY <3>3, TrueNumberMod, CycleAssumption DEF NetInv, NetTypeOK
    <3>5. highest' = (CYCLE + A + M) - a /\ base' = (CYCLE + A + m) - a
      BY <3>1, <3>3, <3>4 DEF TrueNumber
    <3> HIDE DEF M, m, A
    <3>6. highest' \in Nat /\ base' \in Int /\ base' <= highest'
      BY <3>3, <3>4, <3>5
    <3>7. CASE received = {}
      <4>1. highest' = base' /\ highest = 0
        BY <1>1, <3>7, NoteFirst DEF NetInv, CountsInv
      <4> QED  BY <3>6, <4>1
    <3>8. CASE received # {}
      <4>1. highest' >= highest /\ base' \in Nat
        <5>1. PICK b \in received:
                /\ highest = TrueNumber(Max(received), b)
                /\ base = TrueNumber(Min(received), b)
          BY <3>8 DEF NetInv, ExtendedInv
        <5>2. /\ highest' = TrueNumber(Max(received \cup {n}), b)
              /\ base' = TrueNumber(Min(received \cup {n}), b)
          BY <1>1, <3>8, <5>1, NoteNext
        <5> DEFINE K == Max(received)
                   k == Min(received)
                   B == SeqNoOf(b)
        <5>3. /\ K \in Nat /\ k \in Nat /\ k \in received /\ b <= K
              /\ b \in Nat /\ 0 - Half < n - K
          <6>1. received \subseteq Nat /\ received \subseteq 0..(seqNo - 1)
            BY <1>2
          <6> QED  BY <3>2, <3>8, <6>1, MaxIs, MinIs, NearTheNewest
        <5>4. /\ Max(received \cup {n}) = IF n > K THEN n ELSE K
              /\ Min(received \cup {n}) = IF n < k THEN n ELSE k
          BY <1>2, <3>2, <3>8, MaxWith, MinWith
        <5>5. B \in Nat /\ CYCLE = 2 * Half /\ Half \in Nat
          BY <5>3, TrueNumberMod, HalfIs, CycleAssumption DEF NetInv, NetTypeOK
        <5>6. /\ highest = (CYCLE + B + K) - b /\ base = (CYCLE + B + k) - b
              /\ highest' = (CYCLE + B + (IF n > K THEN n ELSE K)) - b
              /\ base' = (CYCLE + B + (IF n < k THEN n ELSE k)) - b
          <6>1. /\ highest = TrueNumber(K, b) /\ base = TrueNumber(k, b)
                /\ highest' = TrueNumber(IF n > K THEN n ELSE K, b)
                /\ base' = TrueNumber(IF n < k THEN n ELSE k, b)
            BY <5>1, <5>2, <5>4
          <6>2. /\ (IF n > K THEN n ELSE K) \in Nat
                /\ (IF n < k THEN n ELSE k) \in Nat
                /\ first \in 0..(CYCLE - 1)
            BY <1>2, <5>3 DEF NetInv, NetTypeOK
          <6> HIDE DEF K, k
          <6> QED  BY <5>3, <6>1, <6>2, TrueNumberIs DEF B
        <5> HIDE DEF K, k, B
        <5>7. highest' >= highest
          BY <1>2, <5>3, <5>5, <5>6
        <5>8. base' \in Nat
          BY <1>2, <1>4, <5>3, <5>5, <5>6
        <5> QED  BY <5>7, <5>8
      <4> QED  BY <3>6, <4>1
    <3> QED  BY <3>7, <3>8
  <2>2. sinceReset' \in 0..total' /\ total' \in Nat /\ lastReset' \in 0..highest'
    BY <1>3, <1>4, <2>1
  <2>3. seen' \in BOOLEAN
    BY <1>3
  <2> QED  BY <1>3, <1>4, <2>1, <2>2, <2>3 DEF StatsTypeOK
<1>7. NetTypeOK'
  <2>1. IsFiniteSet(net) /\ net' \in SUBSET net /\ IsFiniteSet(net')
        /\ Cardinality(net') \in Nat /\ Cardinality(net) \in Nat
    BY <1>1, <1>2, PacketsFinite, FS_Subset, FS_CardinalityType
  <2>2. Cardinality(net') <= Cardinality(net)
    BY ONLY <2>1, FS_Subset
  <2>3. Cardinality(net') <= InFlight
    BY <1>2, <2>1, <2>2
  <2>4. net' \subseteq 0..(seqNo' - 1) /\ received' \subseteq 0..(seqNo' - 1)
    BY <1>1, <1>2
  <2>5. /\ first' \in 0..(CYCLE - 1) /\ reported' \subseteq received'
        /\ reports' \in 0..MaxReports /\ faults' \in 0..MaxFaults
    BY <1>1, <1>2, <1>4 DEF NetInv, NetTypeOK
  <2> QED  BY <1>6, <2>3, <2>4, <2>5 DEF NetTypeOK
<1>8. FlightInv'
  <2>1. Missing' \in SUBSET Missing
    BY <1>1 DEF Missing
  <2>2. IsFiniteSet(Missing) /\ IsFiniteSet(Missing')
        /\ Cardinality(Missing') \in Nat /\ Cardinality(Missing) \in Nat
    BY <1>2, <2>1, PacketsFinite, FS_Subset, FS_CardinalityType DEF Missing
  <2>3. Cardinality(Missing') <= Cardinality(Missing)
    BY ONLY <2>1, <2>2, FS_Subset
  <2>4. Cardinality(Missing') <= faults'
    BY <1>1, <1>2, <2>2, <2>3 DEF NetInv, FlightInv
  <2> QED  BY <1>1, <2>4 DEF NetInv, FlightInv
<1>9. CountsInv'
  <2>1. received' \ reported' \subseteq (received \ reported) \cup {n}
        /\ received \ reported \subseteq 0..(seqNo - 1)
        /\ received' \ reported' \subseteq 0..(seqNo - 1)
    BY <1>1, <1>2
  <2>2. IsFiniteSet(received \ reported)
        /\ Cardinality(received \ reported) \in Nat
        /\ Cardinality(received' \ reported') \in Nat
    BY <1>2, <2>1, PacketsFinite
  <2>3. Cardinality(received' \ reported') <= Cardinality(received \ reported) + 1
    BY <2>1, <2>2, OneMoreAtMost
  <2>4. sinceReset >= Cardinality(received \ reported)
    BY DEF NetInv, CountsInv
  <2>5. sinceReset' >= Cardinality(received' \ reported')
    BY <1>3, <1>4, <2>2, <2>3, <2>4
  <2>6. received' # {} /\ total' > 0 /\ seen' = TRUE
    BY <1>1, <1>3, <1>4
  <2>7. reports' > 0 => reported' # {}
    BY <1>1 DEF NetInv, CountsInv
  <2> QED  BY <2>5, <2>6, <2>7, Zenon DEF CountsInv
<1>10. LossInv'
  BY <1>1, <1>3, Zenon DEF NetInv, LossInv
<1> QED  BY <1>1, <1>2, <1>5, <1>7, <1>8, <1>9, <1>10 DEF NetInv

LEMMA ReportNetInv ==
  ASSUME NetInv, SendReport PROVE NetInv'
<1>1. /\ seqNo' = seqNo /\ first' = first /\ net' = net
      /\ received' = received /\ faults' = faults /\ reported' = received
      /\ reports < MaxReports /\ reports' = reports + 1
      /\ sinceReset > 0 /\ sinceReset' = 0 /\ lastReset' = highest
      /\ seen' = seen /\ base' = base /\ highest' = highest /\ total' = total
  BY DEF SendReport, Report, sinkAndBuffer, sinkVars
<1> DEFINE expected == highest - lastReset
           lost == expected - sinceReset
<1>2. fraction' = IF expected = 0 \/ lost < 0 THEN 0
                  ELSE ((lost * 256) \div expected) % 256
  BY DEF SendReport, Report
<1>3. /\ seqNo \in Nat /\ received \subseteq 0..(seqNo - 1)
      /\ reported \subseteq received /\ reports \in 0..MaxReports
      /\ MaxReports \in Nat
      /\ total \in Nat /\ sinceReset \in 0..total /\ lastReset \in 0..highest
      /\ highest \in Nat /\ base \in Nat /\ base <= highest /\ seen \in BOOLEAN
  BY FlightAssumption DEF NetInv, NetTypeOK, StatsTypeOK
<1>4. expected \in Nat /\ lost \in Int
  BY <1>3
<1>5. received # {}
  <2>1. total > 0
    BY <1>1, <1>3
  <2> QED  BY <2>1 DEF NetInv, CountsInv
<1>6. fraction' \in 0..255 /\ (fraction' > 0 => lost > 0)
  <2> HIDE DEF expected, lost
  <2>1. CASE expected = 0 \/ lost < 0
    BY <1>2, <2>1
  <2>2. CASE ~(expected = 0 \/ lost < 0)
    <3> DEFINE scaled == lost * 256
               share == scaled \div expected
    <3>1. scaled \in Nat /\ expected \in Nat \ {0} /\ (lost = 0 => scaled = 0)
      BY <1>4, <2>2
    <3>2. share \in Nat /\ (scaled = 0 => share = 0)
      BY ONLY <3>1, QuotientType
    <3>3. fraction' = share % 256
      BY <1>2, <2>2
    <3> HIDE DEF scaled, share
    <3>4. share % 256 \in 0..255 /\ (share = 0 => share % 256 = 0)
      BY <3>2
    <3> QED  BY <1>4, <2>2, <3>1, <3>2, <3>3, <3>4
  <2> QED  BY <2>1, <2>2
<1>7. NetTypeOK'
  <2>1. StatsTypeOK'
    <3>1. /\ seen' \in BOOLEAN /\ total' \in Nat /\ sinceReset' \in 0..total'
          /\ base' \in Nat /\ highest' \in Nat /\ base' <= highest'
          /\ lastReset' \in 0..highest'
      BY <1>1, <1>3
    <3> QED  BY <1>6, <3>1 DEF StatsTypeOK
  <2>2. /\ first' \in 0..(CYCLE - 1)
        /\ net' \subseteq 0..(seqNo' - 1)
        /\ Cardinality(net') <= InFlight /\ faults' \in 0..MaxFaults
    BY <1>1 DEF NetInv, NetTypeOK
  <2>3. /\ received' \subseteq 0..(seqNo' - 1) /\ reported' \subseteq received'
        /\ reports' \in 0..MaxReports
    BY <1>1, <1>3
  <2> QED  BY <2>1, <2>2, <2>3 DEF NetTypeOK
<1>8. FlightInv'
  BY <1>1, Zenon DEF NetInv, FlightInv, Missing
<1>9. CountsInv'
  <2>1. received' \ reported' = {} /\ Cardinality({}) = 0
    BY <1>1, FS_EmptySet
  <2>2. sinceReset' >= Cardinality(received' \ reported')
    BY <1>1, <2>1
  <2>3. /\ seen' <=> received' # {}
        /\ seen' <=> total' > 0
        /\ ~seen' => highest' = 0
    BY <1>1, Zenon DEF NetInv, CountsInv
  <2> QED  BY <1>1, <1>5, <2>2, <2>3, Zenon DEF CountsInv
<1>10. PICK a \in received:
         /\ highest = TrueNumber(Max(received), a)
         /\ base = TrueNumber(Min(received), a)
         /\ reports > 0 => lastReset = TrueNumber(Max(reported), a)
  BY <1>5 DEF NetInv, ExtendedInv
<1>11. ExtendedInv'
  <2>1. /\ highest' = TrueNumber(Max(received), a)
        /\ base' = TrueNumber(Min(received), a)
        /\ lastReset' = TrueNumber(Max(received), a)
    BY <1>1, <1>10
  <2> QED  BY <1>1, <2>1, Zenon DEF ExtendedInv, TrueNumber, SeqNoOf
<1>12. LossInv'
  <2>1. SUFFICES ASSUME reports' > 1, fraction' > 0,
                        \A n \in Min(received)..Max(received): n \in received
                 PROVE  FALSE
    BY <1>1 DEF LossInv
  <2>2. reports > 0 /\ reported # {}
    <3>1. reports > 0
      BY <1>1, <1>3, <2>1
    <3> QED  BY <3>1 DEF NetInv, CountsInv
  <2>3. lost > 0
    BY <1>6, <2>1
  <2> DEFINE M == Max(received)
             m == Min(received)
             R == Max(reported)
             A == SeqNoOf(a)
             New == received \ reported
  <2>4. seqNo - 1 \in Nat /\ received \subseteq Nat
        /\ reported \subseteq 0..(seqNo - 1)
    BY <1>3, <1>5
  <2>5. /\ M \in received /\ \A x \in received: x <= M
        /\ R \in reported /\ \A x \in reported: x <= R
        /\ \A x \in received: m <= x
    BY <1>3, <1>5, <2>2, <2>4, MaxIs, MinIs
  <2>6. M \in Nat /\ R \in Nat /\ m \in Nat /\ m <= R /\ R <= M
    BY <1>3, <1>5, <2>4, <2>5, MinIs
  <2>7. a \in Nat /\ A \in Nat /\ CYCLE \in Nat
    BY <2>4, TrueNumberMod, CycleAssumption DEF NetInv, NetTypeOK
  <2>8. highest = (CYCLE + A + M) - a /\ lastReset = (CYCLE + A + R) - a
    <3>1. highest = TrueNumber(M, a) /\ lastReset = TrueNumber(R, a)
      BY <1>10, <2>2
    <3>2. first \in 0..(CYCLE - 1)
      BY DEF NetInv, NetTypeOK
    <3> HIDE DEF M, R
    <3> QED  BY <2>6, <2>7, <3>1, <3>2, TrueNumberIs DEF A
  <2>9. (R + 1)..M \subseteq New
    <3>1. SUFFICES ASSUME NEW k \in (R + 1)..M PROVE k \in New
      OBVIOUS
    <3>2. k \in m..M
      BY <2>6
    <3>3. k \notin reported
      BY <2>5, <2>6
    <3> QED  BY <2>1, <3>2, <3>3
  <2>10. IsFiniteSet(New) /\ Cardinality(New) \in Nat
    BY <1>3, PacketsFinite, seqNo - 1 \in Int
  <2>11. sinceReset >= Cardinality(New)
    BY DEF NetInv, CountsInv
  <2> HIDE DEF M, m, R, A, New
  <2>12. expected = M - R
    BY <2>6, <2>7, <2>8
  <2>13. R + 1 \in Int /\ ~(R + 1 > M)
    BY <1>3, <2>3, <2>6, <2>12
  <2>14. Cardinality((R + 1)..M) = M - (R + 1) + 1
    BY ONLY <2>6, <2>13, FS_Interval
  <2>15. Cardinality((R + 1)..M) <= Cardinality(New)
    BY ONLY <2>9, <2>10, FS_Subset
  <2>16. expected <= sinceReset
    BY <1>3, <2>6, <2>10, <2>11, <2>12, <2>14, <2>15
  <2> QED  BY <1>3, <1>4, <2>3, <2>16
<1> QED  BY <1>1, <1>3, <1>7, <1>8, <1>9, <1>11, <1>12 DEF NetInv

-----------------------------------------------------------------------------
\* The specification.

LEMMA InvInit ==
  ASSUME Init PROVE IInv
<1>1. SinkInv
  BY SinkInitInv DEF Init
<1> QED  BY <1>1, NetInitInv, PartsOfInv

LEMMA InvNext ==
  ASSUME IInv, [Next]_vars PROVE IInv'
<1>1. SinkInv /\ NetInv
  BY PartsOfInv
<1>2. CASE UNCHANGED vars
  <2>1. /\ UNCHANGED <<statsVars, networkVars>> /\ seqNo' = seqNo
    BY <1>2 DEF vars, sinkAndBuffer, sinkVars
  <2>2. NetInv'
    BY <1>1, <2>1, NetSame
  <2>3. SinkInv'
    BY <1>1, <1>2, SinkSame DEF vars
  <2> QED  BY <2>2, <2>3, PartsOfInv
<1>3. CASE SinkStep \/ Play \/ Pause
  <2>1. UNCHANGED <<statsVars, networkVars>>
    BY <1>3 DEF SinkStep, Play, Pause
  <2>2. seqNo' = seqNo
    BY <1>3 DEF SinkStep, Play, Pause, StartPlaying, StopPlaying, SendNext,
                BuildPacket, PackFrame, AfterGettingFrame, OurHandleClosure,
                UseFrame
  <2>3. SinkInv'
    BY <1>1, <1>3, BuildInv, StopInv, PackFrameInv, GotFrameInv, ClosureInv,
       UseFrameInv
    DEF SinkStep, Play, Pause
  <2> QED  BY <1>1, <2>1, <2>2, <2>3, NetSame, PartsOfInv
<1>4. CASE Send
  <2>1. SinkInv' /\ NetInv'
    BY <1>1, <1>4, SendPacketInv, SendNetInv DEF Send
  <2> QED  BY <2>1, PartsOfInv
<1>5. ASSUME NEW n \in net, Receive(n) \/ Lose(n)
      PROVE  IInv'
  <2>1. NetInv'
    BY <1>1, <1>5, ReceiveNetInv, LoseNetInv
  <2>2. UNCHANGED sinkAndBuffer
    BY <1>5 DEF Receive, Lose
  <2>3. SinkInv'
    BY <1>1, <2>2, SinkSame
  <2> QED  BY <2>1, <2>3, PartsOfInv
<1>6. CASE SendReport
  <2>1. NetInv'
    BY <1>1, <1>6, ReportNetInv
  <2>2. UNCHANGED sinkAndBuffer
    BY <1>6 DEF SendReport
  <2>3. SinkInv'
    BY <1>1, <2>2, SinkSame
  <2> QED  BY <2>1, <2>3, PartsOfInv
<1> QED  BY <1>2, <1>3, <1>4, <1>5, <1>6 DEF Next, NetworkStep

LEMMA AlwaysInv == Spec => []IInv
<1>1. Init => IInv
  BY InvInit
<1>2. IInv /\ [Next]_vars => IInv'
  BY InvNext
<1> QED  BY <1>1, <1>2, PTL DEF Spec

\* The counts and offsets of sink, network and receiver are what they should
\* be: a packet about to be sent is no larger than fMax and fits into the
\* memory, and so does the overflow data behind it (OutPacketBuffer,
\* MultiFramedRTPSink.cpp), and the lowest number received is never above the
\* highest (RTPReceptionStats::noteIncomingPacket).
THEOREM TypeCorrect == Spec => []TypeOK
<1>1. IInv => TypeOK
  BY DEF IInv
<1> QED  BY <1>1, AlwaysInv, PTL

\* However the sequence numbers wrap around, and whatever the network loses,
\* repeats and reorders within half of them, the receiver's highest and lowest
\* numbers are those of the newest and the oldest packet that has arrived, and
\* no report after the first claims a loss unless a packet is missing
\* (RTPReceptionStats::noteIncomingPacket, enqueueReportBlock).
THEOREM CountsTrue == Spec => []ReportsTrue
<1>1. IInv => ReportsTrue
  <2>1. SUFFICES ASSUME IInv PROVE ReportsTrue
    OBVIOUS
  <2>2. ExtendedInv /\ LossInv
    BY <2>1 DEF IInv
  <2>3. received # {} =>
          \E a \in received:
            /\ highest = TrueNumber(Max(received), a)
            /\ base = TrueNumber(Min(received), a)
    BY <2>2 DEF ExtendedInv
  <2> QED  BY <2>2, <2>3 DEF LossInv, ReportsTrue
<1> QED  BY <1>1, AlwaysInv, PTL

-----------------------------------------------------------------------------
\* What a receiver finds in a packet (EnclosedFrames).

Unit == Int \X Int

LEMMA SizeEnclosed ==
  ASSUME NEW S, NEW units \in Seq(S), NEW i \in 1..Len(units)
  PROVE  /\ EnclosedSize(units, i) \in 0..(Len(units) - i)
         /\ EnclosedFrame(units, i) \in Seq(Seq(S))
<1>1. PICK l \in Nat : l = Len(units)
  BY LenProperties
<1>2. PICK n \in 0..(l - i) : n = EnclosedSize(units, i)
  <2>1. l - i \in 0..(l - i)
    BY <1>1
  <2> QED  BY <1>1, <2>1 DEF EnclosedSize
<1>3. SubSeq(units, i + 1, i + n) \in Seq(S)
  <2>1. i + 1 \in Int /\ i + n \in Int /\ \A k \in (i + 1)..(i + n) : k \in 1..l
    BY <1>1
  <2>2. \A k \in (i + 1)..(i + n) : units[k] \in S
    BY <1>1, <2>1, ElementOfSeq
  <2> QED  BY ONLY <2>1, <2>2, SubSeqProperties
<1>4. EnclosedFrame(units, i) \in Seq(Seq(S))
  <2>1. << >> \in Seq(Seq(S))
    OBVIOUS
  <2>2. <<SubSeq(units, i + 1, i + n)>> \in Seq(Seq(S))
    BY <1>3
  <2> QED  BY <1>2, <2>1, <2>2 DEF EnclosedFrame
<1> QED  BY <1>1, <1>2, <1>4

\* f is what the receiver finds from place m of a packet on.
Reading(f, units, m) ==
  /\ f \in [1..(Len(units) + 1) -> Seq(Seq(Unit))]
  /\ \A i \in m..(Len(units) + 1) :
       f[i] = IF i > Len(units) THEN << >>
              ELSE EnclosedFrame(units, i) \o f[i + 1 + EnclosedSize(units, i)]

LEMMA ReadingExists ==
  ASSUME NEW units \in Seq(Unit)
  PROVE  \E f : Reading(f, units, 1)
<1> DEFINE Frame == Seq(Unit)
<1>1. PICK l \in Nat : l = Len(units)
  BY LenProperties
<1> DEFINE T == {n \in 0..l : \E f : Reading(f, units, (l + 1) - n)}
<1>2. << >> \in Seq(Frame)
  OBVIOUS
<1>3. 0 \in T
  <2> DEFINE f == [i \in 1..(l + 1) |-> << >>]
  <2>1. f \in [1..(l + 1) -> Seq(Frame)]
    BY <1>2
  <2>2. f[l + 1] = << >> /\ l + 1 > l
    OBVIOUS
  <2> HIDE DEF f
  <2>3. Reading(f, units, (l + 1) - 0)
    BY <1>1, <2>1, <2>2 DEF Reading
  <2> QED  BY <2>3
<1>4. ASSUME NEW n \in 1..l, n - 1 \in T
      PROVE  n \in T
  <2>1. PICK f : Reading(f, units, (l + 1) - (n - 1))
    BY <1>4
  <2>2. PICK i \in 1..l : i = (l + 1) - n
    OBVIOUS
  <2>3. PICK k \in 0..(l - i) : k = EnclosedSize(units, i)
    BY <1>1, SizeEnclosed
  <2>4. i + 1 + k \in 1..(l + 1) /\ i + 1 + k > i
    BY <2>2, <2>3
  <2> DEFINE new == EnclosedFrame(units, i) \o f[i + 1 + k]
             g == [f EXCEPT ![i] = new]
  <2>5. f \in [1..(l + 1) -> Seq(Frame)]
    BY <1>1, <2>1 DEF Reading
  <2>6. new \in Seq(Frame)
    <3>1. EnclosedFrame(units, i) \in Seq(Frame)
      BY <1>1, SizeEnclosed
    <3>2. f[i + 1 + k] \in Seq(Frame)
      BY <2>4, <2>5
    <3>3. \A a, b \in Seq(Frame) : a \o b \in Seq(Frame)
      BY ONLY ConcatProperties
    <3> HIDE DEF Frame
    <3> QED  BY ONLY <3>1, <3>2, <3>3
  <2>7. g \in [1..(l + 1) -> Seq(Frame)]
    BY <2>5, <2>6
  <2>8. g[i] = EnclosedFrame(units, i) \o g[i + 1 + k]
    BY <2>4, <2>5
  <2>9. ASSUME NEW j \in (i + 1)..(l + 1)
        PROVE  g[j] = IF j > l THEN << >>
                      ELSE EnclosedFrame(units, j) \o g[j + 1 + EnclosedSize(units, j)]
    <3>1. j \in 1..(l + 1) /\ j # i /\ g[j] = f[j]
      BY <2>5
    <3>2. j \in ((l + 1) - (n - 1))..(l + 1)
      BY <2>2
    <3>3. CASE j > l
      BY <1>1, <2>1, <3>1, <3>2, <3>3 DEF Reading
    <3>4. CASE ~(j > l)
      <4>1. j \in 1..l
        BY <3>1, <3>4
      <4>2. PICK m \in 0..(l - j) : m = EnclosedSize(units, j)
        BY <1>1, <4>1, SizeEnclosed
      <4>3. g[j + 1 + m] = f[j + 1 + m]
        <5>1. j + 1 + m \in 1..(l + 1) /\ j + 1 + m # i
          BY <3>1, <4>1, <4>2
        <5> QED  BY <2>5, <5>1
      <4>4. f[j] = EnclosedFrame(units, j) \o f[j + 1 + m]
        BY <1>1, <2>1, <3>2, <3>4, <4>2 DEF Reading
      <4> QED  BY <3>1, <3>4, <4>2, <4>3, <4>4
    <3> QED  BY <3>3, <3>4
  <2> HIDE DEF g, new
  <2>10. Reading(g, units, i)
    <3>1. ASSUME NEW j \in i..(l + 1)
          PROVE  g[j] = IF j > l THEN << >>
                        ELSE EnclosedFrame(units, j) \o g[j + 1 + EnclosedSize(units, j)]
      <4>1. CASE j = i
        <5>1. ~(i > l)
          BY <2>2
        <5>2. g[i] = EnclosedFrame(units, i) \o g[i + 1 + EnclosedSize(units, i)]
          BY <2>3, <2>8, Zenon
        <5> QED  BY <4>1, <5>1, <5>2, Zenon
      <4>2. CASE j # i
        <5>1. j \in (i + 1)..(l + 1)
          BY <4>2
        <5> QED  BY <2>9, <5>1
      <4> QED  BY <4>1, <4>2
    <3> QED  BY <1>1, <2>7, <3>1 DEF Reading
  <2> QED  BY <2>2, <2>10
<1> HIDE DEF T
<1>5. \A n \in 0..l : n \in T
  BY <1>3, <1>4, UpTo
<1>6. PICK f : Reading(f, units, (l + 1) - l)
  <2>1. l \in 0..l
    OBVIOUS
  <2>2. l \in T
    BY <1>5, <2>1, Zenon
  <2> QED  BY <2>2, Zenon DEF T
<1>7. (l + 1) - l = 1
  OBVIOUS
<1> QED  BY <1>6, <1>7

\* What EnclosedFrames computes.
LEMMA EnclosedIsReading ==
  ASSUME NEW units \in Seq(Unit)
  PROVE  \E f : /\ EnclosedFrames(units) = f[1]
                /\ \A i \in 1..(Len(units) + 1) :
                     f[i] = IF i > Len(units) THEN << >>
                            ELSE EnclosedFrame(units, i)
                                   \o f[i + 1 + EnclosedSize(units, i)]
<1> DEFINE Find(f) == [i \in 1..(Len(units) + 1) |->
                         IF i > Len(units) THEN << >>
                         ELSE EnclosedFrame(units, i) \o f[i + 1 + EnclosedSize(units, i)]]
           F == CHOOSE f : f = Find(f)
<1>1. PICK f : Reading(f, units, 1)
  BY ReadingExists
<1>2. f = Find(f)
  BY <1>1 DEF Reading
<1>3. F = Find(F)
  BY <1>2
<1>4. EnclosedFrames(units) = F[1]
  BY DEF EnclosedFrames
<1> HIDE DEF F
<1> QED  BY <1>3, <1>4
-----------------------------------------------------------------------------
\* Pieces of frames, and where in the memory they lie.

\* n units of the k-th frame, from its unit at + 1 on.
Piece(k, at, n) == [i \in 1..n |-> Data(k, at + i)]

\* The n whole frames up to the top-th, of the sizes fs.
Wholes(fs, top, n) == [x \in 1..n |-> Piece((top - n) + x, 0, fs[(top - n) + x])]

\* The memory m holds units from a on.
Lies(m, a, units) == \A i \in 1..Len(units) : m[(a + i) - 1] = units[i]

LEMMA UnitIs ==
  ASSUME NEW k \in Int, NEW i \in Int
  PROVE  Data(k, i) \in Unit /\ FrameHeader(i) \in Unit /\ Header \in Unit
BY DEF Data, FrameHeader, Header, Unit

LEMMA PieceIs ==
  ASSUME NEW k \in Nat, NEW at \in Nat, NEW n \in Nat
  PROVE  /\ Piece(k, at, n) \in Seq(Unit)
         /\ Len(Piece(k, at, n)) = n
         /\ \A i \in 1..n : Piece(k, at, n)[i] = Data(k, at + i)
<1>1. ASSUME NEW i \in 1..n
      PROVE  Data(k, at + i) \in Unit
  <2>1. k \in Int /\ at + i \in Int
    OBVIOUS
  <2> QED  BY <2>1, UnitIs
<1> HIDE DEF Unit, Data
<1>2. Piece(k, at, n) \in [1..n -> Unit]
  BY <1>1 DEF Piece
<1>3. Piece(k, at, n) \in Seq(Unit) /\ Len(Piece(k, at, n)) = n
  BY <1>2
<1> QED  BY <1>3 DEF Piece

LEMMA PieceNone ==
  ASSUME NEW k \in Nat, NEW at \in Nat
  PROVE  Piece(k, at, 0) = << >>
<1>1. Piece(k, at, 0) \in Seq(Unit) /\ Len(Piece(k, at, 0)) = 0
  BY PieceIs
<1> QED  BY <1>1

LEMMA PieceJoin ==
  ASSUME NEW k \in Nat, NEW a \in Nat, NEW b \in Nat
  PROVE  Piece(k, 0, a) \o Piece(k, a, b) = Piece(k, 0, a + b)
<1> DEFINE p == Piece(k, 0, a)
           q == Piece(k, a, b)
           r == Piece(k, 0, a + b)
<1>1. /\ p \in Seq(Unit) /\ Len(p) = a
      /\ \A i \in 1..a : p[i] = Data(k, 0 + i)
  BY PieceIs
<1>2. /\ q \in Seq(Unit) /\ Len(q) = b
      /\ \A i \in 1..b : q[i] = Data(k, a + i)
  BY PieceIs
<1>3. a + b \in Nat
  OBVIOUS
<1>4. /\ r \in Seq(Unit) /\ Len(r) = a + b
      /\ \A i \in 1..(a + b) : r[i] = Data(k, 0 + i)
  BY <1>3, PieceIs
<1> HIDE DEF p, q, r
<1>5. /\ p \o q \in Seq(Unit)
      /\ Len(p \o q) = Len(p) + Len(q)
      /\ \A i \in 1..Len(p) + Len(q) : (p \o q)[i] =
           IF i <= Len(p) THEN p[i] ELSE q[i - Len(p)]
  BY ONLY <1>1, <1>2, ConcatProperties
<1>6. ASSUME NEW i \in 1..(a + b)
      PROVE  (p \o q)[i] = r[i]
  <2>1. CASE i <= a
    BY <1>1, <1>2, <1>4, <1>5, <2>1
  <2>2. CASE ~(i <= a)
    <3>1. i - a \in 1..b /\ a + (i - a) = 0 + i
      BY <2>2
    <3> QED  BY <1>1, <1>2, <1>4, <1>5, <2>2, <3>1
  <2> QED  BY <2>1, <2>2
<1>7. Len(p \o q) = Len(r) /\ \A i \in 1..Len(p \o q) : (p \o q)[i] = r[i]
  BY <1>1, <1>2, <1>4, <1>5, <1>6
<1>8. p \o q = r
  BY ONLY <1>4, <1>5, <1>7, SeqEqual
<1> QED  BY <1>8 DEF p, q, r

LEMMA WholesIs ==
  ASSUME NEW fs \in Seq(Nat), NEW top \in 0..Len(fs), NEW n \in 0..top
  PROVE  /\ Wholes(fs, top, n) \in Seq(Seq(Unit))
         /\ Len(Wholes(fs, top, n)) = n
         /\ \A x \in 1..n : /\ (top - n) + x \in 1..Len(fs)
                            /\ fs[(top - n) + x] \in Nat
                            /\ Wholes(fs, top, n)[x] =
                                 Piece((top - n) + x, 0, fs[(top - n) + x])
<1>1. PICK l \in Nat : l = Len(fs)
  BY LenProperties
<1>2. ASSUME NEW x \in 1..n
      PROVE  (top - n) + x \in 1..l /\ fs[(top - n) + x] \in Nat
  <2>1. (top - n) + x \in 1..l
    BY <1>1
  <2> QED  BY <1>1, <2>1, ElementOfSeq
<1>3. ASSUME NEW x \in 1..n
      PROVE  Piece((top - n) + x, 0, fs[(top - n) + x]) \in Seq(Unit)
  <2>1. (top - n) + x \in Nat /\ fs[(top - n) + x] \in Nat
    BY <1>2
  <2> QED  BY <2>1, PieceIs
<1> HIDE DEF Unit, Piece
<1>4. Wholes(fs, top, n) \in [1..n -> Seq(Unit)]
  BY <1>3 DEF Wholes
<1>5. n \in Nat
  BY <1>1
<1>6. Wholes(fs, top, n) \in Seq(Seq(Unit)) /\ Len(Wholes(fs, top, n)) = n
  BY <1>4, <1>5
<1> QED  BY <1>1, <1>2, <1>6 DEF Wholes

LEMMA WholesMore ==
  ASSUME NEW fs \in Seq(Nat), NEW top \in 1..Len(fs), NEW n \in 1..top
  PROVE  Append(Wholes(fs, top - 1, n - 1), Piece(top, 0, fs[top]))
           = Wholes(fs, top, n)
<1>1. PICK l \in Nat : l = Len(fs)
  BY LenProperties
<1>2. PICK t \in 0..Len(fs) : t = top - 1
  BY <1>1
<1>3. PICK k \in 0..t : k = n - 1
  BY <1>1, <1>2
<1>4. top \in 0..Len(fs) /\ n \in 0..top /\ fs[top] \in Nat /\ top \in Nat /\ 0 \in Nat
  <2>1. top \in 1..l
    BY <1>1
  <2> QED  BY <1>1, <2>1, ElementOfSeq
<1> DEFINE v == Wholes(fs, t, k)
           w == Wholes(fs, top, n)
           p == Piece(top, 0, fs[top])
<1>5. /\ v \in Seq(Seq(Unit)) /\ Len(v) = k
      /\ \A x \in 1..k : v[x] = Piece((t - k) + x, 0, fs[(t - k) + x])
  BY WholesIs
<1>6. /\ w \in Seq(Seq(Unit)) /\ Len(w) = n
      /\ \A x \in 1..n : w[x] = Piece((top - n) + x, 0, fs[(top - n) + x])
  BY <1>4, WholesIs
<1>7. p \in Seq(Unit)
  BY <1>4, PieceIs
<1> HIDE DEF v, w
<1>8. /\ Append(v, p) \in Seq(Seq(Unit)) /\ Len(Append(v, p)) = Len(v) + 1
      /\ \A i \in 1..Len(v) : Append(v, p)[i] = v[i]
      /\ Append(v, p)[Len(v) + 1] = p
  <2> HIDE DEF p
  <2> QED  BY ONLY <1>5, <1>7, AppendProperties
<1>9. ASSUME NEW x \in 1..n
      PROVE  Append(v, p)[x] = w[x]
  <2>1. CASE x = n
    <3>1. Append(v, p)[x] = p /\ (top - n) + x = top
      BY <1>1, <1>3, <1>5, <1>8, <2>1
    <3> QED  BY <1>6, <3>1
  <2>2. CASE x # n
    <3>1. x \in 1..k /\ t - k = top - n
      BY <1>1, <1>2, <1>3, <2>2
    <3> QED  BY <1>5, <1>6, <1>8, <3>1
  <2> QED  BY <2>1, <2>2
<1>10. Len(Append(v, p)) = Len(w) /\ \A x \in 1..Len(Append(v, p)) : Append(v, p)[x] = w[x]
  <2> HIDE DEF p
  <2>1. Len(Append(v, p)) = n /\ Len(w) = n
    BY <1>1, <1>3, <1>5, <1>6, <1>8
  <2> QED  BY <1>9, <2>1, Zenon
<1>11. Append(v, p) = w
  <2> HIDE DEF p
  <2> QED  BY ONLY <1>6, <1>8, <1>10, SeqEqual
<1> QED  BY <1>2, <1>3, <1>11 DEF v, w

LEMMA WholesSame ==
  ASSUME NEW fs \in Seq(Nat), NEW gs \in Seq(Nat), NEW top \in 0..Len(fs),
         NEW n \in 0..top, \A k \in 1..top : gs[k] = fs[k]
  PROVE  Wholes(gs, top, n) = Wholes(fs, top, n)
<1>1. PICK l \in Nat : l = Len(fs)
  BY LenProperties
<1>2. ASSUME NEW x \in 1..n
      PROVE  gs[(top - n) + x] = fs[(top - n) + x]
  <2>1. (top - n) + x \in 1..top
    BY <1>1
  <2> QED  BY <2>1
<1> QED  BY <1>2 DEF Wholes

LEMMA WrittenAt ==
  ASSUME BufferTypeOK, buf \in [0..(LIMIT - 1) -> Unit],
         NEW at \in Nat, NEW units \in Seq(Unit),
         (start + at) + Len(units) <= LIMIT
  PROVE  /\ Written(at, units) \in [0..(LIMIT - 1) -> Unit]
         /\ Lies(Written(at, units), start + at, units)
         /\ \A a \in 0..(LIMIT - 1) :
              a < start + at \/ a >= (start + at) + Len(units) =>
                Written(at, units)[a] = buf[a]
<1>1. start \in Nat /\ LIMIT \in Nat
  BY PacketAssumption DEF BufferTypeOK
<1>2. PICK l \in Nat : l = Len(units)
  BY LenProperties
<1>3. \A i \in 1..l : units[i] \in Unit
  BY <1>2, ElementOfSeq
<1> DEFINE m == Written(at, units)
<1>4. ASSUME NEW a \in 0..(LIMIT - 1)
      PROVE  m[a] = IF a - start - at \in 0..(l - 1)
                    THEN units[a - start - at + 1] ELSE buf[a]
  BY <1>2 DEF Written
<1>5. DOMAIN m = 0..(LIMIT - 1) /\ m = [a \in DOMAIN m |-> m[a]]
  BY DEF Written
<1> HIDE DEF m, Unit
<1>6. ASSUME NEW a \in 0..(LIMIT - 1)
      PROVE  m[a] \in Unit
  <2>1. CASE a - start - at \in 0..(l - 1)
    <3>1. a - start - at + 1 \in 1..l
      BY <1>1, <2>1
    <3> QED  BY <1>3, <1>4, <2>1, <3>1
  <2>2. CASE ~(a - start - at \in 0..(l - 1))
    BY <1>4, <2>2
  <2> QED  BY <2>1, <2>2
<1>7. m \in [0..(LIMIT - 1) -> Unit]
  BY <1>5, <1>6
<1>8. ASSUME NEW i \in 1..l
      PROVE  m[((start + at) + i) - 1] = units[i]
  <2>1. PICK a \in 0..(LIMIT - 1) : a = ((start + at) + i) - 1
    BY <1>1, <1>2
  <2>2. a - start - at \in 0..(l - 1) /\ a - start - at + 1 = i
    BY <1>1, <2>1
  <2> QED  BY <1>4, <2>1, <2>2
<1>9. ASSUME NEW a \in 0..(LIMIT - 1), a < start + at \/ a >= (start + at) + l
      PROVE  m[a] = buf[a]
  <2>1. ~(a - start - at \in 0..(l - 1))
    BY <1>1, <1>9
  <2> QED  BY <1>4, <2>1
<1> QED  BY <1>2, <1>7, <1>8, <1>9 DEF Lies, m

LEMMA UnitsIs ==
  ASSUME BufferTypeOK, buf \in [0..(LIMIT - 1) -> Unit],
         NEW from \in Nat, NEW to \in Nat, from <= to, start + to <= LIMIT
  PROVE  /\ Units(from, to) \in Seq(Unit)
         /\ Len(Units(from, to)) = to - from
         /\ \A i \in 1..(to - from) :
              Units(from, to)[i] = buf[((start + from) + i) - 1]
<1>1. start \in Nat /\ LIMIT \in Nat
  BY PacketAssumption DEF BufferTypeOK
<1>2. PICK n \in Nat : n = to - from
  OBVIOUS
<1>3. ASSUME NEW i \in 1..n
      PROVE  /\ start + from + i - 1 = ((start + from) + i) - 1
             /\ start + from + i - 1 \in 0..(LIMIT - 1)
  BY <1>1, <1>2
<1> HIDE DEF Unit
<1>4. Units(from, to) \in [1..n -> Unit]
  BY <1>2, <1>3 DEF Units
<1>5. Units(from, to) \in Seq(Unit) /\ Len(Units(from, to)) = n
  BY <1>4
<1>6. \A i \in 1..n : Units(from, to)[i] = buf[((start + from) + i) - 1]
  BY <1>2, <1>3 DEF Units
<1> QED  BY <1>2, <1>5, <1>6

\* Two memories are the same from lo to before hi.
Agree(m, m2, lo, hi) == \A b \in lo..(hi - 1) : m2[b] = m[b]

\* What lies in memory stays there as long as it is not written over.
LEMMA LiesSame ==
  ASSUME NEW m, NEW m2, NEW a \in Nat, NEW units \in Seq(Unit),
         NEW lo \in Int, NEW hi \in Int, lo <= a, a + Len(units) <= hi,
         Agree(m, m2, lo, hi), Lies(m, a, units)
  PROVE  Lies(m2, a, units)
<1>1. PICK l \in Nat : l = Len(units)
  BY LenProperties
<1>2. ASSUME NEW i \in 1..l
      PROVE  m2[(a + i) - 1] = units[i]
  <2>1. (a + i) - 1 \in lo..(hi - 1)
    BY <1>1
  <2> QED  BY <1>1, <2>1 DEF Lies, Agree
<1> QED  BY <1>1, <1>2 DEF Lies

-----------------------------------------------------------------------------
\* The frames of a packet.

\* The frame p lies in memory m at a, behind a header of its own of size h.
Framed(m, a, h, p) ==
  /\ Len(p) > 0
  /\ h = 1 => m[a] = FrameHeader(Len(p))
  /\ Lies(m, a + h, p)

\* The packet at s in memory m holds the frames ps from its headers to end,
\* each behind a header of its own of size h; c says where each of them ends.
Cuts(c, m, s, h, ps, end) ==
  /\ c \in [0..Len(ps) -> HEADERS..end]
  /\ c[0] = HEADERS /\ c[Len(ps)] = end
  /\ \A x \in 1..Len(ps) :
       /\ c[x] = (c[x - 1] + h) + Len(ps[x])
       /\ Framed(m, s + c[x - 1], h, ps[x])

Packed(m, s, h, ps, end) ==
  /\ h = 1 \/ Len(ps) <= 1
  /\ \E c : Cuts(c, m, s, h, ps, end)

LEMMA PackedNone ==
  ASSUME NEW m, NEW s, NEW h
  PROVE  Packed(m, s, h, << >>, HEADERS)
<1> DEFINE c == [x \in 0..0 |-> HEADERS]
<1>1. Len(<< >>) = 0
  OBVIOUS
<1>2. c \in [0..0 -> HEADERS..HEADERS] /\ c[0] = HEADERS
  BY HeaderAssumption
<1> HIDE DEF c
<1>3. Cuts(c, m, s, h, << >>, HEADERS)
  BY <1>1, <1>2 DEF Cuts
<1> QED  BY <1>1, <1>3 DEF Packed

LEMMA PackedNoneIs ==
  ASSUME NEW m, NEW s, NEW h, NEW ps, NEW end,
         Packed(m, s, h, ps, end), Len(ps) = 0
  PROVE  end = HEADERS
BY DEF Packed, Cuts

LEMMA PackedSame ==
  ASSUME NEW m, NEW m2, NEW s \in Nat, NEW h \in {0, 1}, NEW end \in Nat,
         NEW ps \in Seq(Seq(Unit)), NEW top \in Nat, top = s + end,
         Packed(m, s, h, ps, end), Agree(m, m2, s, top)
  PROVE  Packed(m2, s, h, ps, end)
<1> USE HeaderAssumption
<1>1. PICK l \in Nat : l = Len(ps)
  BY LenProperties
<1>2. PICK c : Cuts(c, m, s, h, ps, end)
  BY DEF Packed
<1>3. c \in [0..l -> HEADERS..end] /\ c[0] = HEADERS /\ c[l] = end
  BY <1>1, <1>2 DEF Cuts
<1>4. ASSUME NEW x \in 1..l
      PROVE  /\ Len(ps[x]) > 0
             /\ c[x] = (c[x - 1] + h) + Len(ps[x])
             /\ h = 1 => m2[s + c[x - 1]] = FrameHeader(Len(ps[x]))
             /\ Lies(m2, (s + c[x - 1]) + h, ps[x])
  <2>1. /\ Len(ps[x]) > 0
        /\ c[x] = (c[x - 1] + h) + Len(ps[x])
        /\ h = 1 => m[s + c[x - 1]] = FrameHeader(Len(ps[x]))
        /\ Lies(m, (s + c[x - 1]) + h, ps[x])
    BY <1>1, <1>2 DEF Cuts, Framed
  <2>2. ps[x] \in Seq(Unit)
    BY <1>1, ElementOfSeq
  <2>3. PICK n \in Nat : n = Len(ps[x])
    BY <2>2, LenProperties
  <2>4. x \in 0..l /\ x - 1 \in 0..l
    BY <1>1
  <2>5. PICK d \in HEADERS..end : d = c[x - 1]
    BY <1>3, <2>4
  <2>6. d \in Nat /\ n > 0 /\ (d + h) + n <= end
    <3>1. c[x] \in HEADERS..end
      BY <1>3, <2>4
    <3>2. c[x] = (d + h) + n /\ n > 0
      BY <2>1, <2>3, <2>5
    <3> QED  BY <3>1, <3>2
  <2>7. h = 1 => m2[s + d] = m[s + d]
    <3>1. h = 1 => s + d \in s..(top - 1)
      BY <2>6
    <3> QED  BY <3>1 DEF Agree
  <2>8. PICK a \in Nat : a = (s + d) + h
    OBVIOUS
  <2>9. top \in Int /\ Agree(m, m2, s, top)
    OBVIOUS
  <2>10. Lies(m2, a, ps[x])
    <3>1. Lies(m, a, ps[x])
      BY <2>1, <2>5, <2>8
    <3>2. s <= a /\ a + Len(ps[x]) <= top /\ s \in Int
      <4>1. s <= a /\ a + n <= top
        BY <2>6, <2>8, <2>9
      <4> QED  BY <2>3, <4>1
    <3> QED  BY ONLY <2>2, <2>8, <2>9, <3>1, <3>2, LiesSame
  <2> QED  BY <2>1, <2>5, <2>7, <2>8, <2>10
<1>5. Cuts(c, m2, s, h, ps, end)
  BY <1>1, <1>3, <1>4 DEF Cuts, Framed
<1> QED  BY <1>5 DEF Packed

LEMMA PackedMore ==
  ASSUME NEW m, NEW m2, NEW s \in Nat, NEW h \in Nat, NEW end \in Nat,
         NEW ps \in Seq(Seq(Unit)), NEW p \in Seq(Unit), NEW to \in Nat,
         NEW top \in Nat, top = s + end, h \in {0, 1},
         Packed(m, s, h, ps, end), Agree(m, m2, s, top),
         h = 1 \/ Len(ps) = 0, to = (end + h) + Len(p), Framed(m2, top, h, p)
  PROVE  Packed(m2, s, h, Append(ps, p), to)
<1> USE HeaderAssumption
<1>1. PICK l \in Nat : l = Len(ps)
  BY LenProperties
<1>2. PICK n \in Nat : n = Len(p)
  BY LenProperties
<1>3. Packed(m2, s, h, ps, end)
  <2>1. /\ Packed(m, s, h, ps, end)
        /\ top \in Nat /\ top = s + end /\ Agree(m, m2, s, top)
        /\ s \in Nat /\ h \in {0, 1} /\ end \in Nat /\ ps \in Seq(Seq(Unit))
    OBVIOUS
  <2> QED  BY ONLY <2>1, PackedSame
<1>4. PICK c : Cuts(c, m2, s, h, ps, end)
  BY <1>3 DEF Packed
<1>5. c \in [0..l -> HEADERS..end] /\ c[0] = HEADERS /\ c[l] = end
  BY <1>1, <1>4 DEF Cuts
<1> DEFINE qs == Append(ps, p)
           d == [x \in 0..(l + 1) |-> IF x <= l THEN c[x] ELSE to]
<1>6. /\ Len(qs) = l + 1 /\ qs[l + 1] = p
      /\ \A x \in 1..l : qs[x] = ps[x]
  <2>1. /\ Len(qs) = Len(ps) + 1 /\ qs[Len(ps) + 1] = p
        /\ \A x \in 1..Len(ps) : qs[x] = ps[x]
    <3>1. ps \in Seq(Seq(Unit)) /\ p \in Seq(Unit)
      OBVIOUS
    <3> QED  BY ONLY <3>1, AppendProperties
  <2> HIDE DEF qs
  <2> QED  BY <1>1, <2>1
<1>7. end \in HEADERS..end /\ end <= to
  <2>1. l \in 0..l
    OBVIOUS
  <2> QED  BY <1>2, <1>5, <2>1
<1>8. /\ d \in [0..(l + 1) -> HEADERS..to]
      /\ \A x \in 0..l : d[x] = c[x]
      /\ d[l + 1] = to
  <2>1. ASSUME NEW x \in 0..(l + 1)
        PROVE  (IF x <= l THEN c[x] ELSE to) \in HEADERS..to
    <3>1. CASE x <= l
      <4>1. x \in 0..l
        BY <3>1
      <4>2. c[x] \in HEADERS..end
        BY <1>5, <4>1
      <4> QED  BY <1>7, <3>1, <4>2
    <3>2. CASE ~(x <= l)
      BY <1>7, <3>2
    <3> QED  BY <3>1, <3>2
  <2>2. \A x \in 0..l : x \in 0..(l + 1) /\ x <= l
    OBVIOUS
  <2>3. l + 1 \in 0..(l + 1) /\ ~(l + 1 <= l)
    OBVIOUS
  <2> QED  BY <2>1, <2>2, <2>3
<1> HIDE DEF qs, d
<1>9. ASSUME NEW x \in 1..(l + 1)
      PROVE  /\ d[x] = (d[x - 1] + h) + Len(qs[x])
             /\ Framed(m2, s + d[x - 1], h, qs[x])
  <2>1. CASE x = l + 1
    <3>1. x - 1 = l /\ l \in 0..l
      BY <2>1
    <3>2. qs[x] = p /\ d[x - 1] = end /\ d[x] = to
      BY <1>5, <1>6, <1>8, <2>1, <3>1
    <3> QED  BY <3>2
  <2>2. CASE x # l + 1
    <3>1. x \in 1..l /\ x \in 0..l /\ x - 1 \in 0..l
      BY <2>2
    <3>2. qs[x] = ps[x] /\ d[x] = c[x] /\ d[x - 1] = c[x - 1]
      BY <1>6, <1>8, <3>1
    <3>3. /\ c[x] = (c[x - 1] + h) + Len(ps[x])
          /\ Framed(m2, s + c[x - 1], h, ps[x])
      BY <1>1, <1>4, <3>1 DEF Cuts
    <3> QED  BY <3>2, <3>3
  <2> QED  BY <2>1, <2>2
<1>10. d[0] = HEADERS
  BY <1>5, <1>8
<1>11. Cuts(d, m2, s, h, qs, to)
  BY <1>6, <1>8, <1>9, <1>10, Zenon DEF Cuts
<1>12. h = 1 \/ Len(qs) <= 1
  BY <1>1, <1>6
<1> QED  BY <1>11, <1>12 DEF Packed, qs

\* A header, and behind it the frame it announces.
LEMMA EnclosedOne ==
  ASSUME NEW units \in Seq(Unit), NEW i \in 1..Len(units), NEW p \in Seq(Unit),
         Len(p) > 0, i + Len(p) <= Len(units),
         units[i] = FrameHeader(Len(p)),
         \A j \in 1..Len(p) : units[i + j] = p[j]
  PROVE  EnclosedSize(units, i) = Len(p) /\ EnclosedFrame(units, i) = <<p>>
<1>1. PICK l \in Nat : l = Len(units)
  BY LenProperties
<1>2. PICK n \in Nat : n = Len(p)
  BY LenProperties
<1>3. units[i][1] = -1 /\ units[i][2] = n
  BY <1>2 DEF FrameHeader
<1>4. n \in 0..(l - i)
  BY <1>1, <1>2
<1>5. EnclosedSize(units, i) = n
  BY <1>1, <1>3, <1>4 DEF EnclosedSize
<1> DEFINE q == SubSeq(units, i + 1, i + n)
<1>6. /\ q \in Seq(Unit)
      /\ Len(q) = (IF i + 1 <= i + n THEN (i + n) - (i + 1) + 1 ELSE 0)
      /\ \A j \in 1..(i + n) - (i + 1) + 1 : q[j] = units[(i + 1) + j - 1]
  <2>1. i + 1 \in Int /\ i + n \in Int /\ \A k \in (i + 1)..(i + n) : k \in 1..l
    BY <1>1, <1>4
  <2>2. \A k \in (i + 1)..(i + n) : units[k] \in Unit
    BY <1>1, <2>1, ElementOfSeq
  <2> QED  BY ONLY <2>1, <2>2, SubSeqProperties
<1> HIDE DEF q
<1>7. Len(q) = n
  BY <1>1, <1>2, <1>6
<1>8. ASSUME NEW j \in 1..n
      PROVE  q[j] = p[j]
  <2>1. j \in 1..(i + n) - (i + 1) + 1 /\ (i + 1) + j - 1 = i + j
    BY <1>1
  <2> QED  BY <1>2, <1>6, <2>1
<1>9. Len(q) = Len(p) /\ \A j \in 1..Len(q) : q[j] = p[j]
  BY <1>2, <1>7, <1>8
<1>10. q = p
  <2>1. p \in Seq(Unit)
    OBVIOUS
  <2> QED  BY ONLY <1>6, <1>9, <2>1, SeqEqual
<1>11. EnclosedFrame(units, i) = <<q>>
  <2>1. n # 0
    BY <1>2
  <2> QED  BY <1>5, <2>1 DEF EnclosedFrame, q
<1> QED  BY <1>2, <1>5, <1>10, <1>11

\* A receiver finds in a packet the frames it holds, even if one more header
\* lies at its end.
LEMMA EnclosedIs ==
  ASSUME BufferTypeOK, buf \in [0..(LIMIT - 1) -> Unit],
         NEW ps \in Seq(Seq(Unit)), NEW end \in Nat,
         Packed(buf, start, 1, ps, end), off = end \/ off = end + 1
  PROVE  EnclosedFrames(Units(HEADERS, off)) = ps
<1>1. PICK l \in Nat : l = Len(ps)
  BY LenProperties
<1>2. PICK c : Cuts(c, buf, start, 1, ps, end)
  BY DEF Packed
<1>3. c \in [0..l -> HEADERS..end] /\ c[0] = HEADERS /\ c[l] = end
  BY <1>1, <1>2 DEF Cuts
<1>4. /\ start \in Nat /\ off \in Nat /\ HEADERS \in Nat
      /\ start + off <= LIMIT /\ HEADERS <= end /\ HEADERS <= off
  <2>1. 0 \in 0..l
    OBVIOUS
  <2>2. HEADERS <= end
    BY <1>3, <2>1, HeaderAssumption
  <2> QED  BY <2>2, HeaderAssumption DEF BufferTypeOK
<1> DEFINE U == Units(HEADERS, off)
<1>5. PICK z \in Nat : z = off - HEADERS
  BY <1>4
<1>6. /\ U \in Seq(Unit) /\ Len(U) = z
      /\ \A i \in 1..z : U[i] = buf[((start + HEADERS) + i) - 1]
  BY <1>4, <1>5, UnitsIs
<1> HIDE DEF U
<1>7. PICK f : /\ EnclosedFrames(U) = f[1]
               /\ \A i \in 1..(Len(U) + 1) :
                    f[i] = IF i > Len(U) THEN << >>
                           ELSE EnclosedFrame(U, i)
                                  \o f[i + 1 + EnclosedSize(U, i)]
  BY <1>6, EnclosedIsReading
<1>8. ASSUME NEW i \in 1..z
      PROVE  f[i] = EnclosedFrame(U, i) \o f[i + 1 + EnclosedSize(U, i)]
  <2>1. i \in 1..(Len(U) + 1) /\ ~(i > Len(U))
    BY <1>6
  <2> QED  BY <1>7, <2>1, Zenon
<1>9. f[z + 1] = << >>
  BY <1>6, <1>7
<1> DEFINE T == {y \in 0..l :
                   f[(c[l - y] - HEADERS) + 1] = SubSeq(ps, (l - y) + 1, l)}
<1>10. 0 \in T
  <2>1. l - 0 = l /\ SubSeq(ps, l + 1, l) = << >>
    BY SubSeqEmpty
  <2>2. f[(end - HEADERS) + 1] = << >>
    <3>1. CASE off = end
      <4>1. (end - HEADERS) + 1 = z + 1
        BY <1>5, <3>1
      <4> QED  BY <1>9, <4>1
    <3>2. CASE off = end + 1
      <4>1. (end - HEADERS) + 1 = z /\ z \in 1..z
        BY <1>4, <1>5, <3>2
      <4>2. EnclosedSize(U, z) = 0 /\ EnclosedFrame(U, z) = << >>
        <5>1. EnclosedSize(U, z) \in 0..(Len(U) - z)
          <6>1. z \in 1..Len(U)
            BY <1>6, <4>1
          <6> QED  BY ONLY <1>6, <6>1, SizeEnclosed
        <5>2. EnclosedSize(U, z) = 0
          BY <1>6, <5>1
        <5> QED  BY <5>2 DEF EnclosedFrame
      <4>3. z + 1 + 0 = z + 1
        OBVIOUS
      <4>4. f[z] = << >> \o << >>
        BY <1>8, <1>9, <4>1, <4>2, <4>3
      <4> QED  BY <4>1, <4>4
    <3> QED  BY <3>1, <3>2
  <2>3. f[(c[l - 0] - HEADERS) + 1] = SubSeq(ps, (l - 0) + 1, l)
    BY <1>3, <2>1, <2>2
  <2> QED  BY <2>3
<1>11. ASSUME NEW y \in 1..l, y - 1 \in T
       PROVE  y \in T
  <2>1. PICK x \in 1..l : x = (l - y) + 1
    OBVIOUS
  <2>2. l - (y - 1) = x /\ l - y = x - 1 /\ x - 1 \in 0..l /\ x \in 0..l
    BY <2>1
  <2>3. f[(c[x] - HEADERS) + 1] = SubSeq(ps, x + 1, l)
    BY <1>11, <2>2
  <2>4. /\ Len(ps[x]) > 0
        /\ c[x] = (c[x - 1] + 1) + Len(ps[x])
        /\ buf[start + c[x - 1]] = FrameHeader(Len(ps[x]))
        /\ Lies(buf, (start + c[x - 1]) + 1, ps[x])
    BY <1>1, <1>2 DEF Cuts, Framed
  <2>5. ps[x] \in Seq(Unit)
    BY <1>1, ElementOfSeq
  <2>6. PICK n \in Nat : n = Len(ps[x])
    BY <2>5, LenProperties
  <2>7. PICK d \in HEADERS..end : d = c[x - 1]
    BY <1>3, <2>2
  <2>8. n > 0 /\ c[x] = (d + 1) + n /\ c[x] \in HEADERS..end
    BY <1>3, <2>2, <2>4, <2>6, <2>7
  <2>9. PICK i \in 1..z : i = (d - HEADERS) + 1
    BY <1>4, <1>5, <2>8
  <2>10. i + n <= z /\ (c[x] - HEADERS) + 1 = i + 1 + n
    BY <1>4, <1>5, <2>8, <2>9
  <2>11. U[i] = FrameHeader(n)
    <3>1. ((start + HEADERS) + i) - 1 = start + d
      BY <1>4, <2>9
    <3> QED  BY <1>6, <2>4, <2>6, <2>7, <3>1
  <2>12. ASSUME NEW j \in 1..n
         PROVE  U[i + j] = ps[x][j]
    <3>1. /\ i + j \in 1..z
          /\ ((start + HEADERS) + (i + j)) - 1 = (((start + d) + 1) + j) - 1
      BY <1>4, <2>9, <2>10
    <3>2. buf[(((start + d) + 1) + j) - 1] = ps[x][j]
      BY <2>4, <2>6, <2>7 DEF Lies
    <3> QED  BY <1>6, <3>1, <3>2
  <2>13. EnclosedSize(U, i) = n /\ EnclosedFrame(U, i) = <<ps[x]>>
    <3>1. /\ i \in 1..Len(U) /\ Len(ps[x]) > 0 /\ i + Len(ps[x]) <= Len(U)
          /\ U[i] = FrameHeader(Len(ps[x]))
          /\ \A j \in 1..Len(ps[x]) : U[i + j] = ps[x][j]
      BY <1>6, <2>6, <2>8, <2>10, <2>11, <2>12
    <3>2. EnclosedSize(U, i) = Len(ps[x]) /\ EnclosedFrame(U, i) = <<ps[x]>>
      BY ONLY <1>6, <2>5, <3>1, EnclosedOne
    <3> QED  BY <2>6, <3>2
  <2>14. f[i] = <<ps[x]>> \o SubSeq(ps, x + 1, l)
    BY <1>8, <2>3, <2>10, <2>13
  <2>15. SubSeq(ps, x, l) = <<ps[x]>> \o SubSeq(ps, x + 1, l)
    <3>1. x \in 1..Len(ps) /\ l \in x..Len(ps) /\ ps \in Seq(Seq(Unit))
      BY <1>1
    <3> QED  BY ONLY <3>1, SubSeqRecursiveFirst
  <2>16. (c[l - y] - HEADERS) + 1 = i /\ (l - y) + 1 = x
    BY <2>1, <2>2, <2>7, <2>9
  <2>17. y \in 0..l
    OBVIOUS
  <2> QED  BY <2>14, <2>15, <2>16, <2>17
<1> HIDE DEF T
<1>12. \A y \in 0..l : y \in T
  BY <1>10, <1>11, UpTo
<1>13. l \in T
  <2>1. l \in 0..l
    OBVIOUS
  <2> QED  BY <1>12, <2>1, Zenon
<1>14. f[(c[l - l] - HEADERS) + 1] = SubSeq(ps, (l - l) + 1, l)
  BY <1>13, Zenon DEF T
<1>15. f[1] = SubSeq(ps, 1, l)
  <2>1. l - l = 0 /\ (HEADERS - HEADERS) + 1 = 1 /\ 0 + 1 = 1
    BY <1>4
  <2> QED  BY <1>3, <1>14, <2>1
<1>16. SubSeq(ps, 1, Len(ps)) = ps
  BY SubSeqFull
<1> QED  BY <1>1, <1>7, <1>15, <1>16 DEF U

-----------------------------------------------------------------------------
\* What a receiver has: whole frames of the source, in order.

\* wh are some of the first d frames of the sizes fs.
Ordered(wh, fs, d) ==
  \A j \in 1..Len(wh) :
    \E n \in 1..d : /\ wh[j] = Piece(n, 0, fs[n])
                    /\ \A l \in 1..(j - 1) : wh[l][1][1] < n

\* wh are the first d frames.
AllOf(wh, fs, d) ==
  Len(wh) = d /\ \A j \in 1..d : wh[j] = Piece(j, 0, fs[j])

LEMMA WholeFrameIs ==
  ASSUME NEW n \in Int, frames[n] \in Int
  PROVE  WholeFrame(n) = Piece(n, 0, frames[n])
<1>1. \A i \in 1..frames[n] : 0 + i = i
  OBVIOUS
<1> QED  BY <1>1 DEF WholeFrame, Piece

\* The first unit of a frame tells which one it is.
LEMMA FirstUnit ==
  ASSUME NEW n \in Nat, NEW k \in Nat \ {0}
  PROVE  Piece(n, 0, k)[1][1] = n
<1>1. Piece(n, 0, k)[1] = Data(n, 0 + 1)
  BY DEF Piece
<1> QED  BY <1>1 DEF Data

LEMMA OrderedSame ==
  ASSUME NEW wh, NEW fs, NEW gs, NEW d \in Nat, NEW e \in Nat, d <= e,
         \A n \in 1..d : gs[n] = fs[n], Ordered(wh, fs, d)
  PROVE  Ordered(wh, gs, e)
<1>1. ASSUME NEW j \in 1..Len(wh)
      PROVE  \E n \in 1..e : /\ wh[j] = Piece(n, 0, gs[n])
                             /\ \A l \in 1..(j - 1) : wh[l][1][1] < n
  <2>1. PICK n \in 1..d : /\ wh[j] = Piece(n, 0, fs[n])
                          /\ \A l \in 1..(j - 1) : wh[l][1][1] < n
    BY DEF Ordered
  <2>2. n \in 1..e /\ gs[n] = fs[n]
    OBVIOUS
  <2> QED  BY <2>1, <2>2
<1> QED  BY <1>1 DEF Ordered

LEMMA AllSame ==
  ASSUME NEW wh, NEW fs, NEW gs, NEW d \in Nat,
         \A n \in 1..d : gs[n] = fs[n], AllOf(wh, fs, d)
  PROVE  AllOf(wh, gs, d)
BY DEF AllOf

\* The frames of one more packet.
LEMMA MoreFrames ==
  ASSUME NEW fs \in Seq(Sizes), NEW top \in 0..Len(fs), NEW n \in 0..top,
         NEW wh \in Seq(Seq(Unit)), NEW d \in Nat, d = top - n,
         Ordered(wh, fs, d)
  PROVE  /\ wh \o Wholes(fs, top, n) \in Seq(Seq(Unit))
         /\ Ordered(wh \o Wholes(fs, top, n), fs, top)
         /\ AllOf(wh, fs, d) => AllOf(wh \o Wholes(fs, top, n), fs, top)
<1>1. PICK k \in Nat : k = Len(fs)
  BY LenProperties
<1>2. \A i \in 1..k : fs[i] \in Nat \ {0}
  <2>1. \A i \in 1..k : fs[i] \in Sizes
    BY <1>1, ElementOfSeq
  <2> QED  BY <2>1, FrameAssumption
<1>3. fs \in Seq(Nat)
  <2>1. fs \in [1..k -> Nat]
    BY <1>1, <1>2, LenProperties
  <2> QED  BY <2>1
<1> DEFINE v == Wholes(fs, top, n)
           w == wh \o v
<1>4. /\ v \in Seq(Seq(Unit)) /\ Len(v) = n
      /\ \A x \in 1..n : v[x] = Piece((top - n) + x, 0, fs[(top - n) + x])
  BY <1>3, WholesIs
<1> HIDE DEF v
<1>5. PICK l \in Nat : l = Len(wh)
  BY LenProperties
<1>6. /\ w \in Seq(Seq(Unit)) /\ Len(w) = Len(wh) + Len(v)
      /\ \A i \in 1..Len(wh) + Len(v) :
           w[i] = IF i <= Len(wh) THEN wh[i] ELSE v[i - Len(wh)]
  <2>1. wh \in Seq(Seq(Unit))
    OBVIOUS
  <2> QED  BY ONLY <1>4, <2>1, ConcatProperties
<1> HIDE DEF w
<1>7. /\ Len(w) = l + n
      /\ \A j \in 1..l : w[j] = wh[j]
  <2>1. Len(w) = l + n
    BY <1>4, <1>5, <1>6
  <2>2. \A j \in 1..l : j \in 1..Len(wh) + Len(v) /\ j <= Len(wh)
    BY <1>4, <1>5
  <2> QED  BY <1>6, <2>1, <2>2
<1>8. ASSUME NEW x \in 1..n
      PROVE  /\ l + x \in 1..(l + n) /\ d + x \in 1..top
             /\ w[l + x] = Piece(d + x, 0, fs[d + x])
             /\ w[l + x][1][1] = d + x
  <2>1. /\ l + x \in 1..Len(wh) + Len(v) /\ ~(l + x <= Len(wh))
        /\ (l + x) - Len(wh) = x
    BY <1>4, <1>5
  <2>2. w[l + x] = v[x]
    BY <1>6, <2>1
  <2>3. (top - n) + x = d + x /\ d + x \in 1..top /\ d + x \in 1..k
    BY <1>1
  <2>4. w[l + x] = Piece(d + x, 0, fs[d + x])
    BY <1>4, <2>2, <2>3
  <2>5. Piece(d + x, 0, fs[d + x])[1][1] = d + x
    <3>1. d + x \in Nat /\ fs[d + x] \in Nat \ {0}
      BY <1>2, <2>3
    <3> QED  BY ONLY <3>1, FirstUnit
  <2>6. l + x \in 1..(l + n)
    OBVIOUS
  <2> QED  BY <2>3, <2>4, <2>5, <2>6
<1>9. ASSUME NEW j \in 1..l
      PROVE  \E i \in 1..d : /\ w[j] = Piece(i, 0, fs[i]) /\ w[j][1][1] = i
                             /\ \A q \in 1..(j - 1) : w[q][1][1] < i
  <2>1. PICK i \in 1..d : /\ wh[j] = Piece(i, 0, fs[i])
                          /\ \A q \in 1..(j - 1) : wh[q][1][1] < i
    BY <1>5 DEF Ordered
  <2>2. Piece(i, 0, fs[i])[1][1] = i
    <3>1. i \in 1..k
      BY <1>1
    <3>2. i \in Nat /\ fs[i] \in Nat \ {0}
      BY <1>2, <3>1
    <3> QED  BY ONLY <3>2, FirstUnit
  <2>3. ASSUME NEW q \in 1..(j - 1)
        PROVE  w[q][1][1] < i
    <3>1. q \in 1..l
      OBVIOUS
    <3>2. w[q] = wh[q]
      BY <1>7, <3>1
    <3> QED  BY <2>1, <3>2
  <2>4. w[j] = wh[j]
    BY <1>7
  <2> QED  BY <2>1, <2>2, <2>3, <2>4
<1>10. ASSUME NEW j \in 1..(l + n)
       PROVE  \E i \in 1..top : /\ w[j] = Piece(i, 0, fs[i])
                                /\ \A q \in 1..(j - 1) : w[q][1][1] < i
  <2>1. CASE j <= l
    <3>1. j \in 1..l
      BY <2>1
    <3>2. PICK i \in 1..d : /\ w[j] = Piece(i, 0, fs[i])
                            /\ \A q \in 1..(j - 1) : w[q][1][1] < i
      BY <1>9, <3>1
    <3>3. i \in 1..top
      OBVIOUS
    <3> QED  BY <3>2, <3>3
  <2>2. CASE ~(j <= l)
    <3>1. PICK x \in 1..n : x = j - l
      BY <2>2
    <3>2. j = l + x
      BY <3>1
    <3>3. ASSUME NEW q \in 1..(j - 1)
          PROVE  w[q][1][1] < d + x
      <4>1. CASE q <= l
        <5>1. q \in 1..l
          BY <4>1
        <5>2. PICK i \in 1..d : w[q][1][1] = i
          BY <1>9, <5>1
        <5> QED  BY <5>2
      <4>2. CASE ~(q <= l)
        <5>1. PICK y \in 1..n : y = q - l /\ y < x
          BY <3>1, <4>2
        <5>2. q = l + y
          BY <5>1
        <5>3. w[q][1][1] = d + y
          BY <1>8, <5>2
        <5>4. d + y < d + x
          BY <5>1
        <5> QED  BY <5>3, <5>4
      <4> QED  BY <4>1, <4>2
    <3>4. PICK i \in 1..top : i = d + x
      BY <1>8
    <3> QED  BY <1>8, <3>2, <3>3, <3>4
  <2> QED  BY <2>1, <2>2
<1>11. Ordered(w, fs, top)
  BY <1>7, <1>10 DEF Ordered
<1>12. ASSUME AllOf(wh, fs, d)
       PROVE  AllOf(w, fs, top)
  <2>1. l = d /\ l + n = top
    BY <1>1, <1>5, <1>12 DEF AllOf
  <2>2. ASSUME NEW j \in 1..top
        PROVE  w[j] = Piece(j, 0, fs[j])
    <3>1. CASE j <= d
      <4>1. j \in 1..d /\ j \in 1..l
        BY <2>1, <3>1
      <4> QED  BY <1>7, <1>12, <4>1 DEF AllOf
    <3>2. CASE ~(j <= d)
      <4>1. PICK x \in 1..n : x = j - d
        BY <3>2
      <4>2. j = l + x /\ j = d + x
        BY <2>1, <4>1
      <4> QED  BY <1>8, <4>2
    <3> QED  BY <3>1, <3>2
  <2> QED  BY <1>7, <2>1, <2>2 DEF AllOf
<1> QED  BY <1>6, <1>11, <1>12 DEF v, w

-----------------------------------------------------------------------------
\* The inductive invariant of what the sink's memory and the receiver hold.
\* What is left of the last frame, or is in hand, is counted apart from the
\* frames that are sent, or in the packet that is being built.

Last == Len(frames)
Kept == IF overSize > 0 /\ (step # "send" \/ ends) THEN 1 ELSE 0
Hand == IF step = "use" THEN 1 ELSE 0
Top == (Last - Kept) - Hand
InPacket == IF step = "none" /\ ~asked THEN 0 ELSE used
Done == Top - InPacket

Room == several => \A s \in Sizes : s + MAX <= (LIMIT \div 2 + HEADERS) + 2

UnitsOK ==
  /\ buf \in [0..(LIMIT - 1) -> Unit] /\ frames \in Seq(Sizes)
  /\ part \in Seq(Unit) /\ whole \in Seq(Seq(Unit))

LeftIs ==
  overSize > 0 =>
    /\ Last > 0 /\ fragOffset + overSize = frames[Last]
    /\ Lies(buf, start + overOffset, Piece(Last, fragOffset, overSize))

HandIs ==
  step = "use" =>
    /\ Last > 0 /\ size > 0 /\ fragOffset + size = frames[Last]
    /\ Lies(buf, start + off, Piece(Last, fragOffset, size))

FragmentIs ==
  /\ step # "send" => part = Piece(Last, 0, fragOffset)
  /\ step \in {"none", "pack"} /\ overSize = 0 => fragOffset = 0

BuildingIs ==
  step \in {"pack", "use"} \/ asked =>
    /\ used <= Top
    /\ used > 0 =>
         several /\ ends = TRUE /\ fragOffset = 0 /\ (step = "pack" => overSize = 0)
    /\ Packed(buf, start, FRAMEHEADER, Wholes(frames, Top, used),
              IF step = "pack" THEN off ELSE off - FRAMEHEADER)

SendIs ==
  step = "send" =>
    /\ used <= Top
    /\ used = 0 => part = << >> /\ overSize = 0 /\ fragOffset = 0
    /\ used > 0 =>
         \E ps \in Seq(Seq(Unit)), end \in Nat :
           /\ Len(ps) = used /\ Packed(buf, start, FRAMEHEADER, ps, end)
           /\ off = end \/ off = end + FRAMEHEADER
           /\ \/ /\ ends = TRUE /\ fragOffset = 0
                 /\ Completed(part, ps) = Wholes(frames, Top, used)
              \/ /\ ends = FALSE /\ used = 1 /\ overSize > 0
                 /\ part \o ps[1] = Piece(Last, 0, fragOffset)

StartIs ==
  /\ start = 0 \/ start + HEADERS + FRAMEHEADER < LIMIT - LIMIT \div 2
  /\ ~several /\ overSize = 0 /\ step \in {"none", "pack"} => start = 0

EndIs ==
  noneLeft =>
    Last = MaxFrames /\ overSize = 0 /\ step \in {"none", "send"} /\ ~asked

WholeIs ==
  Ordered(whole, frames, Done) /\ (pauses = 0 => AllOf(whole, frames, Done))

Contents ==
  /\ UnitsOK /\ LeftIs /\ HandIs /\ FragmentIs
  /\ BuildingIs /\ SendIs /\ StartIs /\ EndIs /\ WholeIs

LEMMA LastIs ==
  ASSUME SinkInv, Contents
  PROVE  Last \in Nat /\ Done \in 0..Last
<1>1. Last \in Nat
  BY DEF Contents, UnitsOK, Last
<1>2. /\ step \in {"none", "pack", "use", "send"} /\ used \in Nat
      /\ overSize \in Nat /\ asked \in BOOLEAN
  BY FrameAssumption DEF SinkInv, SinkTypeOK, BufferTypeOK
<1>3. Kept \in {0, 1} /\ Hand \in {0, 1} /\ InPacket \in {0, used}
  BY <1>2 DEF Kept, Hand, InPacket
<1>4. Top \in 0..Last
  <2>1. CASE step = "none" /\ ~asked
    <3>1. Hand = 0 /\ (Kept = 1 => Last > 0)
      BY <2>1 DEF Hand, Kept, Contents, LeftIs
    <3> QED  BY <1>1, <1>3, <3>1 DEF Top
  <2>2. CASE ~(step = "none" /\ ~asked)
    <3>1. used <= Top
      BY <1>2, <2>2 DEF Contents, BuildingIs, SendIs
    <3> QED  BY <1>1, <1>2, <1>3, <3>1 DEF Top
  <2> QED  BY <2>1, <2>2
<1>5. InPacket <= Top
  <2>1. CASE step = "none" /\ ~asked
    BY <1>4, <2>1 DEF InPacket
  <2>2. CASE ~(step = "none" /\ ~asked)
    BY <1>2, <2>2 DEF Contents, BuildingIs, SendIs, InPacket
  <2> QED  BY <2>1, <2>2
<1> HIDE DEF Top
<1> QED  BY <1>1, <1>2, <1>3, <1>4, <1>5 DEF Done

\* A step that leaves the receiver and the frames read alone.
LEMMA WholeSame ==
  ASSUME SinkInv, Contents, whole' = whole, pauses' = pauses, Done' = Done,
         \A n \in 1..Last : frames'[n] = frames[n]
  PROVE  WholeIs'
<1>1. Done \in Nat /\ \A n \in 1..Done : frames'[n] = frames[n]
  BY LastIs
<1>2. Ordered(whole, frames, Done) /\ (pauses = 0 => AllOf(whole, frames, Done))
  BY DEF Contents, WholeIs
<1>3. Ordered(whole, frames', Done)
  <2>1. Done <= Done
    BY <1>1
  <2> QED  BY ONLY <1>1, <1>2, <2>1, OrderedSame
<1>4. pauses = 0 => AllOf(whole, frames', Done)
  BY ONLY <1>1, <1>2, AllSame
<1> QED  BY <1>3, <1>4 DEF WholeIs

LEMMA InitContents ==
  ASSUME SinkInit PROVE Contents
<1>1. /\ step = "none" /\ asked = FALSE /\ noneLeft = FALSE /\ fragOffset = 0
      /\ overSize = 0 /\ start = 0 /\ used = 0 /\ frames = << >>
      /\ part = << >> /\ whole = << >>
      /\ buf = [a \in 0..(LIMIT - 1) |-> Hole]
  BY DEF SinkInit, BufferInit
<1>2. Last = 0 /\ Kept = 0 /\ Hand = 0 /\ InPacket = 0
  BY <1>1 DEF Last, Kept, Hand, InPacket
<1>3. Done = 0
  BY <1>2 DEF Done, Top
<1>4. UnitsOK
  <2>1. Hole \in Unit
    BY DEF Hole, Unit
  <2>2. buf \in [0..(LIMIT - 1) -> Unit]
    BY <1>1, <2>1
  <2>3. frames \in Seq(Sizes)
    BY <1>1
  <2>4. part \in Seq(Unit)
    BY <1>1
  <2>5. whole \in Seq(Seq(Unit))
    BY <1>1
  <2> QED  BY <2>2, <2>3, <2>4, <2>5 DEF UnitsOK
<1>5. LeftIs /\ HandIs /\ SendIs /\ BuildingIs
  BY <1>1 DEF LeftIs, HandIs, SendIs, BuildingIs
<1>6. FragmentIs
  <2>1. Piece(0, 0, 0) = << >>
    BY PieceNone
  <2> QED  BY <1>1, <1>2, <2>1 DEF FragmentIs
<1>7. StartIs /\ EndIs
  BY <1>1 DEF StartIs, EndIs
<1>8. WholeIs
  <2>1. Len(<< >>) = 0
    OBVIOUS
  <2> QED  BY <1>1, <1>3, <2>1 DEF WholeIs, Ordered, AllOf
<1> QED  BY <1>4, <1>5, <1>6, <1>7, <1>8 DEF Contents

LEMMA BuildContents ==
  ASSUME SinkInv, Contents, StartPlaying \/ SendNext PROVE Contents'
<1> USE HeaderAssumption, PacketAssumption
<1>1. /\ buf' = Written(off, [i \in 1..HEADERS |-> Header])
      /\ off' = off + HEADERS
      /\ noneLeft' = FALSE /\ used' = 0
      /\ step = "none" /\ step' = "pack"
      /\ start' = start /\ overOffset' = overOffset /\ overSize' = overSize
      /\ several' = several /\ asked' = asked
      /\ fragOffset' = fragOffset /\ frames' = frames /\ pauses' = pauses
      /\ part' = part /\ whole' = whole
  BY DEF StartPlaying, SendNext, BuildPacket, streamVars, SinkInv, SinkTypeOK
<1>2. off = 0 /\ asked = FALSE
  BY DEF StartPlaying, SendNext, SinkInv, SinkTypeOK, PacketInv
<1>3. /\ start \in Nat /\ overOffset \in Nat /\ overSize \in Nat
      /\ start + HEADERS <= LIMIT
      /\ overSize > 0 => (start + overOffset) + overSize <= LIMIT
      /\ fragOffset \in Nat
  BY DEF SinkInv, SinkTypeOK, BufferTypeOK, PacketInv
<1>4. /\ buf' \in [0..(LIMIT - 1) -> Unit]
      /\ \A b \in (start + HEADERS)..(LIMIT - 1) : buf'[b] = buf[b]
  <2> DEFINE hs == [i \in 1..HEADERS |-> Header]
  <2>1. hs \in Seq(Unit) /\ Len(hs) = HEADERS
    <3>1. Header \in Unit
      BY DEF Header, Unit
    <3> HIDE DEF Unit, Header
    <3>2. hs \in [1..HEADERS -> Unit]
      BY <3>1
    <3> QED  BY <3>2
  <2> HIDE DEF hs
  <2>2. BufferTypeOK /\ buf \in [0..(LIMIT - 1) -> Unit]
    BY DEF SinkInv, SinkTypeOK, Contents, UnitsOK
  <2>3. off \in Nat /\ (start + off) + Len(hs) <= LIMIT
    BY <1>2, <1>3, <2>1
  <2>4. /\ Written(off, hs) \in [0..(LIMIT - 1) -> Unit]
        /\ \A a \in 0..(LIMIT - 1) :
             a < start + off \/ a >= (start + off) + Len(hs) =>
               Written(off, hs)[a] = buf[a]
    BY ONLY <2>1, <2>2, <2>3, WrittenAt
  <2>5. ASSUME NEW b \in (start + HEADERS)..(LIMIT - 1)
        PROVE  b \in 0..(LIMIT - 1) /\ b >= (start + off) + Len(hs)
    BY <1>2, <1>3, <2>1
  <2>6. buf' = Written(off, hs)
    BY <1>1 DEF hs
  <2> QED  BY <2>4, <2>5, <2>6
<1>5. /\ Last' = Last /\ Kept' = Kept /\ Hand' = Hand
      /\ InPacket' = 0 /\ InPacket = 0 /\ Hand = 0 /\ Top' = Top
  BY <1>1, <1>2 DEF Last, Kept, Hand, InPacket, Top
<1>6. Last \in Nat /\ Done \in 0..Last /\ Done' = Done /\ Done = Top
  <2>1. Done = Top /\ Done' = Done
    <3>1. Top \in Int
      BY LastIs DEF Top, Kept, Hand
    <3> QED  BY <1>5, <3>1 DEF Done
  <2> QED  BY <2>1, LastIs
<1>7. UnitsOK'
  BY <1>1, <1>4 DEF Contents, UnitsOK
<1>8. LeftIs'
  <2>1. SUFFICES ASSUME overSize > 0
                 PROVE  Lies(buf', start + overOffset,
                             Piece(Last, fragOffset, overSize))
    BY <1>1, <1>5 DEF Contents, LeftIs
  <2> DEFINE p == Piece(Last, fragOffset, overSize)
  <2>2. p \in Seq(Unit) /\ Len(p) = overSize
    BY <1>3, <1>6, PieceIs
  <2>3. Lies(buf, start + overOffset, p)
    BY <2>1 DEF Contents, LeftIs
  <2> HIDE DEF p
  <2>4. overOffset >= HEADERS
    <3>1. overOffset >= HEADERS + FRAMEHEADER
      BY <2>1 DEF SinkInv, OverflowInv
    <3> QED  BY <1>3, <3>1, FrameHeaderSize
  <2>5. PICK a \in Nat : a = start + overOffset
    BY <1>3
  <2>6. PICK lo \in Int : lo = start + HEADERS
    BY <1>3
  <2>7. lo <= a /\ a + Len(p) <= LIMIT /\ LIMIT \in Int
    BY <1>3, <2>1, <2>2, <2>4, <2>5, <2>6
  <2>8. Agree(buf, buf', lo, LIMIT)
    BY <1>4, <2>6 DEF Agree
  <2>9. Lies(buf', a, p)
    <3>1. Lies(buf, a, p)
      BY <2>3, <2>5
    <3> QED  BY ONLY <2>2, <2>5, <2>6, <2>7, <2>8, <3>1, LiesSame
  <2> QED  BY <2>5, <2>9 DEF p
<1>9. HandIs' /\ SendIs'
  BY <1>1 DEF HandIs, SendIs
<1>10. FragmentIs'
  BY <1>1, <1>5 DEF Contents, FragmentIs
<1>11. BuildingIs'
  <2>1. Wholes(frames', Top', used') = << >>
    BY <1>1 DEF Wholes
  <2>2. off' = HEADERS
    BY <1>1, <1>2
  <2>3. Packed(buf', start', FRAMEHEADER', Wholes(frames', Top', used'), off')
    BY <2>1, <2>2, PackedNone
  <2>4. used' <= Top'
    BY <1>1, <1>5, <1>6
  <2> QED  BY <1>1, <2>3, <2>4 DEF BuildingIs
<1>12. StartIs' /\ EndIs'
  BY <1>1 DEF Contents, StartIs, EndIs, FRAMEHEADER
<1>13. WholeIs'
  BY <1>1, <1>6, WholeSame
<1> QED  BY <1>7, <1>8, <1>9, <1>10, <1>11, <1>12, <1>13 DEF Contents

LEMMA StopContents ==
  ASSUME SinkInv, Contents, StopPlaying, ~cut' PROVE Contents'
<1>1. /\ step = "none" /\ step' = "none" /\ asked' = FALSE
      /\ start' = 0 /\ overSize' = 0 /\ buf' = buf /\ several' = several
      /\ fragOffset' = fragOffset /\ noneLeft' = noneLeft
      /\ frames' = frames /\ part' = part /\ whole' = whole
      /\ pauses' = pauses + 1 /\ pauses \in Nat
      /\ cut' = (cut \/ fragOffset > 0)
  BY FrameAssumption
  DEF StopPlaying, packVars, SinkInv, SinkTypeOK
<1>2. fragOffset = 0
  <2>1. ~(fragOffset > 0)
    BY <1>1
  <2> QED  BY <2>1 DEF SinkInv, SinkTypeOK
<1>3. Last \in Nat /\ Done \in 0..Last
  BY LastIs
<1>4. Last' = Last /\ Done' = Last
  <2>1. Last' = Last /\ Kept' = 0 /\ Hand' = 0 /\ InPacket' = 0
    BY <1>1 DEF Last, Kept, Hand, InPacket
  <2> QED  BY <1>3, <2>1 DEF Done, Top
<1>5. UnitsOK'
  BY <1>1 DEF Contents, UnitsOK
<1>6. LeftIs' /\ HandIs' /\ BuildingIs' /\ SendIs'
  BY <1>1 DEF LeftIs, HandIs, BuildingIs, SendIs
<1>7. FragmentIs'
  BY <1>1, <1>2, <1>4 DEF Contents, FragmentIs
<1>8. StartIs'
  BY <1>1 DEF StartIs
<1>9. EndIs'
  BY <1>1, <1>4 DEF Contents, EndIs
<1>10. WholeIs'
  <2>1. Ordered(whole, frames, Done)
    BY DEF Contents, WholeIs
  <2>2. Ordered(whole, frames, Last)
    <3>1. Done \in Nat /\ Done <= Last /\ \A n \in 1..Done : frames[n] = frames[n]
      BY <1>3
    <3> QED  BY ONLY <1>3, <2>1, <3>1, OrderedSame
  <2>3. pauses' # 0
    BY <1>1
  <2> QED  BY <1>1, <1>4, <2>2, <2>3 DEF WholeIs
<1> QED  BY <1>5, <1>6, <1>7, <1>8, <1>9, <1>10 DEF Contents

LEMMA PackFrameContents ==
  ASSUME SinkInv, Contents, PackFrame, SinkInv' PROVE Contents'
<1> USE HeaderAssumption, PacketAssumption
<1>1. /\ step = "pack" /\ off' = off + FRAMEHEADER
      /\ start' = start /\ several' = several /\ used' = used
      /\ fragOffset' = fragOffset /\ noneLeft' = noneLeft /\ ends' = ends
      /\ frames' = frames /\ pauses' = pauses
      /\ part' = part /\ whole' = whole
  BY DEF PackFrame, streamVars
<1>2. PICK h \in {0, 1} : h = FRAMEHEADER /\ FRAMEHEADER' = h
  BY <1>1, FrameHeaderSize DEF FRAMEHEADER
<1>3. /\ start \in Nat /\ off \in Nat /\ overOffset \in Nat /\ overSize \in Nat
      /\ fragOffset \in Nat /\ used \in Nat
      /\ overSize > 0 => (start + overOffset) + overSize <= LIMIT
      /\ asked = FALSE
  BY <1>1, FrameAssumption DEF SinkInv, SinkTypeOK, BufferTypeOK
<1>4. noneLeft' => FALSE
  BY <1>1 DEF Contents, EndIs
<1>5. Last \in Nat /\ Last' = Last /\ part' = Piece(Last, 0, fragOffset)
  BY <1>1, LastIs DEF Last, Contents, FragmentIs
<1>6. /\ used <= Top
      /\ used > 0 => several /\ ends = TRUE /\ fragOffset = 0 /\ overSize = 0
      /\ Packed(buf, start, h, Wholes(frames, Top, used), off)
  BY <1>1, <1>2 DEF Contents, BuildingIs
<1>7. EndIs' /\ SendIs'
  <2>1. step' # "send"
    BY DEF PackFrame
  <2> QED  BY <1>4, <2>1 DEF EndIs, SendIs
<1>8. CASE overSize > 0
  <2> DEFINE at == off + FRAMEHEADER
             p == Piece(Last, fragOffset, overSize)
             q == Units(overOffset, overOffset + overSize)
  <2>1. /\ buf' = Written(at, q) /\ size' = overSize
        /\ overSize' = 0 /\ step' = "use" /\ asked' = FALSE
    BY <1>3, <1>8 DEF PackFrame, Moved
  <2>2. /\ Last > 0 /\ fragOffset + overSize = frames[Last]
        /\ Lies(buf, start + overOffset, p)
    BY <1>8 DEF Contents, LeftIs
  <2>3. /\ p \in Seq(Unit) /\ Len(p) = overSize
        /\ \A i \in 1..overSize : p[i] = Data(Last, fragOffset + i)
    BY <1>3, <1>5, PieceIs
  <2>4. BufferTypeOK /\ buf \in [0..(LIMIT - 1) -> Unit]
    BY DEF SinkInv, SinkTypeOK, Contents, UnitsOK
  <2>5. PICK to \in Nat : to = overOffset + overSize
    BY <1>3
  <2>6. /\ q \in Seq(Unit) /\ Len(q) = to - overOffset
        /\ \A i \in 1..(to - overOffset) :
             q[i] = buf[((start + overOffset) + i) - 1]
    <3>1. overOffset <= to /\ start + to <= LIMIT /\ overOffset \in Nat
      BY <1>3, <1>8, <2>5
    <3>2. /\ Units(overOffset, to) \in Seq(Unit)
          /\ Len(Units(overOffset, to)) = to - overOffset
          /\ \A i \in 1..(to - overOffset) :
               Units(overOffset, to)[i] = buf[((start + overOffset) + i) - 1]
      BY ONLY <2>4, <2>5, <3>1, UnitsIs
    <3> QED  BY <2>5, <3>2
  <2> HIDE DEF p, q
  <2>7. to - overOffset = overSize
    BY <1>3, <2>5
  <2>8. q = p
    <3>1. Len(q) = Len(p) /\ \A i \in 1..Len(q) : q[i] = p[i]
      BY <2>2, <2>3, <2>6, <2>7 DEF Lies
    <3> QED  BY ONLY <2>3, <2>6, <3>1, SeqEqual
  <2>9. /\ buf' \in [0..(LIMIT - 1) -> Unit]
        /\ Lies(buf', start + at, p)
    <3>1. at \in Nat /\ (start + at) + Len(p) <= LIMIT
      <4>1. start' + off' + size' <= LIMIT
        BY <2>1 DEF SinkInv, PacketInv
      <4> QED  BY <1>1, <1>2, <1>3, <2>1, <2>3, <4>1
    <3> HIDE DEF at
    <3>2. Written(at, p) \in [0..(LIMIT - 1) -> Unit] /\ Lies(Written(at, p), start + at, p)
      BY ONLY <2>3, <2>4, <3>1, WrittenAt
    <3> QED  BY <2>1, <2>8, <3>2
  <2>10. /\ Kept = 1 /\ Hand = 0 /\ Kept' = 0 /\ Hand' = 1
         /\ InPacket = used /\ InPacket' = used
    BY <1>1, <1>3, <1>8, <2>1 DEF Kept, Hand, InPacket
  <2>11. Top' = Top /\ Done' = Done
    <3>1. Top' = Top
      BY <1>5, <2>10 DEF Top
    <3> QED  BY <2>10, <3>1 DEF Done
  <2>12. UnitsOK'
    BY <1>1, <2>9 DEF Contents, UnitsOK
  <2>13. LeftIs'
    BY <2>1 DEF LeftIs
  <2>14. HandIs'
    <3>1. Lies(buf', start' + off', p)
      BY <1>1, <2>9
    <3> QED  BY <1>1, <1>5, <1>8, <2>1, <2>2, <3>1 DEF HandIs, p
  <2>15. FragmentIs'
    BY <1>1, <1>5, <2>1 DEF FragmentIs
  <2>16. BuildingIs'
    <3>1. used = 0
      BY <1>3, <1>6, <1>8
    <3>2. Wholes(frames', Top', used') = << >>
      BY <1>1, <3>1 DEF Wholes
    <3>3. off' - FRAMEHEADER' = HEADERS
      <4>1. off = HEADERS
        BY <1>1, <1>8 DEF SinkInv, OverflowInv
      <4> QED  BY <1>1, <1>2, <1>3, <4>1
    <3>4. Packed(buf', start', FRAMEHEADER', Wholes(frames', Top', used'),
                 off' - FRAMEHEADER')
      BY <3>2, <3>3, PackedNone
    <3> QED  BY <1>1, <1>6, <2>1, <2>11, <3>1, <3>4 DEF BuildingIs
  <2>17. StartIs'
    BY <1>1, <1>2, <2>1 DEF Contents, StartIs
  <2>18. WholeIs'
    BY <1>1, <2>11, WholeSame
  <2> QED  BY <1>7, <2>12, <2>13, <2>14, <2>15, <2>16, <2>17, <2>18 DEF Contents
<1>9. CASE ~(overSize > 0)
  <2>1. /\ asked' = TRUE /\ step' = "none" /\ buf' = buf /\ overSize' = overSize
        /\ overOffset' = overOffset
    BY <1>9 DEF PackFrame
  <2>2. overSize = 0 /\ fragOffset = 0
    BY <1>1, <1>3, <1>9 DEF Contents, FragmentIs
  <2>3. /\ Kept = 0 /\ Hand = 0 /\ Kept' = 0 /\ Hand' = 0
        /\ InPacket = used /\ InPacket' = used
    BY <1>1, <1>9, <2>1 DEF Kept, Hand, InPacket
  <2>4. Top' = Top /\ Done' = Done
    <3>1. Top' = Top
      BY <1>5, <2>3 DEF Top
    <3> QED  BY <2>3, <3>1 DEF Done
  <2>5. UnitsOK'
    BY <1>1, <2>1 DEF Contents, UnitsOK
  <2>6. LeftIs' /\ HandIs'
    BY <2>1, <2>2 DEF LeftIs, HandIs
  <2>7. FragmentIs'
    BY <1>1, <1>5, <2>1, <2>2 DEF FragmentIs
  <2>8. BuildingIs'
    <3>1. off' - FRAMEHEADER' = off
      BY <1>1, <1>2, <1>3
    <3>2. Packed(buf', start', FRAMEHEADER', Wholes(frames', Top', used'),
                 off' - FRAMEHEADER')
      BY <1>1, <1>2, <1>6, <2>1, <2>4, <3>1
    <3> QED  BY <1>1, <1>6, <2>1, <2>4, <3>2 DEF BuildingIs
  <2>9. StartIs'
    BY <1>1, <1>2, <2>1, <2>2 DEF Contents, StartIs
  <2>10. WholeIs'
    BY <1>1, <2>4, WholeSame
  <2> QED  BY <1>7, <2>5, <2>6, <2>7, <2>8, <2>9, <2>10 DEF Contents
<1> QED  BY <1>8, <1>9

\* The memory has room for every frame that the sink asks for.
LEMMA FrameFits ==
  ASSUME SinkInv, Contents, Room, asked, NEW n \in Sizes
  PROVE  n <= BytesAvailable
<1> USE HeaderAssumption, PacketAssumption
<1>1. /\ step = "none" /\ ~(overSize > 0) /\ overSize \in Nat
      /\ start \in Nat /\ off \in Nat /\ n \in Nat /\ used \in Nat
  BY FrameAssumption
  DEF SinkInv, SinkTypeOK, BufferTypeOK, OverflowInv
<1>2. off \in (HEADERS + FRAMEHEADER)..MAX
  BY DEF SinkInv, PacketInv
<1>3. start = 0 \/ start + HEADERS + FRAMEHEADER < LIMIT - LIMIT \div 2
  BY DEF Contents, StartIs
<1>4. PICK hl \in Nat : hl = LIMIT \div 2 /\ 2 * hl <= LIMIT /\ LIMIT <= 2 * hl + 1
  OBVIOUS
<1>5. CASE several
  <2>1. FRAMEHEADER = 1 /\ n + MAX <= (hl + HEADERS) + 2
    BY <1>4, <1>5 DEF FRAMEHEADER, Room
  <2>2. LIMIT >= 2 * MAX /\ HEADERS + 1 < MAX
    OBVIOUS
  <2>3. start = 0 \/ start + HEADERS + 1 < LIMIT - hl
    BY <1>3, <1>4, <2>1
  <2>4. n <= LIMIT - (start + off)
    <3>1. CASE start = 0
      BY <1>1, <1>2, <1>4, <2>1, <2>2, <3>1
    <3>2. CASE start + HEADERS + 1 < LIMIT - hl
      BY <1>1, <1>2, <1>4, <2>1, <2>2, <3>2
    <3> QED  BY <2>3, <3>1, <3>2
  <2> QED  BY <2>4 DEF BytesAvailable
<1>6. CASE ~several
  <2>1. FRAMEHEADER = 0
    BY <1>6 DEF FRAMEHEADER
  <2>2. start = 0
    BY <1>1, <1>6 DEF Contents, StartIs
  <2>3. /\ used > 0 => several
        /\ Packed(buf, start, FRAMEHEADER, Wholes(frames, Top, used),
                  off - FRAMEHEADER)
    BY <1>1 DEF Contents, BuildingIs
  <2>4. used = 0
    BY <1>1, <1>6, <2>3
  <2>5. off = HEADERS
    <3>1. Len(Wholes(frames, Top, used)) = 0
      <4>1. Wholes(frames, Top, 0) = << >>
        BY DEF Wholes
      <4> QED  BY <2>4, <4>1
    <3>2. off - FRAMEHEADER = HEADERS
      BY ONLY <2>3, <3>1, PackedNoneIs
    <3> QED  BY <1>1, <2>1, <3>2
  <2>6. n + HEADERS + 1 <= LIMIT
    BY FrameAssumption
  <2> QED  BY <1>1, <2>2, <2>5, <2>6 DEF BytesAvailable
<1> QED  BY <1>5, <1>6

LEMMA GotFrameContents ==
  ASSUME SinkInv, Contents, Room, AfterGettingFrame PROVE Contents'
<1> USE HeaderAssumption, PacketAssumption
<1>1. PICK n \in Sizes:
        LET got == IF n < BytesAvailable THEN n ELSE BytesAvailable
        IN  /\ frames' = Append(frames, n)
            /\ size' = got
            /\ buf' = Written(off, [i \in 1..got |-> Data(Len(frames) + 1, i)])
  BY DEF AfterGettingFrame
<1>2. /\ asked = TRUE /\ asked' = FALSE /\ step' = "use" /\ start' = start
      /\ off' = off /\ overOffset' = overOffset /\ overSize' = overSize
      /\ several' = several /\ used' = used /\ fragOffset' = fragOffset
      /\ noneLeft' = noneLeft /\ ends' = ends /\ pauses' = pauses
      /\ part' = part /\ whole' = whole
  BY DEF AfterGettingFrame, SinkInv, SinkTypeOK
<1>3. /\ n \in Nat \ {0} /\ n <= BytesAvailable
      /\ start \in Nat /\ off \in Nat /\ used \in Nat /\ overSize \in Nat
      /\ fragOffset \in Nat
  BY <1>2, FrameFits, FrameAssumption DEF SinkInv, SinkTypeOK, BufferTypeOK
<1>4. BytesAvailable \in Nat /\ BytesAvailable = LIMIT - (start + off)
  BY DEF BytesAvailable, SinkInv, SinkTypeOK, BufferTypeOK
<1>5. step = "none" /\ overSize = 0
  BY <1>2 DEF SinkInv, SinkTypeOK, BufferTypeOK, OverflowInv
<1>6. fragOffset = 0 /\ part = Piece(Last, 0, 0)
  BY <1>5 DEF Contents, FragmentIs
<1>7. Last \in Nat /\ Done \in 0..Last
  BY LastIs
<1> DEFINE k == Last + 1
           p == Piece(k, 0, n)
<1>8. size' = n /\ buf' = Written(off, p)
  <2>1. size' = n /\ buf' = Written(off, [i \in 1..n |-> Data(Len(frames) + 1, i)])
    <3>1. CASE n < BytesAvailable
      BY <1>1, <3>1
    <3>2. CASE ~(n < BytesAvailable)
      <4>1. n = BytesAvailable
        BY <1>3, <1>4, <3>2
      <4> QED  BY <1>1, <3>2, <4>1
    <3> QED  BY <3>1, <3>2
  <2>2. \A i \in 1..n : 0 + i = i
    OBVIOUS
  <2>3. p = [i \in 1..n |-> Data(Len(frames) + 1, i)]
    BY <2>2 DEF Piece, Last
  <2> QED  BY <2>1, <2>3
<1>9. k \in Nat
  BY <1>7
<1>10. p \in Seq(Unit) /\ Len(p) = n
  <2> HIDE DEF k
  <2> QED  BY <1>3, <1>9, PieceIs
<1> HIDE DEF p
<1>11. /\ buf' \in [0..(LIMIT - 1) -> Unit]
       /\ Lies(buf', start + off, p)
       /\ \A a \in 0..(LIMIT - 1) : a < start + off => buf'[a] = buf[a]
  <2>1. BufferTypeOK /\ buf \in [0..(LIMIT - 1) -> Unit]
    BY DEF SinkInv, SinkTypeOK, Contents, UnitsOK
  <2>2. off \in Nat /\ (start + off) + Len(p) <= LIMIT
    BY <1>3, <1>4, <1>10
  <2>3. /\ Written(off, p) \in [0..(LIMIT - 1) -> Unit]
        /\ Lies(Written(off, p), start + off, p)
        /\ \A a \in 0..(LIMIT - 1) :
             a < start + off \/ a >= (start + off) + Len(p) =>
               Written(off, p)[a] = buf[a]
    BY ONLY <1>10, <2>1, <2>2, WrittenAt
  <2> QED  BY <1>8, <2>3
<1>12. /\ frames \in Seq(Sizes) /\ frames' \in Seq(Sizes)
       /\ Last' = k /\ frames'[k] = n
       /\ \A i \in 1..Last : frames'[i] = frames[i]
  <2>1. frames \in Seq(Sizes)
    BY DEF Contents, UnitsOK
  <2>2. /\ Append(frames, n) \in Seq(Sizes)
        /\ Len(Append(frames, n)) = Len(frames) + 1
        /\ \A i \in 1..Len(frames) : Append(frames, n)[i] = frames[i]
        /\ Append(frames, n)[Len(frames) + 1] = n
    <3>1. n \in Sizes
      OBVIOUS
    <3> QED  BY ONLY <2>1, <3>1, AppendProperties
  <2> QED  BY <1>1, <2>1, <2>2 DEF Last
<1>13. /\ Kept = 0 /\ Hand = 0 /\ Kept' = 0 /\ Hand' = 1
       /\ InPacket = used /\ InPacket' = used
  BY <1>2, <1>5 DEF Kept, Hand, InPacket
<1>14. Top = Last /\ Top' = Last /\ Done' = Done
  <2>1. Top = Last
    BY <1>7, <1>13 DEF Top
  <2>2. Top' = Last
    BY <1>7, <1>12, <1>13 DEF Top
  <2> QED  BY <1>13, <2>1, <2>2 DEF Done
<1>15. UnitsOK'
  BY <1>2, <1>11, <1>12 DEF Contents, UnitsOK
<1>16. LeftIs' /\ SendIs'
  BY <1>2, <1>5 DEF LeftIs, SendIs
<1>17. HandIs'
  <2>1. Lies(buf', start' + off', Piece(k, 0, n))
    BY <1>2, <1>11 DEF p
  <2>2. k > 0 /\ n > 0 /\ 0 + n = n
    BY <1>3, <1>7
  <2>3. fragOffset' = 0
    BY <1>2, <1>6
  <2> HIDE DEF k
  <2> QED  BY <1>8, <1>12, <2>1, <2>2, <2>3 DEF HandIs
<1>18. FragmentIs'
  <2>1. Piece(Last, 0, 0) = << >> /\ Piece(k, 0, 0) = << >>
    BY <1>7, <1>9, PieceNone
  <2> HIDE DEF k
  <2> QED  BY <1>2, <1>6, <1>12, <2>1 DEF FragmentIs
<1>19. BuildingIs'
  <2>1. /\ used <= Top
        /\ used > 0 => several /\ ends = TRUE /\ fragOffset = 0
        /\ Packed(buf, start, FRAMEHEADER, Wholes(frames, Top, used),
                  off - FRAMEHEADER)
    BY <1>2, <1>5 DEF Contents, BuildingIs
  <2>2. frames \in Seq(Nat) /\ frames' \in Seq(Nat)
    <3>1. Sizes \subseteq Nat
      BY FrameAssumption
    <3> QED  BY <1>12, <3>1, SeqMonotonic
  <2>3. Top \in 0..Len(frames) /\ used \in 0..Top
    BY <1>3, <1>7, <1>14, <2>1 DEF Last
  <2>4. \A i \in 1..Top : frames'[i] = frames[i]
    BY <1>12, <1>14
  <2> DEFINE ws == Wholes(frames, Top, used)
  <2>5. Wholes(frames', Top, used) = ws
    BY ONLY <2>2, <2>3, <2>4, WholesSame
  <2>6. ws \in Seq(Seq(Unit))
    BY ONLY <2>2, <2>3, WholesIs
  <2> HIDE DEF ws
  <2>7. PICK h \in {0, 1} : h = FRAMEHEADER /\ FRAMEHEADER' = h
    BY <1>2, FrameHeaderSize DEF FRAMEHEADER
  <2>8. PICK end \in Nat : end = off - h
    <3>1. off \in (HEADERS + h)..MAX
      BY <1>2, <2>7 DEF SinkInv, PacketInv
    <3> QED  BY <1>3, <3>1
  <2>9. PICK top \in Nat : top = start + end
    BY <1>3
  <2>10. Agree(buf, buf', start, top)
    <3>1. ASSUME NEW b \in start..(top - 1)
          PROVE  b \in 0..(LIMIT - 1) /\ b < start + off
      BY <1>3, <1>4, <2>8, <2>9
    <3> QED  BY <1>11, <3>1 DEF Agree
  <2>11. Packed(buf', start, h, ws, end)
    <3>1. Packed(buf, start, h, ws, end) /\ start \in Nat
      BY <1>3, <2>1, <2>7, <2>8 DEF ws
    <3> QED  BY ONLY <2>6, <2>7, <2>8, <2>9, <2>10, <3>1, PackedSame
  <2>12. Packed(buf', start', FRAMEHEADER', Wholes(frames', Top', used'),
                off' - FRAMEHEADER')
    BY <1>2, <1>14, <2>5, <2>7, <2>8, <2>11
  <2> QED  BY <1>2, <1>14, <2>1, <2>12 DEF BuildingIs
<1>20. StartIs'
  BY <1>2, <1>5 DEF Contents, StartIs, FRAMEHEADER
<1>21. EndIs'
  BY <1>2 DEF Contents, EndIs
<1>22. WholeIs'
  BY <1>2, <1>12, <1>14, WholeSame
<1> QED  BY <1>15, <1>16, <1>17, <1>18, <1>19, <1>20, <1>21, <1>22 DEF Contents

\* Frames that do not continue a fragment are what they are in the packet.
LEMMA CompletedIs ==
  ASSUME NEW ps \in Seq(Seq(Unit)), Len(ps) > 0
  PROVE  Completed(<< >>, ps) = ps
<1>1. PICK l \in Nat : l = Len(ps) /\ 1 \in 1..l /\ l \in 1..l
  BY LenProperties
<1>2. ps[1] \in Seq(Unit)
  BY <1>1, ElementOfSeq
<1>3. << >> \o ps[1] = ps[1]
  BY <1>2, ConcatEmptySeq
<1>4. SubSeq(ps, 1, l) = <<ps[1]>> \o SubSeq(ps, 1 + 1, l)
  <2>1. 1 \in 1..Len(ps) /\ l \in 1..Len(ps) /\ ps \in Seq(Seq(Unit))
    BY <1>1
  <2> QED  BY ONLY <2>1, SubSeqRecursiveFirst
<1>5. SubSeq(ps, 1, Len(ps)) = ps
  BY SubSeqFull
<1>6. 1 + 1 = 2
  OBVIOUS
<1> QED  BY <1>1, <1>3, <1>4, <1>5, <1>6 DEF Completed

LEMMA ClosureContents ==
  ASSUME SinkInv, Contents, OurHandleClosure PROVE Contents'
<1> USE HeaderAssumption, PacketAssumption
<1>1. /\ asked = TRUE /\ asked' = FALSE /\ noneLeft' = TRUE /\ step' = "send"
      /\ Len(frames) = MaxFrames
      /\ buf' = buf /\ start' = start /\ off' = off
      /\ overOffset' = overOffset /\ overSize' = overSize
      /\ several' = several /\ used' = used /\ fragOffset' = fragOffset
      /\ ends' = ends /\ frames' = frames /\ pauses' = pauses
      /\ part' = part /\ whole' = whole
  BY DEF OurHandleClosure, bufferVars, streamVars, SinkInv, SinkTypeOK
<1>2. /\ off \in Nat /\ used \in Nat
      /\ step = "none" /\ overSize = 0
  BY <1>1, FrameAssumption DEF SinkInv, SinkTypeOK, BufferTypeOK, OverflowInv
<1>3. Last \in Nat /\ fragOffset = 0 /\ part = << >>
  BY <1>2, LastIs, PieceNone DEF Contents, FragmentIs
<1>4. /\ Kept = 0 /\ Hand = 0 /\ Kept' = 0 /\ Hand' = 0
      /\ InPacket = used /\ InPacket' = used /\ Last' = Last
  BY <1>1, <1>2 DEF Kept, Hand, InPacket, Last
<1>5. Top' = Top /\ Done' = Done /\ Top = Last
  <2>1. Top' = Top /\ Top = Last
    BY <1>3, <1>4 DEF Top
  <2> QED  BY <1>4, <2>1 DEF Done
<1>6. UnitsOK' /\ LeftIs' /\ HandIs' /\ BuildingIs'
  BY <1>1, <1>2 DEF Contents, UnitsOK, LeftIs, HandIs, BuildingIs
<1>7. FragmentIs' /\ StartIs'
  BY <1>1 DEF Contents, FragmentIs, StartIs, FRAMEHEADER
<1>8. EndIs'
  BY <1>1, <1>2, <1>4 DEF EndIs, Last
<1>9. WholeIs'
  BY <1>1, <1>5, WholeSame
<1>10. SendIs'
  <2>1. /\ used <= Top
        /\ used > 0 => several /\ ends = TRUE
        /\ Packed(buf, start, FRAMEHEADER, Wholes(frames, Top, used),
                  off - FRAMEHEADER)
    BY <1>1, <1>2 DEF Contents, BuildingIs
  <2>2. PICK ws \in Seq(Seq(Unit)) :
          ws = Wholes(frames, Top, used) /\ Len(ws) = used
    <3>1. frames \in Seq(Nat)
      BY DEF SinkInv, SinkTypeOK
    <3>2. Top \in 0..Len(frames) /\ used \in 0..Top
      BY <1>2, <1>3, <1>5, <2>1 DEF Last
    <3> QED  BY <3>1, <3>2, WholesIs
  <2>3. PICK h \in {0, 1} : h = FRAMEHEADER /\ FRAMEHEADER' = h
    BY <1>1, FrameHeaderSize DEF FRAMEHEADER
  <2>4. PICK end \in Nat : end = off - h
    <3>1. off \in (HEADERS + h)..MAX
      BY <1>1, <2>3 DEF SinkInv, PacketInv
    <3> QED  BY <1>2, <3>1
  <2>5. off = end + h
    BY <1>2, <2>4
  <2>6. Packed(buf, start, h, ws, end)
    BY <2>1, <2>2, <2>3, <2>4
  <2>7. ASSUME used > 0
        PROVE  /\ Len(ws) = used'
               /\ Packed(buf', start', FRAMEHEADER', ws, end)
               /\ off' = end + FRAMEHEADER'
               /\ ends' = TRUE /\ fragOffset' = 0
               /\ Completed(part', ws) = Wholes(frames', Top', used')
    <3>1. Completed(part', ws) = ws
      BY <1>1, <1>3, <2>2, <2>7, CompletedIs
    <3>2. ends' = TRUE
      BY <1>1, <2>1, <2>7
    <3> QED  BY <1>1, <1>3, <1>5, <2>2, <2>3, <2>5, <2>6, <3>1, <3>2
  <2>8. used' = 0 => part' = << >> /\ overSize' = 0 /\ fragOffset' = 0
    BY <1>1, <1>2, <1>3
  <2> QED  BY <1>1, <1>5, <2>1, <2>7, <2>8 DEF SendIs
<1> QED  BY <1>6, <1>7, <1>8, <1>9, <1>10 DEF Contents

\* The header of the frame in hand is written just before it.
LEMMA MarkedMemory ==
  ASSUME SinkInv, Contents, step = "use", NEW k \in Nat, NEW left,
         MarkPacket(k, left),
         NEW h \in {0, 1}, h = FRAMEHEADER, NEW end \in Nat, off = end + h
  PROVE  /\ buf' \in [0..(LIMIT - 1) -> Unit]
         /\ \A a \in 0..(LIMIT - 1) :
              a < start + end \/ a >= start + off => buf'[a] = buf[a]
         /\ h = 1 => buf'[start + end] = FrameHeader(k)
<1>1. BufferTypeOK /\ buf \in [0..(LIMIT - 1) -> Unit]
  BY DEF SinkInv, SinkTypeOK, Contents, UnitsOK
<1>2. start \in Nat /\ start + off <= LIMIT
  BY <1>1 DEF BufferTypeOK
<1>3. CASE several
  <2>1. h = 1
    BY <1>3 DEF FRAMEHEADER
  <2>2. end = off - 1
    BY <2>1
  <2> DEFINE hs == <<FrameHeader(k)>>
  <2>3. hs \in Seq(Unit) /\ Len(hs) = 1 /\ hs[1] = FrameHeader(k)
    <3>1. FrameHeader(k) \in Unit
      BY DEF FrameHeader, Unit
    <3> HIDE DEF Unit
    <3> QED  BY <3>1
  <2>4. buf' = Written(end, hs)
    BY <1>3, <2>2 DEF MarkPacket
  <2> HIDE DEF hs
  <2>5. (start + end) + Len(hs) <= LIMIT
    BY <1>2, <2>1, <2>3
  <2>6. /\ Written(end, hs) \in [0..(LIMIT - 1) -> Unit]
        /\ Lies(Written(end, hs), start + end, hs)
        /\ \A a \in 0..(LIMIT - 1) :
             a < start + end \/ a >= (start + end) + Len(hs) =>
               Written(end, hs)[a] = buf[a]
    <3>1. end \in Nat
      OBVIOUS
    <3> QED  BY ONLY <1>1, <2>3, <2>5, <3>1, WrittenAt
  <2>7. ((start + end) + 1) - 1 = start + end /\ (start + end) + 1 = start + off
    BY <1>2, <2>1
  <2>8. buf'[start + end] = FrameHeader(k)
    BY <2>3, <2>4, <2>6, <2>7 DEF Lies
  <2> QED  BY <2>3, <2>4, <2>6, <2>7, <2>8
<1>4. CASE ~several
  <2>1. h = 0 /\ buf' = buf
    BY <1>4 DEF FRAMEHEADER, MarkPacket
  <2> QED  BY <1>1, <2>1
<1> QED  BY <1>3, <1>4

LEMMA LiesParts ==
  ASSUME NEW m, NEW a \in Nat, NEW k \in Nat, NEW at \in Nat,
         NEW n \in Nat, NEW l \in Nat, NEW s \in Nat, s = n + l,
         Lies(m, a, Piece(k, at, s))
  PROVE  Lies(m, a, Piece(k, at, n)) /\ Lies(m, a + n, Piece(k, at + n, l))
<1>1. \A i \in 1..s : m[(a + i) - 1] = Data(k, at + i)
  <2>1. Len(Piece(k, at, s)) = s /\ \A i \in 1..s : Piece(k, at, s)[i] = Data(k, at + i)
    BY PieceIs
  <2> QED  BY <2>1 DEF Lies
<1>2. Lies(m, a, Piece(k, at, n))
  <2>1. Len(Piece(k, at, n)) = n /\ \A i \in 1..n : Piece(k, at, n)[i] = Data(k, at + i)
    BY PieceIs
  <2>2. \A i \in 1..n : i \in 1..s
    OBVIOUS
  <2> QED  BY <1>1, <2>1, <2>2 DEF Lies
<1>3. Lies(m, a + n, Piece(k, at + n, l))
  <2>1. PICK b \in Nat : b = at + n
    OBVIOUS
  <2>2. Len(Piece(k, b, l)) = l /\ \A i \in 1..l : Piece(k, b, l)[i] = Data(k, b + i)
    BY PieceIs
  <2>3. ASSUME NEW i \in 1..l
        PROVE  m[((a + n) + i) - 1] = Data(k, b + i)
    <3>1. PICK j \in 1..s : j = n + i
      OBVIOUS
    <3>2. (a + j) - 1 = ((a + n) + i) - 1 /\ at + j = b + i
      BY <2>1, <3>1
    <3>3. m[(a + j) - 1] = Data(k, at + j)
      BY <1>1
    <3> QED  BY <3>2, <3>3
  <2> QED  BY <2>1, <2>2, <2>3 DEF Lies
<1> QED  BY <1>2, <1>3

\* The rest of a frame that has begun, in a packet of its own.
LEMMA CompletedOne ==
  ASSUME NEW k \in Nat, NEW a \in Nat, NEW b \in Nat
  PROVE  Completed(Piece(k, 0, a), <<Piece(k, a, b)>>) = <<Piece(k, 0, a + b)>>
<1> DEFINE p == Piece(k, a, b)
           q == Piece(k, 0, a + b)
<1>1. Piece(k, 0, a) \o p = q
  BY PieceJoin
<1>2. p \in Seq(Unit)
  BY PieceIs
<1>3. q \in Seq(Unit)
  <2>1. a + b \in Nat /\ 0 \in Nat
    OBVIOUS
  <2> QED  BY <2>1, PieceIs
<1> HIDE DEF p, q
<1>4. Len(<<p>>) = 1 /\ <<p>>[1] = p
  OBVIOUS
<1>5. SubSeq(<<p>>, 2, 1) = << >>
  BY SubSeqEmpty
<1>6. <<q>> \in Seq(Seq(Unit))
  BY <1>3
<1>7. <<q>> \o << >> = <<q>>
  BY <1>6, ConcatEmptySeq
<1> QED  BY <1>1, <1>4, <1>5, <1>7 DEF Completed, p, q

\* What the packet and the memory hold after k units of the frame in hand have
\* been put into the packet.
LEMMA UnitsUsed ==
  ASSUME SinkInv, Contents, step = "use", NEW k \in Nat, NEW left \in Nat,
         MarkPacket(k, left), k > 0, k + left = size,
         NEW h \in {0, 1}, h = FRAMEHEADER
  PROVE  /\ buf' \in [0..(LIMIT - 1) -> Unit]
         /\ Lies(buf', (start + off) + k, Piece(Last, fragOffset + k, left))
         /\ Packed(buf', start, h,
                   Append(Wholes(frames, Top, used), Piece(Last, fragOffset, k)),
                   off + k)
         /\ Wholes(frames, Top, used) \in Seq(Seq(Unit))
         /\ Len(Wholes(frames, Top, used)) = used
<1> USE HeaderAssumption, PacketAssumption
<1>1. /\ start \in Nat /\ off \in Nat /\ used \in Nat /\ size \in Nat
      /\ fragOffset \in Nat /\ start + off + size <= LIMIT
      /\ off \in (HEADERS + h)..MAX /\ overSize = 0
  BY FrameAssumption
  DEF SinkInv, SinkTypeOK, BufferTypeOK, PacketInv, OverflowInv
<1>2. PICK end \in Nat : off = end + h
  <2>1. off - h \in Nat /\ off = (off - h) + h
    BY <1>1
  <2> QED  BY <2>1
<1>3. /\ buf' \in [0..(LIMIT - 1) -> Unit]
      /\ \A a \in 0..(LIMIT - 1) :
           a < start + end \/ a >= start + off => buf'[a] = buf[a]
      /\ h = 1 => buf'[start + end] = FrameHeader(k)
  BY <1>2, MarkedMemory
<1>4. /\ Last \in Nat /\ Lies(buf, start + off, Piece(Last, fragOffset, size))
  BY LastIs DEF Contents, HandIs
<1>5. PICK a \in Nat : a = start + off
  BY <1>1
<1>6. Lies(buf', a, Piece(Last, fragOffset, size))
  <2> DEFINE q == Piece(Last, fragOffset, size)
  <2>1. q \in Seq(Unit) /\ Len(q) = size
    BY <1>1, <1>4, PieceIs
  <2>2. Lies(buf, a, q)
    BY <1>4, <1>5
  <2> HIDE DEF q
  <2>3. /\ a \in Int /\ LIMIT \in Int /\ a <= a /\ a + Len(q) <= LIMIT
        /\ a \in Nat
    BY <1>1, <1>5, <2>1
  <2>4. Agree(buf, buf', a, LIMIT)
    <3>1. ASSUME NEW b \in a..(LIMIT - 1)
          PROVE  b \in 0..(LIMIT - 1) /\ b >= start + off
      BY <1>5
    <3> QED  BY <1>3, <3>1 DEF Agree
  <2>5. Lies(buf', a, q)
    BY ONLY <2>1, <2>2, <2>3, <2>4, LiesSame
  <2> QED  BY <2>5 DEF q
<1>7. /\ Lies(buf', a, Piece(Last, fragOffset, k))
      /\ Lies(buf', a + k, Piece(Last, fragOffset + k, left))
  <2>1. size = k + left /\ k \in Nat /\ left \in Nat
    OBVIOUS
  <2> QED  BY ONLY <1>1, <1>4, <1>5, <1>6, <2>1, LiesParts
<1>8. /\ used <= Top
      /\ used > 0 => several
      /\ Packed(buf, start, h, Wholes(frames, Top, used), off - h)
  BY DEF Contents, BuildingIs
<1>9. PICK ws \in Seq(Seq(Unit)) :
        ws = Wholes(frames, Top, used) /\ Len(ws) = used
  <2>1. frames \in Seq(Nat)
    BY DEF SinkInv, SinkTypeOK
  <2>2. Top <= Last /\ Top \in Int
    BY <1>4 DEF Top, Kept, Hand
  <2>3. Top \in 0..Len(frames) /\ used \in 0..Top
    BY <1>1, <1>4, <1>8, <2>2 DEF Last
  <2> QED  BY <2>1, <2>3, WholesIs
<1>10. PICK p \in Seq(Unit) : p = Piece(Last, fragOffset, k) /\ Len(p) = k
  BY <1>1, <1>4, PieceIs
<1>11. Packed(buf', start, h, Append(ws, p), off + k)
  <2>1. PICK top \in Nat : top = start + end
    BY <1>1
  <2>2. PICK to \in Nat : to = off + k
    BY <1>1
  <2>3. Agree(buf, buf', start, top)
    <3>1. ASSUME NEW b \in start..(top - 1)
          PROVE  b \in 0..(LIMIT - 1) /\ b < start + end
      BY <1>1, <1>2, <2>1
    <3> QED  BY <1>3, <3>1 DEF Agree
  <2>4. Packed(buf, start, h, ws, end)
    <3>1. off - h = end
      BY <1>2
    <3> QED  BY <1>8, <1>9, <3>1
  <2>5. h = 1 \/ Len(ws) = 0
    <3>1. CASE several
      BY <3>1 DEF FRAMEHEADER
    <3>2. CASE used = 0
      BY <1>9, <3>2
    <3> QED  BY <1>1, <1>8, <3>1, <3>2
  <2>6. Lies(buf', top + h, p)
    <3>1. top + h = a
      BY <1>1, <1>2, <1>5, <2>1
    <3>2. Lies(buf', a, p)
      BY <1>7, <1>10
    <3> QED  BY <3>1, <3>2
  <2>7. h = 1 => buf'[top] = FrameHeader(Len(p))
    BY <1>3, <1>10, <2>1
  <2>8. Framed(buf', top, h, p)
    BY <1>10, <2>6, <2>7 DEF Framed
  <2>9. /\ to = (end + h) + Len(p) /\ start \in Nat /\ h \in Nat /\ h \in {0, 1}
        /\ end \in Nat
    BY <1>1, <1>2, <1>10, <2>2
  <2>10. Packed(buf', start, h, Append(ws, p), to)
    BY ONLY <1>9, <1>10, <2>1, <2>2, <2>3, <2>4, <2>5, <2>8, <2>9, PackedMore
  <2> QED  BY <2>2, <2>10
<1> QED  BY <1>3, <1>5, <1>7, <1>9, <1>10, <1>11

LEMMA UseUnitsContents ==
  ASSUME SinkInv, Contents, UseFrame, NEW k \in Nat, NEW left \in Nat,
         UseUnits(k, left), k > 0, k + left = size,
         left > 0 => off + k = MAX /\ used = 0
  PROVE  Contents'
<1> USE HeaderAssumption, PacketAssumption
<1>1. /\ step = "use" /\ off' = off + k /\ used' = used + 1
      /\ overOffset' = IF left > 0 THEN off + k ELSE overOffset
      /\ overSize' = IF left > 0 THEN left ELSE overSize
      /\ fragOffset' = IF left > 0 THEN fragOffset + k ELSE 0
      /\ start' = start /\ several' = several /\ asked' = asked
      /\ noneLeft' = noneLeft /\ frames' = frames /\ pauses' = pauses
      /\ part' = part /\ whole' = whole
  BY DEF UseFrame, UseUnits, MarkPacket, streamVars
<1>2. MarkPacket(k, left)
  BY DEF UseUnits
<1>3. PICK h \in {0, 1} : h = FRAMEHEADER /\ FRAMEHEADER' = h
  BY <1>1, FrameHeaderSize DEF FRAMEHEADER
<1>4. /\ start \in Nat /\ off \in Nat /\ used \in Nat /\ size \in Nat
      /\ fragOffset \in Nat /\ overSize = 0 /\ asked = FALSE
  BY <1>1, FrameAssumption
  DEF SinkInv, SinkTypeOK, BufferTypeOK, OverflowInv
<1>5. /\ Last \in Nat /\ Last > 0 /\ fragOffset + size = frames[Last]
      /\ part = Piece(Last, 0, fragOffset)
  BY <1>1, LastIs DEF Contents, HandIs, FragmentIs
<1>6. /\ used <= Top
      /\ used > 0 => several /\ fragOffset = 0
  BY <1>1 DEF Contents, BuildingIs
<1>7. Last' = Last /\ Top = Last - 1 /\ InPacket = used
  BY <1>1, <1>4, <1>5 DEF Last, Top, Kept, Hand, InPacket
<1> DEFINE p == Piece(Last, fragOffset, k)
<1>8. PICK ws \in Seq(Seq(Unit)) :
        ws = Wholes(frames, Top, used) /\ Len(ws) = used
  BY <1>1, <1>2, <1>3, UnitsUsed
<1>9. /\ buf' \in [0..(LIMIT - 1) -> Unit]
      /\ Lies(buf', (start + off) + k, Piece(Last, fragOffset + k, left))
      /\ Packed(buf', start, h, Append(ws, p), off + k)
  BY <1>1, <1>2, <1>3, <1>8, UnitsUsed
<1>10. p \in Seq(Unit) /\ Len(p) = k
  BY <1>4, <1>5, PieceIs
<1>11. PICK ps \in Seq(Seq(Unit)) :
         /\ ps = Append(ws, p) /\ Len(ps) = used + 1
         /\ used = 0 => ps = <<p>> /\ ps[1] = p
  <2> HIDE DEF p
  <2>1. /\ Append(ws, p) \in Seq(Seq(Unit))
        /\ Len(Append(ws, p)) = Len(ws) + 1
        /\ Append(ws, p)[Len(ws) + 1] = p
    BY ONLY <1>8, <1>10, AppendProperties
  <2>2. ASSUME used = 0
        PROVE  Append(ws, p) = <<p>> /\ Append(ws, p)[1] = p
    <3>1. ws = << >>
      BY <1>8, <2>2, EmptySeq
    <3>2. Append(<< >>, p) = <<p>>
      OBVIOUS
    <3> QED  BY <3>1, <3>2
  <2> QED  BY <1>8, <2>1, <2>2
<1>12. UnitsOK'
  BY <1>1, <1>9 DEF Contents, UnitsOK
<1>13. HandIs' /\ EndIs'
  <2>1. step' # "use"
    BY DEF UseUnits
  <2> QED  BY <1>1, <2>1 DEF HandIs, Contents, EndIs
<1>14. CASE left > 0
  <2>1. /\ overOffset' = off + k /\ overSize' = left /\ used = 0 /\ used' = 1
        /\ fragOffset' = fragOffset + k
    BY <1>1, <1>4, <1>14
  <2>2. ends' = FALSE /\ step' = "send"
    <3>1. ends' = FALSE
      <4>1. ~(left = 0) /\ ends' = (left = 0)
        BY <1>2, <1>14 DEF MarkPacket
      <4> QED  BY <4>1, Zenon
    <3>2. IsPreferredSize(k)
      BY <1>14 DEF IsPreferredSize
    <3> QED  BY <3>1, <3>2 DEF UseUnits
  <2>3. Kept' = 0 /\ Hand' = 0 /\ InPacket' = 1
    BY <2>1, <2>2 DEF Kept, Hand, InPacket
  <2>4. Top' = Last /\ Done' = Done
    <3>1. Top' = Last
      BY <1>5, <1>7, <2>3 DEF Top
    <3> QED  BY <1>5, <1>7, <2>1, <2>3, <3>1 DEF Done
  <2>5. LeftIs'
    <3>1. start' + overOffset' = (start + off) + k
      BY <1>1, <1>4, <2>1
    <3>2. fragOffset' + overSize' = frames'[Last']
      <4>1. (fragOffset + k) + left = fragOffset + size
        BY <1>4
      <4> QED  BY <1>1, <1>5, <1>7, <2>1, <4>1
    <3>3. Lies(buf', start' + overOffset', Piece(Last', fragOffset', overSize'))
      BY <1>7, <1>9, <2>1, <3>1
    <3> QED  BY <1>5, <1>7, <3>2, <3>3 DEF LeftIs
  <2>6. FragmentIs' /\ BuildingIs' /\ StartIs'
    BY <1>1, <1>3, <1>4, <2>2 DEF FragmentIs, BuildingIs, Contents, StartIs
  <2>7. WholeIs'
    BY <1>1, <2>4, WholeSame
  <2>8. SendIs'
    <3>1. part' \o ps[1] = Piece(Last', 0, fragOffset')
      <4>1. Piece(Last, 0, fragOffset) \o Piece(Last, fragOffset, k)
              = Piece(Last, 0, fragOffset + k)
        <5>1. Last \in Nat /\ fragOffset \in Nat /\ k \in Nat
          BY <1>4, <1>5
        <5> QED  BY ONLY <5>1, PieceJoin
      <4>2. part' = Piece(Last, 0, fragOffset) /\ ps[1] = Piece(Last, fragOffset, k)
        BY <1>1, <1>5, <1>11, <2>1
      <4> QED  BY <1>7, <2>1, <4>1, <4>2
    <3>2. Packed(buf', start', FRAMEHEADER', ps, off + k)
      BY <1>1, <1>3, <1>9, <1>11
    <3>3. off + k \in Nat /\ off' = off + k
      BY <1>1, <1>4
    <3>4. Len(ps) = used' /\ used' <= Top' /\ used' = 1 /\ overSize' > 0
      BY <1>5, <1>11, <1>14, <2>1, <2>4
    <3>5. \E qs \in Seq(Seq(Unit)), end \in Nat :
            /\ Len(qs) = used' /\ Packed(buf', start', FRAMEHEADER', qs, end)
            /\ off' = end
            /\ part' \o qs[1] = Piece(Last', 0, fragOffset')
      BY <3>1, <3>2, <3>3, <3>4
    <3>6. used' > 0 /\ used' # 0
      BY <3>4
    <3> QED  BY <2>2, <3>4, <3>5, <3>6, Zenon DEF SendIs
  <2> QED  BY <1>12, <1>13, <2>5, <2>6, <2>7, <2>8 DEF Contents
<1>15. CASE ~(left > 0)
  <2>1. /\ left = 0 /\ k = size /\ overSize' = 0 /\ fragOffset' = 0
    BY <1>1, <1>4, <1>15
  <2>2. ends' = TRUE
    BY <1>2, <2>1 DEF MarkPacket
  <2>3. \/ step' = "send"
        \/ step' = "pack" /\ several /\ fragOffset = 0
    BY <1>4, <2>1 DEF UseUnits, CanAppearAfterStart
  <2>4. Kept' = 0 /\ Hand' = 0 /\ InPacket' = used + 1
    BY <1>1, <2>1, <2>3 DEF Kept, Hand, InPacket
  <2>5. Top' = Last /\ Done' = Done
    <3>1. Top' = Last
      BY <1>5, <1>7, <2>4 DEF Top
    <3> QED  BY <1>4, <1>5, <1>7, <2>4, <3>1 DEF Done
  <2>6. PICK n \in 1..Last : n = used + 1
    BY <1>4, <1>5, <1>6, <1>7
  <2>7. Append(Wholes(frames, Last - 1, n - 1), Piece(Last, 0, frames[Last]))
          = Wholes(frames, Last, n)
    <3>1. frames \in Seq(Nat) /\ Last \in 1..Len(frames)
      BY <1>5 DEF SinkInv, SinkTypeOK, Last
    <3> QED  BY ONLY <2>6, <3>1, WholesMore
  <2>8. fragOffset = 0 => ps = Wholes(frames, Last, n)
    <3>1. n - 1 = used
      BY <1>4, <2>6
    <3>2. fragOffset = 0 => p = Piece(Last, 0, frames[Last])
      BY <1>4, <1>5, <2>1
    <3> QED  BY <1>7, <1>8, <1>11, <2>7, <3>1, <3>2
  <2>9. Completed(part, ps) = Wholes(frames, Last, n)
    <3>1. CASE fragOffset = 0
      <4>1. part = << >>
        BY <1>5, <3>1, PieceNone
      <4>2. Len(ps) > 0
        BY <1>4, <1>11
      <4> QED  BY <2>8, <3>1, <4>1, <4>2, CompletedIs
    <3>2. CASE fragOffset # 0
      <4>1. used = 0
        BY <1>4, <1>6, <3>2
      <4>2. n - 1 = 0 /\ Wholes(frames, Last - 1, 0) = << >>
        BY <2>6, <4>1 DEF Wholes
      <4> DEFINE q == Piece(Last, 0, frames[Last])
      <4>3. Wholes(frames, Last, n) = <<q>>
        <5> HIDE DEF q
        <5>1. Append(<< >>, q) = <<q>>
          OBVIOUS
        <5>2. Append(Wholes(frames, Last - 1, n - 1), q) = Wholes(frames, Last, n)
          BY <2>7 DEF q
        <5> QED  BY <4>2, <5>1, <5>2
      <4>4. Completed(part, <<p>>) = <<q>>
        <5>1. fragOffset + k = frames[Last]
          BY <1>5, <2>1
        <5> QED  BY <1>4, <1>5, <5>1, CompletedOne
      <4> QED  BY <1>11, <4>1, <4>3, <4>4
    <3> QED  BY <3>1, <3>2
  <2> HIDE DEF p
  <2>10. LeftIs'
    BY <2>1 DEF LeftIs
  <2>11. FragmentIs'
    <3>1. step' # "send" => part' = Piece(Last', 0, fragOffset')
      BY <1>1, <1>5, <1>7, <2>1, <2>3
    <3> QED  BY <2>1, <3>1 DEF FragmentIs
  <2>12. Packed(buf', start', FRAMEHEADER', ps, off')
    BY <1>1, <1>3, <1>9, <1>11
  <2>13. used' = n /\ n <= Top' /\ n > 0
    BY <1>1, <1>4, <2>5, <2>6
  <2>14. BuildingIs'
    <3>1. SUFFICES ASSUME step' = "pack"
                   PROVE  /\ used' <= Top' /\ several' /\ ends' = TRUE
                          /\ fragOffset' = 0 /\ overSize' = 0
                          /\ Packed(buf', start', FRAMEHEADER',
                                    Wholes(frames', Top', used'), off')
      BY <1>1, <1>4, <2>3 DEF BuildingIs
    <3>2. several /\ fragOffset = 0
      BY <2>3, <3>1
    <3>3. Wholes(frames', Top', used') = ps
      BY <1>1, <2>5, <2>8, <2>13, <3>2
    <3> QED  BY <1>1, <2>1, <2>2, <2>12, <2>13, <3>2, <3>3
  <2>15. SendIs'
    <3>1. Completed(part', ps) = Wholes(frames', Top', used')
      BY <1>1, <2>5, <2>9, <2>13
    <3>2. Len(ps) = used' /\ used' <= Top' /\ used' > 0
      BY <1>11, <2>6, <2>13
    <3>3. off' \in Nat
      BY <1>1, <1>4
    <3> QED  BY <2>1, <2>2, <2>12, <3>1, <3>2, <3>3 DEF SendIs
  <2>16. StartIs'
    BY <1>1, <1>3, <2>3 DEF Contents, StartIs
  <2>17. WholeIs'
    BY <1>1, <2>5, WholeSame
  <2> QED  BY <1>12, <1>13, <2>10, <2>11, <2>14, <2>15, <2>16, <2>17 DEF Contents
<1> QED  BY <1>14, <1>15

LEMMA UseFrameContents ==
  ASSUME SinkInv, Contents, UseFrame PROVE Contents'
<1> USE HeaderAssumption, PacketAssumption
<1>1. /\ step = "use" /\ start \in Nat /\ off \in Nat /\ used \in Nat
      /\ size \in Nat /\ asked = FALSE /\ overSize = 0
  BY FrameAssumption
  DEF UseFrame, SinkInv, SinkTypeOK, BufferTypeOK, OverflowInv
<1>2. PICK h \in {0, 1} : h = FRAMEHEADER
  BY FrameHeaderSize
<1>3. /\ Last \in Nat /\ Last > 0 /\ size > 0 /\ fragOffset + size = frames[Last]
      /\ Lies(buf, start + off, Piece(Last, fragOffset, size))
  BY <1>1, LastIs DEF Contents, HandIs
<1>4. /\ used <= Top
      /\ used > 0 => several /\ ends = TRUE /\ fragOffset = 0
      /\ Packed(buf, start, h, Wholes(frames, Top, used), off - h)
  BY <1>1, <1>2 DEF Contents, BuildingIs
<1>5. used = 0 => off = HEADERS + h
  <2>1. SUFFICES ASSUME used = 0
                 PROVE  off = HEADERS + h
    OBVIOUS
  <2>2. Len(Wholes(frames, Top, used)) = 0
    <3>1. Wholes(frames, Top, 0) = << >>
      BY DEF Wholes
    <3> QED  BY <2>1, <3>1
  <2>3. off - h = HEADERS
    BY ONLY <1>4, <2>2, PackedNoneIs
  <2> QED  BY <1>1, <2>3
<1>6. CASE ~WouldOverflow(size) /\ UseUnits(size, 0)
  BY <1>1, <1>3, <1>6, UseUnitsContents
<1>7. CASE /\ WouldOverflow(size) /\ used = 0
           /\ UseUnits(MAX - off, off + size - MAX)
  <2>1. off + size > MAX /\ off <= HEADERS + 1
    BY <1>1, <1>2, <1>5, <1>7 DEF WouldOverflow
  <2>2. PICK k \in Nat : k = MAX - off
    BY <1>1, <2>1
  <2>3. PICK l \in Nat : l = off + size - MAX
    BY <1>1, <2>1
  <2>4. k > 0 /\ k + l = size /\ off + k = MAX
    BY <1>1, <2>1, <2>2, <2>3
  <2>5. UseUnits(k, l)
    BY <1>7, <2>2, <2>3
  <2> QED  BY <1>7, <2>4, <2>5, UseUnitsContents
<1>8. CASE /\ WouldOverflow(size) /\ ~(TooBigForAPacket /\ used = 0)
           /\ KeepForNextPacket
  <2>1. /\ overOffset' = off /\ overSize' = size /\ step' = "send"
        /\ buf' = buf /\ off' = off /\ used' = used
        /\ fragOffset' = fragOffset /\ ends' = ends
        /\ start' = start /\ several' = several /\ asked' = asked
        /\ noneLeft' = noneLeft /\ frames' = frames /\ pauses' = pauses
        /\ part' = part /\ whole' = whole
    BY <1>8 DEF UseFrame, KeepForNextPacket, streamVars
  <2>2. used > 0
    <3>1. ASSUME used = 0
          PROVE  FALSE
      <4>1. off = HEADERS + h /\ off + size > MAX
        BY <1>5, <1>8, <3>1 DEF WouldOverflow
      <4>2. TooBigForAPacket
        BY <1>1, <1>2, <4>1 DEF TooBigForAPacket
      <4> QED  BY <1>8, <3>1, <4>2
    <3> QED  BY <1>1, <3>1
  <2>3. several /\ ends = TRUE /\ fragOffset = 0
    BY <1>4, <2>2
  <2>4. /\ Kept = 0 /\ Hand = 1 /\ Kept' = 1 /\ Hand' = 0
        /\ InPacket = used /\ InPacket' = used /\ Last' = Last
    BY <1>1, <1>3, <2>1, <2>3 DEF Kept, Hand, InPacket, Last
  <2>5. Top' = Top /\ Done' = Done /\ Top = Last - 1
    <3>1. Top' = Top /\ Top = Last - 1
      BY <1>3, <2>4 DEF Top
    <3> QED  BY <2>4, <3>1 DEF Done
  <2>6. part = << >>
    BY <1>1, <1>3, <2>3, PieceNone DEF Contents, FragmentIs
  <2>7. PICK ws \in Seq(Seq(Unit)) :
          ws = Wholes(frames, Top, used) /\ Len(ws) = used
    <3>1. frames \in Seq(Nat)
      BY DEF SinkInv, SinkTypeOK
    <3>2. Top \in 0..Len(frames) /\ used \in 0..Top
      BY <1>1, <1>3, <1>4, <2>5 DEF Last
    <3> QED  BY <3>1, <3>2, WholesIs
  <2>8. PICK end \in Nat : end = off - h /\ off = end + h
    <3>1. off \in (HEADERS + h)..MAX
      BY <1>1, <1>2 DEF SinkInv, PacketInv
    <3> QED  BY <1>1, <3>1
  <2>9. FRAMEHEADER' = h
    BY <1>2, <2>1 DEF FRAMEHEADER
  <2>10. UnitsOK' /\ HandIs' /\ BuildingIs' /\ EndIs'
    BY <1>1, <2>1 DEF Contents, UnitsOK, HandIs, BuildingIs, EndIs
  <2>11. LeftIs'
    BY <1>3, <2>1, <2>4 DEF LeftIs
  <2>12. FragmentIs' /\ StartIs'
    BY <1>2, <2>1, <2>9 DEF Contents, FragmentIs, StartIs
  <2>13. SendIs'
    <3>1. Completed(part', ws) = Wholes(frames', Top', used')
      BY <2>1, <2>2, <2>5, <2>6, <2>7, CompletedIs
    <3>2. Packed(buf', start', FRAMEHEADER', ws, end)
      BY <1>4, <2>1, <2>7, <2>8, <2>9
    <3>3. /\ Len(ws) = used' /\ used' <= Top' /\ used' > 0
          /\ off' = end + FRAMEHEADER' /\ ends' = TRUE /\ fragOffset' = 0
      BY <1>4, <2>1, <2>2, <2>3, <2>5, <2>7, <2>8, <2>9
    <3> QED  BY <3>1, <3>2, <3>3 DEF SendIs
  <2>14. WholeIs'
    BY <2>1, <2>5, WholeSame
  <2> QED  BY <2>10, <2>11, <2>12, <2>13, <2>14 DEF Contents
<1> QED  BY <1>6, <1>7, <1>8 DEF UseFrame

\* What the receiver finds in the packet that is sent.
LEMMA PacketEncloses ==
  ASSUME SinkInv, Contents, NEW ps \in Seq(Seq(Unit)), NEW end \in Nat,
         Len(ps) > 0, Packed(buf, start, FRAMEHEADER, ps, end),
         off = end \/ off = end + FRAMEHEADER
  PROVE  Enclosed = ps
<1> USE HeaderAssumption
<1>1. BufferTypeOK /\ buf \in [0..(LIMIT - 1) -> Unit]
  BY DEF SinkInv, SinkTypeOK, Contents, UnitsOK
<1>2. CASE several
  <2>1. FRAMEHEADER = 1
    BY <1>2 DEF FRAMEHEADER
  <2>2. Packed(buf, start, 1, ps, end) /\ (off = end \/ off = end + 1)
    BY <2>1
  <2>3. EnclosedFrames(Units(HEADERS, off)) = ps
    BY <1>1, <2>2, EnclosedIs
  <2> QED  BY <1>2, <2>3 DEF Enclosed
<1>3. CASE ~several
  <2>1. FRAMEHEADER = 0
    BY <1>3 DEF FRAMEHEADER
  <2>2. off = end
    BY <2>1
  <2>3. Len(ps) = 1
    <3>1. PICK l \in Nat : l = Len(ps)
      BY LenProperties
    <3>2. l <= 1 /\ l > 0
      BY <2>1, <3>1 DEF Packed
    <3> QED  BY <3>1, <3>2
  <2>4. PICK c : Cuts(c, buf, start, 0, ps, end)
    BY <2>1 DEF Packed
  <2>5. c[0] = HEADERS /\ c[1] = end
    BY <2>3, <2>4 DEF Cuts
  <2>6. /\ c[1] = (c[1 - 1] + 0) + Len(ps[1])
        /\ Framed(buf, start + c[1 - 1], 0, ps[1])
    <3>1. 1 \in 1..Len(ps)
      BY <2>3
    <3> QED  BY <2>4, <3>1 DEF Cuts
  <2> DEFINE p == ps[1]
             U == Units(HEADERS, off)
  <2>7. p \in Seq(Unit)
    BY <2>3, ElementOfSeq
  <2>8. PICK n \in Nat : n = Len(p)
    BY <2>7, LenProperties
  <2> HIDE DEF p
  <2>9. start \in Nat /\ off \in Nat /\ start + off <= LIMIT
    BY <1>1 DEF BufferTypeOK
  <2>10. off = HEADERS + n /\ Lies(buf, start + HEADERS, p)
    <3>1. 1 - 1 = 0 /\ HEADERS + 0 = HEADERS
      OBVIOUS
    <3>2. end = HEADERS + Len(p) /\ Framed(buf, start + HEADERS, 0, p)
      BY <2>5, <2>6, <3>1 DEF p
    <3>3. (start + HEADERS) + 0 = start + HEADERS
      BY <2>9
    <3> QED  BY <2>2, <2>8, <3>2, <3>3 DEF Framed
  <2>11. /\ U \in Seq(Unit) /\ Len(U) = off - HEADERS
         /\ \A i \in 1..(off - HEADERS) :
              U[i] = buf[((start + HEADERS) + i) - 1]
    <3>1. HEADERS \in Nat /\ HEADERS <= off
      BY <2>10
    <3> QED  BY ONLY <1>1, <2>9, <3>1, UnitsIs
  <2> HIDE DEF U
  <2>12. U = p
    <3>1. off - HEADERS = n
      BY <2>10
    <3>2. Len(U) = Len(p) /\ \A i \in 1..Len(U) : U[i] = p[i]
      BY <2>8, <2>10, <2>11, <3>1 DEF Lies
    <3> QED  BY ONLY <2>7, <2>11, <3>2, SeqEqual
  <2>13. <<p>> = ps
    <3>1. <<p>> \in Seq(Seq(Unit)) /\ Len(<<p>>) = 1 /\ <<p>>[1] = p
      BY <2>7
    <3>2. Len(<<p>>) = Len(ps) /\ \A i \in 1..Len(<<p>>) : <<p>>[i] = ps[i]
      BY <2>3, <3>1 DEF p
    <3>3. ps \in Seq(Seq(Unit))
      OBVIOUS
    <3> QED  BY ONLY <3>1, <3>2, <3>3, SeqEqual
  <2> QED  BY <1>3, <2>12, <2>13 DEF Enclosed, U
<1> QED  BY <1>2, <1>3

LEMMA SendContents ==
  ASSUME SinkInv, Contents, SendPacket PROVE Contents'
<1> USE HeaderAssumption, PacketAssumption
<1>1. /\ step = "send" /\ off' = 0 /\ used' = 0 /\ step' = "none"
      /\ buf' = buf /\ overSize' = overSize /\ several' = several
      /\ asked' = asked /\ fragOffset' = fragOffset
      /\ noneLeft' = noneLeft /\ ends' = ends
      /\ frames' = frames /\ pauses' = pauses
  BY DEF SendPacket
<1>2. PICK h \in {0, 1} : h = FRAMEHEADER /\ FRAMEHEADER' = h
  BY <1>1, FrameHeaderSize DEF FRAMEHEADER
<1>3. /\ start \in Nat /\ off \in Nat /\ overOffset \in Nat /\ overSize \in Nat
      /\ used \in Nat /\ fragOffset \in Nat /\ asked = FALSE
  BY <1>1, FrameAssumption DEF SinkInv, SinkTypeOK, BufferTypeOK
<1>4. /\ overSize > 0 => start' + overOffset' = start + overOffset
      /\ start' = 0 \/ start' + HEADERS + h < LIMIT - LIMIT \div 2
      /\ overSize = 0 => start' = 0
  <2>1. CASE overSize > 0 /\ BytesAvailable > LIMIT \div 2
    <3>1. /\ start' = start + off - (HEADERS + h)
          /\ overOffset' = overOffset - (off - (HEADERS + h))
      BY <1>2, <2>1 DEF SendPacket, NextPacketStart
    <3>2. PICK hl \in Nat : hl = LIMIT \div 2
      OBVIOUS
    <3>3. LIMIT - (start + off) > hl
      BY <2>1, <3>2 DEF BytesAvailable
    <3>4. start' + HEADERS + h < LIMIT - hl
      BY <1>3, <3>1, <3>3
    <3> QED  BY <1>3, <2>1, <3>1, <3>2, <3>4
  <2>2. CASE ~(overSize > 0 /\ BytesAvailable > LIMIT \div 2)
    <3>1. /\ start' = 0
          /\ overOffset' = IF overSize > 0 THEN overOffset + start ELSE overOffset
      BY <2>2 DEF SendPacket, NextPacketStart
    <3> QED  BY <1>3, <3>1
  <2> QED  BY <2>1, <2>2
<1>5. Last \in Nat /\ Last' = Last /\ Hand = 0 /\ Hand' = 0 /\ InPacket = used
      /\ InPacket' = 0
  BY <1>1, <1>3, LastIs DEF Last, Hand, InPacket
<1>6. used <= Top /\ (used = 0 => part = << >> /\ overSize = 0 /\ fragOffset = 0)
  BY <1>1 DEF Contents, SendIs
<1>7. LeftIs'
  <2>1. SUFFICES ASSUME overSize > 0
                 PROVE  /\ Last > 0 /\ fragOffset + overSize = frames[Last]
                        /\ Lies(buf, start' + overOffset',
                                Piece(Last, fragOffset, overSize))
    BY <1>1, <1>5 DEF LeftIs
  <2> QED  BY <1>4, <2>1 DEF Contents, LeftIs
<1>8. HandIs' /\ BuildingIs' /\ SendIs'
  BY <1>1, <1>3 DEF HandIs, BuildingIs, SendIs
<1>9. StartIs'
  BY <1>1, <1>2, <1>4 DEF StartIs
<1>10. EndIs'
  BY <1>1, <1>3, <1>5 DEF Contents, EndIs
<1>11. /\ buf' \in [0..(LIMIT - 1) -> Unit] /\ frames' \in Seq(Sizes)
       /\ part \in Seq(Unit) /\ whole \in Seq(Seq(Unit))
       /\ frames \in Seq(Sizes)
  BY <1>1 DEF Contents, UnitsOK
<1>12. Ordered(whole, frames, Done) /\ (pauses = 0 => AllOf(whole, frames, Done))
  BY DEF Contents, WholeIs
<1>13. CASE used = 0
  <2>1. part' = part /\ whole' = whole /\ part = << >> /\ overSize = 0 /\ fragOffset = 0
    BY <1>3, <1>6, <1>13 DEF SendPacket
  <2>2. Kept = 0 /\ Kept' = 0
    BY <1>1, <2>1 DEF Kept
  <2>3. Done' = Done
    BY <1>5, <1>13, <2>2 DEF Done, Top
  <2>4. FragmentIs'
    BY <1>1, <1>5, <2>1, PieceNone DEF FragmentIs
  <2>5. WholeIs'
    BY <1>1, <2>1, <2>3, WholeSame
  <2>6. UnitsOK'
    BY <1>11, <2>1 DEF UnitsOK
  <2> QED  BY <1>7, <1>8, <1>9, <1>10, <2>4, <2>5, <2>6 DEF Contents
<1>14. CASE used # 0
  <2>1. PICK ps \in Seq(Seq(Unit)), end \in Nat :
           /\ Len(ps) = used /\ Packed(buf, start, FRAMEHEADER, ps, end)
           /\ off = end \/ off = end + FRAMEHEADER
           /\ \/ /\ ends = TRUE /\ fragOffset = 0
                 /\ Completed(part, ps) = Wholes(frames, Top, used)
              \/ /\ ends = FALSE /\ used = 1 /\ overSize > 0
                 /\ part \o ps[1] = Piece(Last, 0, fragOffset)
    BY <1>1, <1>3, <1>14 DEF Contents, SendIs
  <2>2. Len(ps) > 0
    BY <1>3, <1>14, <2>1
  <2>3. Enclosed = ps
    BY <2>1, <2>2, PacketEncloses
  <2>4. Assemble
    BY <1>3, <1>14 DEF SendPacket
  <2>5. CASE /\ ends = TRUE /\ fragOffset = 0
             /\ Completed(part, ps) = Wholes(frames, Top, used)
    <3> DEFINE ws == Wholes(frames, Top, used)
    <3>1. whole' = whole \o ws /\ part' = << >>
      BY <2>3, <2>4, <2>5 DEF Assemble
    <3>2. Kept' = Kept
      BY <1>1, <2>5 DEF Kept
    <3>3. Top' = Top /\ Done' = Top /\ Done = Top - used
      <4>1. Kept \in {0, 1}
        BY DEF Kept
      <4>2. Top' = Top /\ Top \in Int
        BY <1>5, <3>2, <4>1 DEF Top
      <4> QED  BY <1>5, <4>2 DEF Done
    <3>4. FragmentIs'
      BY <1>1, <1>5, <2>5, <3>1, PieceNone DEF FragmentIs
    <3>5. /\ whole \o ws \in Seq(Seq(Unit))
          /\ Ordered(whole \o ws, frames, Top)
          /\ AllOf(whole, frames, Done) => AllOf(whole \o ws, frames, Top)
      <4>1. Top \in 0..Len(frames) /\ used \in 0..Top /\ Done \in Nat
        <5>1. Done \in Nat /\ Top <= Last /\ Top \in Int
          BY <1>5, LastIs DEF Top, Kept
        <5> QED  BY <1>3, <1>6, <5>1 DEF Last
      <4> QED  BY ONLY <1>11, <1>12, <3>3, <4>1, MoreFrames
    <3> HIDE DEF ws
    <3>6. UnitsOK'
      <4>1. << >> \in Seq(Unit)
        OBVIOUS
      <4> QED  BY <1>11, <3>1, <3>5, <4>1 DEF UnitsOK
    <3>7. WholeIs'
      BY <1>1, <1>12, <3>1, <3>3, <3>5 DEF WholeIs
    <3> QED  BY <1>7, <1>8, <1>9, <1>10, <3>4, <3>6, <3>7 DEF Contents
  <2>6. CASE /\ ends = FALSE /\ used = 1 /\ overSize > 0
             /\ part \o ps[1] = Piece(Last, 0, fragOffset)
    <3>1. whole' = whole /\ part' = Piece(Last, 0, fragOffset)
      BY <2>3, <2>4, <2>6 DEF Assemble
    <3>2. Kept = 0 /\ Kept' = 1
      BY <1>1, <2>6 DEF Kept
    <3>3. Done' = Done
      BY <1>5, <2>6, <3>2 DEF Done, Top
    <3>4. FragmentIs'
      BY <1>1, <1>3, <1>5, <2>6, <3>1 DEF FragmentIs
    <3>5. UnitsOK'
      <4>1. Piece(Last, 0, fragOffset) \in Seq(Unit)
        BY <1>3, <1>5, PieceIs
      <4> QED  BY <1>11, <3>1, <4>1 DEF UnitsOK
    <3>6. WholeIs'
      BY <1>1, <3>1, <3>3, WholeSame
    <3> QED  BY <1>7, <1>8, <1>9, <1>10, <3>4, <3>5, <3>6 DEF Contents
  <2> QED  BY <2>1, <2>5, <2>6
<1> QED  BY <1>13, <1>14

-----------------------------------------------------------------------------
\* Every step keeps what memory and receiver hold.

LEMMA ContentsSame ==
  ASSUME Contents, UNCHANGED sinkAndBuffer PROVE Contents'
<1>1. /\ buf' = buf /\ start' = start /\ off' = off
      /\ overOffset' = overOffset /\ overSize' = overSize
      /\ several' = several /\ asked' = asked /\ step' = step
      /\ size' = size /\ used' = used /\ fragOffset' = fragOffset
      /\ noneLeft' = noneLeft /\ ends' = ends
      /\ frames' = frames /\ part' = part /\ whole' = whole
      /\ pauses' = pauses
  BY DEF sinkAndBuffer, bufferVars, sinkVars, packVars, streamVars
<1>2. /\ Last' = Last /\ Top' = Top /\ Done' = Done
      /\ FRAMEHEADER' = FRAMEHEADER
  BY <1>1, Zenon DEF Last, Kept, Hand, Top, InPacket, Done, FRAMEHEADER
<1>3. UnitsOK' /\ LeftIs' /\ HandIs' /\ FragmentIs'
  BY <1>1, <1>2, Zenon DEF Contents, UnitsOK, LeftIs, HandIs, FragmentIs
<1>4. BuildingIs'
  BY <1>1, <1>2, Zenon DEF Contents, BuildingIs
<1>5. SendIs'
  BY <1>1, <1>2, Zenon DEF Contents, SendIs
<1>6. StartIs' /\ EndIs' /\ WholeIs'
  BY <1>1, <1>2, Zenon DEF Contents, StartIs, EndIs, WholeIs
<1> QED  BY <1>3, <1>4, <1>5, <1>6 DEF Contents

\* Nothing is claimed of what follows a PAUSE in the middle of a frame, nor of
\* frames that the memory cannot hold.
ContentsInv == Room /\ ~cut => Contents

LEMMA ContentsInit ==
  ASSUME Init PROVE ContentsInv
<1>1. SinkInit
  BY DEF Init
<1> QED  BY <1>1, InitContents DEF ContentsInv

LEMMA ContentsNext ==
  ASSUME IInv, IInv', ContentsInv, [Next]_vars PROVE ContentsInv'
<1>1. SUFFICES ASSUME Room', ~cut' PROVE Contents'
  BY DEF ContentsInv
<1>2. SinkInv /\ SinkInv'
  BY PartsOfInv
<1>3. CASE UNCHANGED sinkAndBuffer
  <2>1. several' = several /\ cut' = cut
    BY <1>3 DEF sinkAndBuffer, sinkVars, streamVars
  <2>2. Contents
    BY <1>1, <2>1 DEF ContentsInv, Room
  <2> QED  BY <1>3, <2>2, ContentsSame
<1>4. CASE SinkStep \/ Play \/ Pause \/ Send
  <2>1. several' = several
    BY <1>4 DEF SinkStep, Play, Pause, Send, StartPlaying, StopPlaying,
                SendNext, BuildPacket, PackFrame, AfterGettingFrame,
                OurHandleClosure, UseFrame, SendPacket
  <2>2. cut' = cut \/ StopPlaying
    BY <1>4 DEF SinkStep, Play, Pause, Send, StartPlaying,
                SendNext, BuildPacket, PackFrame, AfterGettingFrame,
                OurHandleClosure, UseFrame, SendPacket, streamVars
  <2>3. ~cut
    BY <1>1, <2>2 DEF StopPlaying
  <2>4. Room /\ Contents
    BY <1>1, <2>1, <2>3 DEF ContentsInv, Room
  <2>5. CASE SinkStep
    BY <1>2, <2>4, <2>5, BuildContents, PackFrameContents, GotFrameContents,
       ClosureContents, UseFrameContents
    DEF SinkStep
  <2>6. CASE Play
    BY <1>2, <2>4, <2>6, BuildContents DEF Play
  <2>7. CASE Pause
    BY <1>1, <1>2, <2>4, <2>7, StopContents DEF Pause
  <2>8. CASE Send
    BY <1>2, <2>4, <2>8, SendContents DEF Send
  <2> QED  BY <1>4, <2>5, <2>6, <2>7, <2>8
<1>5. CASE NetworkStep \/ SendReport \/ UNCHANGED vars
  <2>1. UNCHANGED sinkAndBuffer
    BY <1>5 DEF NetworkStep, Receive, Lose, SendReport, vars
  <2> QED  BY <1>3, <2>1
<1> QED  BY <1>4, <1>5 DEF Next

\* What the receiver has is what the source gave.
LEMMA ContentsArrive ==
  ASSUME SinkInv, Contents PROVE FramesArrive
<1>1. Last \in Nat /\ Done \in 0..Last
  BY LastIs
<1>2. frames \in Seq(Sizes) /\ whole \in Seq(Seq(Unit))
  BY DEF Contents, UnitsOK
<1>3. \A n \in 1..Last : WholeFrame(n) = Piece(n, 0, frames[n])
  <2>1. SUFFICES ASSUME NEW n \in 1..Last
                 PROVE  WholeFrame(n) = Piece(n, 0, frames[n])
    OBVIOUS
  <2>2. n \in Int /\ n \in 1..Len(frames)
    BY <1>1 DEF Last
  <2>3. frames[n] \in Sizes
    BY ONLY <1>2, <2>2
  <2>4. Sizes \subseteq Int
    BY FrameAssumption
  <2>5. frames[n] \in Int
    BY ONLY <2>3, <2>4
  <2> QED  BY <2>2, <2>5, WholeFrameIs
<1>4. /\ Ordered(whole, frames, Done)
      /\ pauses = 0 => AllOf(whole, frames, Done)
  BY DEF Contents, WholeIs
<1>5. ASSUME NEW j \in 1..Len(whole)
      PROVE  \E n \in 1..Len(frames) :
               /\ whole[j] = WholeFrame(n)
               /\ \A l \in 1..(j - 1) : whole[l][1][1] < n
  <2>1. PICK n \in 1..Done : /\ whole[j] = Piece(n, 0, frames[n])
                             /\ \A l \in 1..(j - 1) : whole[l][1][1] < n
    BY <1>4 DEF Ordered
  <2>2. n \in 1..Last
    BY <1>1
  <2>3. whole[j] = WholeFrame(n)
    BY <1>3, <2>1, <2>2
  <2> QED  BY <2>1, <2>2, <2>3 DEF Last
<1>6. ASSUME pauses = 0
      PROVE  /\ \A j \in 1..Len(whole) : whole[j] = WholeFrame(j)
             /\ noneLeft /\ step = "none" => Len(whole) = MaxFrames
  <2>1. Len(whole) = Done /\ \A j \in 1..Done : whole[j] = Piece(j, 0, frames[j])
    BY <1>4, <1>6 DEF AllOf
  <2>2. \A j \in 1..Len(whole) : whole[j] = WholeFrame(j)
    <3>1. SUFFICES ASSUME NEW j \in 1..Len(whole)
                   PROVE  whole[j] = WholeFrame(j)
      OBVIOUS
    <3>2. j \in 1..Done /\ j \in 1..Last
      BY <1>1, <2>1
    <3> QED  BY <1>3, <2>1, <3>2
  <2>3. ASSUME noneLeft, step = "none" PROVE Len(whole) = MaxFrames
    <3>1. Last = MaxFrames /\ overSize = 0 /\ ~asked
      BY <2>3 DEF Contents, EndIs
    <3>2. Kept = 0 /\ Hand = 0 /\ InPacket = 0
      BY <2>3, <3>1 DEF Kept, Hand, InPacket
    <3>3. Done = Last
      BY <1>1, <3>2 DEF Done, Top
    <3> QED  BY <2>1, <3>1, <3>3
  <2> QED  BY <2>2, <2>3
<1> QED  BY <1>5, <1>6 DEF FramesArrive

\* A receiver that misses no packet gets the frames of the source whole, in
\* order and once, and without a PAUSE all of them, however they are packed,
\* cut into fragments and moved about in the sink's memory
\* (MultiFramedRTPSink::afterGettingFrame1, OutPacketBuffer).  When packets
\* take several frames (VorbisAudioRTPSink), Room is needed: a frame has to
\* fit into the half of the memory that a packet begun behind overflow data
\* may leave.  Excepted is what follows a PAUSE in the middle of a fragmented
\* frame (cut).
THEOREM FramesComeWhole == Spec => [](Room => FramesArrive)
<1>1. Init => ContentsInv
  BY ContentsInit
<1>2. IInv /\ IInv' /\ ContentsInv /\ [Next]_vars => ContentsInv'
  BY ContentsNext
<1>3. IInv /\ ContentsInv => (Room => FramesArrive)
  <2>1. SUFFICES ASSUME IInv, ContentsInv, Room PROVE FramesArrive
    OBVIOUS
  <2>2. CASE cut
    BY <2>2 DEF FramesArrive
  <2>3. CASE ~cut
    BY <2>1, <2>3, PartsOfInv, ContentsArrive DEF ContentsInv
  <2> QED  BY <2>2, <2>3
<1> QED  BY <1>1, <1>2, <1>3, AlwaysInv, PTL DEF Spec
=============================================================================
