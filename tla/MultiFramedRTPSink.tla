-------------------------- MODULE MultiFramedRTPSink --------------------------
(***************************************************************************)
(* A sink that packs the frames of a track into RTP packets                *)
(* (MultiFramedRTPSink, with VP8VideoRTPSink or VorbisAudioRTPSink).       *)
(*                                                                         *)
(* A packet is built while the sink asks its source for one frame after    *)
(* another; frames that are too big are cut into fragments.  Between two   *)
(* packets the sink waits for a delayed task, and at any time at which it  *)
(* waits PAUSE may stop it.  step is what the sink does without waiting.   *)
(***************************************************************************)
EXTENDS OutPacketBuffer

CONSTANTS
  HEADERS,     \* the size of the RTP header and the special header
  FrameLimit,  \* how many frames may be in a packet before one is added
  Sizes,       \* the sizes of frames
  MaxFrames,   \* how many frames the source has
  MaxPauses

ASSUME HeaderAssumption == HEADERS \in Nat /\ HEADERS + 1 < MAX
ASSUME FrameAssumption ==
  /\ FrameLimit \in Nat /\ Sizes \subseteq Nat \ {0} /\ Sizes # {}
  /\ \A s \in Sizes: s + HEADERS + 1 <= LIMIT
  /\ MaxFrames \in Nat /\ MaxPauses \in Nat

VARIABLES
  several,     \* Vorbis: several frames in a packet, each with its header
  playing,     \* fSource # NULL
  due,         \* nextTask(): sendNext has been scheduled
  asked,       \* the source has been asked for a frame
  step,        \* what the sink is about to do
  size,        \* the size of the frame that afterGettingFrame1 looks at
  used,        \* fNumFramesUsedSoFar
  fragOffset,  \* fCurFragmentationOffset
  noneLeft,    \* fNoFramesLeft
  begins,      \* the S bit, or F <= 1: the packet begins a frame
  ends,        \* the M bit, or F = 0 or 3: it completes one
  seqNo,       \* how often fSeqNo has been counted up
  frames,      \* the sizes of the frames read from the source
  part,        \* what a receiver that misses nothing has of a frame
  whole,       \* the frames that it has whole
  cut,         \* a fragmented frame has been given up by PAUSE
  pauses

packVars == <<size, used, fragOffset, noneLeft, begins, ends>>
sinkVars == <<several, playing, due, asked, step, packVars, seqNo>>
streamVars == <<frames, part, whole, cut, pauses>>
sinkAndBuffer == <<bufferVars, sinkVars, streamVars>>

FRAMEHEADER == IF several THEN 1 ELSE 0

SinkTypeOK ==
  /\ BufferTypeOK
  /\ several \in BOOLEAN /\ playing \in BOOLEAN
  /\ due \in BOOLEAN /\ asked \in BOOLEAN
  /\ ~(due /\ asked) /\ (due \/ asked => playing /\ step = "none")
  /\ step \in {"none", "pack", "use", "send"}
  /\ size \in Nat /\ used \in 0..(FrameLimit + 1) /\ fragOffset \in Nat
  /\ noneLeft \in BOOLEAN
  /\ begins \in BOOLEAN /\ ends \in BOOLEAN /\ seqNo \in Nat
  /\ frames \in Seq(Nat) /\ pauses \in 0..MaxPauses /\ cut \in BOOLEAN
  /\ step = "send" => off <= MAX

SinkInit ==
  /\ BufferInit
  /\ several \in BOOLEAN /\ playing = FALSE
  /\ due = FALSE /\ asked = FALSE /\ step = "none"
  /\ size = 0 /\ used = 0 /\ fragOffset = 0
  /\ noneLeft = FALSE /\ begins = FALSE /\ ends = FALSE
  /\ seqNo = 0
  /\ frames = <<>> /\ part = <<>> /\ whole = <<>> /\ cut = FALSE
  /\ pauses = 0

\* buildAndSendPacket(): the headers of the packet.
BuildPacket ==
  /\ buf' = Written(off, [i \in 1..HEADERS |-> Header])
  /\ off' = off + HEADERS
  /\ noneLeft' = FALSE /\ used' = 0
  /\ begins' = FALSE /\ ends' = FALSE
  /\ step' = "pack"
  /\ UNCHANGED <<start, overOffset, overSize, several, asked>>
  /\ UNCHANGED <<size, fragOffset, seqNo, streamVars>>

\* startPlaying()
StartPlaying ==
  /\ ~playing /\ step = "none"
  /\ playing' = TRUE
  /\ UNCHANGED due
  /\ BuildPacket

\* sendNext(), the delayed task
SendNext ==
  /\ due
  /\ due' = FALSE
  /\ UNCHANGED playing
  /\ BuildPacket

\* Mutant: what is left of the last packet is kept.
StopInPlace ==
  /\ playing /\ step = "none" /\ pauses < MaxPauses
  /\ pauses' = pauses + 1
  /\ playing' = FALSE /\ due' = FALSE /\ asked' = FALSE
  /\ overOffset' = 0 /\ overSize' = 0
  /\ cut' = (cut \/ fragOffset > 0)
  /\ UNCHANGED <<buf, start, off, several, step, packVars, seqNo>>
  /\ UNCHANGED <<frames, part, whole>>

\* stopPlaying(): the packet that is being built and the overflow data are
\* dropped, fCurFragmentationOffset stays.
StopPlaying ==
  /\ playing /\ step = "none" /\ pauses < MaxPauses
  /\ pauses' = pauses + 1
  /\ playing' = FALSE /\ due' = FALSE /\ asked' = FALSE
  /\ start' = 0 /\ off' = 0 /\ overOffset' = 0 /\ overSize' = 0
  /\ cut' = (cut \/ fragOffset > 0)
  /\ UNCHANGED <<buf, several, step, packVars, seqNo, frames, part, whole>>

\* packFrame(): room for the frame's header; then the frame left over from
\* the last packet, or a new one of the source.
PackFrame ==
  /\ step = "pack"
  /\ LET at == off + FRAMEHEADER
     IN  /\ off' = at
         /\ IF overSize > 0
            THEN /\ buf' = Moved(at)
                 /\ size' = overSize
                 /\ overOffset' = 0 /\ overSize' = 0
                 /\ step' = "use"
                 /\ UNCHANGED asked
            ELSE /\ asked' = TRUE
                 /\ step' = "none"
                 /\ UNCHANGED <<buf, size, overOffset, overSize>>
  /\ UNCHANGED <<start, several, playing, due, used, fragOffset>>
  /\ UNCHANGED <<noneLeft, begins, ends, seqNo, streamVars>>

\* afterGettingFrame(): as much of a frame as the memory has room for.
AfterGettingFrame ==
  /\ asked /\ Len(frames) < MaxFrames
  /\ \E n \in Sizes:
       LET got == IF n < BytesAvailable THEN n ELSE BytesAvailable
       IN  /\ frames' = Append(frames, n)
           /\ size' = got
           /\ buf' = Written(off, [i \in 1..got |-> Data(Len(frames) + 1, i)])
  /\ asked' = FALSE
  /\ step' = "use"
  /\ UNCHANGED <<start, off, overOffset, overSize, several, playing, due, used>>
  /\ UNCHANGED <<fragOffset, noneLeft, begins, ends, seqNo>>
  /\ UNCHANGED <<part, whole, cut, pauses>>

\* ourHandleClosure()
OurHandleClosure ==
  /\ asked /\ Len(frames) = MaxFrames
  /\ asked' = FALSE
  /\ noneLeft' = TRUE
  /\ step' = "send"
  /\ UNCHANGED <<bufferVars, several, playing, due, size, used, fragOffset>>
  /\ UNCHANGED <<begins, ends, seqNo, streamVars>>

\* Mutant: a frame's own header is not counted.
TooBigWithoutHeader == size + HEADERS > MAX

TooBigForAPacket == size + HEADERS + FRAMEHEADER > MAX

CanAppearAfterStart(k) == several /\ k <= FrameLimit

\* doSpecialFrameHandling(): the packet's marks are those of the last frame
\* in it; a frame's header says how much of it is here.
MarkPacket(k, left) ==
  /\ begins' = (fragOffset = 0)
  /\ ends' = (left = 0)
  /\ buf' = IF several THEN Written(off - 1, <<FrameHeader(k)>>) ELSE buf

\* The frame waits for the next packet, and this one is sent.
KeepForNextPacket ==
  /\ overOffset' = off /\ overSize' = size
  /\ step' = "send"
  /\ UNCHANGED <<buf, off, used, fragOffset, begins, ends>>

\* k units of the frame go into this packet, left of them do not.  Nothing
\* follows the last fragment of a frame (fPreviousFrameEndedFragmentation).
UseUnits(k, left) ==
  LET full == \/ IsPreferredSize(k)
              \/ WouldOverflow(k + k)
              \/ left = 0 /\ fragOffset > 0
              \/ ~CanAppearAfterStart(used + 1)
  IN  /\ MarkPacket(k, left)
      /\ off' = off + k
      /\ used' = used + 1
      /\ overOffset' = IF left > 0 THEN off + k ELSE overOffset
      /\ overSize' = IF left > 0 THEN left ELSE overSize
      /\ fragOffset' = IF left > 0 THEN fragOffset + k ELSE 0
      /\ step' = IF full THEN "send" ELSE "pack"

\* afterGettingFrame1().  Its first test, for a packet that takes no further
\* frame, comes too late to matter with these sinks: such a packet is sent as
\* soon as its last frame is in it (full).
UseFrame ==
  /\ step = "use"
  /\ \/ ~WouldOverflow(size) /\ UseUnits(size, 0)
     \/ /\ WouldOverflow(size)
        /\ IF TooBigForAPacket /\ used = 0
           THEN UseUnits(MAX - off, off + size - MAX)
           ELSE KeepForNextPacket
  /\ UNCHANGED <<start, several, playing, due, asked, size, noneLeft, seqNo>>
  /\ UNCHANGED streamVars

\* The size of the frame behind the header at place i of a packet; what is
\* left of the packet, if that is no header, or announces more.
EnclosedSize(units, i) ==
  LET left == Len(units) - i
  IN  IF units[i][1] = -1 /\ units[i][2] \in 0..left THEN units[i][2] ELSE left

\* Frames of no size are not delivered.
EnclosedFrame(units, i) ==
  LET n == EnclosedSize(units, i)
  IN  IF n = 0 THEN <<>> ELSE <<SubSeq(units, i + 1, i + n)>>

EnclosedFrames(units) ==
  LET From[i \in 1..(Len(units) + 1)] ==
        IF i > Len(units) THEN <<>>
        ELSE EnclosedFrame(units, i) \o From[i + 1 + EnclosedSize(units, i)]
  IN  From[1]

\* What a receiver finds in a packet: one frame, or as many as there are
\* headers.  The last header may have been meant for a frame that was kept for
\* the next packet; it heads nothing.
Enclosed ==
  LET units == Units(HEADERS, off)
  IN  IF several THEN EnclosedFrames(units) ELSE <<units>>

\* The frames of a packet that completes one: the first continues what has
\* begun.
Completed(begun, fs) == <<begun \o fs[1]>> \o SubSeq(fs, 2, Len(fs))

\* MultiFramedRTPSource::doGetNextFrame1 at a receiver that misses no packet.
Assemble ==
  IF ends
  THEN whole' = whole \o Completed(part, Enclosed) /\ part' = <<>>
  ELSE part' = part \o Enclosed[1] /\ UNCHANGED whole

\* sendPacketIfNecessary()
SendPacket ==
  /\ step = "send"
  /\ IF used > 0
     THEN seqNo' = seqNo + 1 /\ Assemble
     ELSE UNCHANGED <<seqNo, part, whole>>
  /\ NextPacketStart(HEADERS + FRAMEHEADER)
  /\ off' = 0 /\ used' = 0
  /\ step' = "none"
  /\ IF noneLeft THEN playing' = FALSE /\ UNCHANGED due
                 ELSE due' = TRUE /\ UNCHANGED playing
  /\ UNCHANGED <<buf, overSize, several, asked, size, fragOffset>>
  /\ UNCHANGED <<noneLeft, begins, ends, frames, cut, pauses>>
=============================================================================
