--------------------------- MODULE MatroskaDemux ---------------------------
(***************************************************************************)
(* One viewer's demultiplexor of a Matroska file (MatroskaDemux), the      *)
(* parser it owns (MatroskaFileParser) and the tracks read from it         *)
(* (MatroskaDemuxedTrack).                                                 *)
(*                                                                         *)
(* The tracks share one parser, so a frame whose track nobody is reading   *)
(* holds up every other track until that track is read.  continueParsing() *)
(* is taken apart into the steps of its state machine; while it runs       *)
(* (running) nothing else does.                                            *)
(***************************************************************************)
EXTENDS StreamParser

CONSTANTS
  Tracks,         \* the tracks of the file
  SetUps,         \* the sets of tracks that a viewer may set up
  SubframeTracks, \* those whose frames are made of subframes (H.264, H.265)
  MaxSize,        \* the size of the buffer that a reader brings
  ClusterOffset,  \* fClusterOffset, 0 when the file did not say
  Cues,           \* the positions of the clusters the cues name
  MisreadSizes,   \* the sizes that bytes out of place may seem to tell,
  MaxMisreads,    \*   and how often they are taken for something
  MaxPauses, MaxSeeks   \* how many PAUSEs, and PLAYs with a Range, there are

ASSUME SizeAssumption == MaxSize \in Nat \ {0}
ASSUME TrackAssumption ==
  SubframeTracks \subseteq Tracks /\ SetUps \subseteq (SUBSET Tracks) \ {{}}
ASSUME OffsetAssumption ==
  ClusterOffset \in 0..Len(File) /\ Cues \subseteq 1..Len(File)
ASSUME MisreadAssumption ==
  MisreadSizes \subseteq Nat /\ MaxMisreads \in Nat \ {0}
ASSUME LimitAssumption == MaxPauses \in Nat /\ MaxSeeks \in Nat

\* The units that head others: "id" is the header of a block of size units,
\* "head" what its first bytes say of its frames, "other" the header of size
\* units of no interest, "len" that of a subframe.  A "pad" is a zero
\* byte, as a Void element is filled with.
ASSUME FileUnitAssumption ==
  \A p \in Positions:
    LET u == File[p]
    IN  /\ u.kind \in {"id", "other"} => u.size \in Nat
        /\ u.kind = "head" => /\ u.track \in Tracks
                              /\ u.sizes \in Seq(Nat) /\ u.sizes # <<>>

VARIABLES
  known,     \* the file has cues, and so a duration: its end keeps the streams
  open,      \* fDemuxedTracksTable: the tracks that have been set up
  asking,    \* the tracks whose reader awaits a frame
  playing,   \* the readers: playing, paused, ended by the file, or closed
  pstate,    \* fCurrentParseState
  toSkip,    \* fNumHeaderBytesToSkip
  blockSize, \* fBlockSize
  block,     \* the block being delivered: its track and its frames' sizes
  nextFrame, \* fNextFrameNumberToDeliver
  within,    \* fCurOffsetWithinFrame
  getting,   \* the frame being copied: bytes got, still to get and to skip
  frame,     \* the last frame each track's reader was handed
  taken,     \* how many frames of each track have left the parser
  misreads,  \* how often the parser has taken bytes for what they are not
  pauses, seeks

demuxVars == <<known, open, asking, playing>>
parseVars == <<pstate, toSkip, blockSize, block, nextFrame, within, getting>>
frameVars == <<frame, taken>>
limitVars == <<pauses, seeks>>
vars == <<streamVars, demuxVars, parseVars, frameVars, limitVars,
          misreads>>

ParseStates == {"cluster", "block", "parsing", "delivering", "bytes"}
NoBlock == [track |-> 0, sizes |-> <<>>]
NoFrame == [got |-> <<>>, get |-> 0, skip |-> 0]

TypeOK ==
  /\ StreamTypeOK
  /\ known \in BOOLEAN /\ open \subseteq Tracks /\ asking \subseteq open
  /\ playing \in {"playing", "paused", "ended", "closed"}
  /\ pstate \in ParseStates /\ toSkip \in Nat /\ blockSize \in Nat
  /\ block \in [track : Tracks \cup {0}, sizes : Seq(Nat)]
  /\ nextFrame \in 0..Len(block.sizes)
  /\ pstate \in {"delivering", "bytes"} => nextFrame < Len(block.sizes)
  /\ within \in Nat
  /\ getting \in [got  : Seq(Positions \cup {Junk}), get : 0..MaxSize,
                  skip : Nat]
  /\ frame \in [Tracks -> Seq(Positions \cup {Junk})]
  /\ taken \in [Tracks -> Nat]
  /\ pauses \in 0..MaxPauses /\ seeks \in 0..MaxSeeks
  /\ misreads \in 0..MaxMisreads

Init ==
  /\ StreamInit
  /\ known \in BOOLEAN /\ open \in SetUps /\ asking = {}
  /\ playing = "playing"
  /\ pstate = "cluster" /\ toSkip = 0 /\ blockSize = 0
  /\ block = NoBlock /\ nextFrame = 0 /\ within = 0 /\ getting = NoFrame
  /\ frame = [t \in Tracks |-> <<>>] /\ taken = [t \in Tracks |-> 0]
  /\ pauses = 0 /\ seeks = 0 /\ misreads = 0

Idle == ~running /\ ~aborted
Parsing == running /\ ~aborted

\* MatroskaDemux::handleEndOfFile: every reader that has not stopped is told.
\* The streams of a file of unknown duration are torn down, and the
\* demultiplexor with them.
HandleEndOfFile ==
  /\ playing' = IF playing = "paused" THEN "paused" ELSE "ended"
  /\ asking' = {}
  /\ open' = IF playing # "paused" /\ ~known THEN {} ELSE open
  /\ UNCHANGED known

\* Not enough bytes at c: the parse is interrupted, or the file has ended.
Starve(c, n) ==
  /\ ReadMore(c, n)
  /\ IF feof /\ AtEnd THEN HandleEndOfFile ELSE UNCHANGED demuxVars
  /\ UNCHANGED <<parseVars, frameVars, limitVars>>

Least(a, b) == IF a < b THEN a ELSE b
Most(a, b) == IF a < b THEN b ELSE a

-----------------------------------------------------------------------------
\* The steps of parse().

\* skipRemainingHeaderBytes(): a bank at a time.  The position is saved
\* before each chunk and not after the last, which is parsed again if the
\* file ends there.
SkipRemainingHeaderBytes ==
  /\ Parsing /\ toSkip > 0 /\ UNCHANGED misreads
  /\ LET n == Least(toSkip, BANK_SIZE)
     IN  \/ /\ saved # cur
            /\ Save(0)
            /\ UNCHANGED <<demuxVars, parseVars, frameVars, limitVars, running>>
         \/ /\ saved = cur /\ ~Has(n)
            /\ Starve(cur, n)
         \/ /\ saved = cur /\ Has(n)
            /\ cur' = cur + n
            /\ toSkip' = toSkip - n
            /\ UNCHANGED <<bank, saved, seenEOF, sourceVars, running, aborted>>
            /\ UNCHANGED <<pstate, blockSize, block, nextFrame, within, getting>>
            /\ UNCHANGED <<demuxVars, frameVars, limitVars>>

LookForCluster ==
  /\ Parsing /\ toSkip = 0 /\ pstate = "cluster" /\ UNCHANGED misreads
  /\ IF ClusterOffset > 0 THEN SeekFile(ClusterOffset)
                          ELSE UNCHANGED <<bank, parserVars, sourceVars, aborted>>
  /\ pstate' = "block"
  /\ within' = 0
  /\ UNCHANGED <<toSkip, blockSize, block, nextFrame, getting>>
  /\ UNCHANGED <<running, demuxVars, frameVars, limitVars>>

\* An error in the data: go on from here, with nothing saved.
Recover(n) ==
  /\ cur' = cur + n
  /\ pstate' = "block"
  /\ UNCHANGED <<bank, saved, seenEOF, sourceVars, running, aborted>>
  /\ UNCHANGED <<demuxVars, toSkip, blockSize, block, nextFrame, within,
                 getting, frameVars, limitVars>>

\* The header of a block of n units,
FindBlock(n) ==
  /\ pstate' = "parsing" /\ blockSize' = n
  /\ Save(1)
  /\ UNCHANGED <<running, demuxVars, toSkip, block, nextFrame, within, getting>>
  /\ UNCHANGED <<frameVars, limitVars>>

\* or one of no interest, which is skipped with the n units it heads.
SkipHeader(n) ==
  /\ IF Has(1 + n) THEN Save(1 + n) /\ toSkip' = 0
                   ELSE Save(1) /\ toSkip' = n
  /\ UNCHANGED <<running, demuxVars, pstate, blockSize, block, nextFrame>>
  /\ UNCHANGED <<within, getting, frameVars, limitVars>>

\* Bytes out of place are decoded like any others.
Misread == misreads < MaxMisreads /\ misreads' = misreads + 1
NoMoreMisread == misreads = MaxMisreads /\ UNCHANGED misreads

\* They may seem to be no valid id and size, the header of a block, or another.
MisreadHeader ==
  \/ /\ Misread
     /\ Recover(1) \/ \E n \in MisreadSizes: FindBlock(n) \/ SkipHeader(n)
  \/ NoMoreMisread /\ SkipHeader(0)

\* lookForNextBlock(): zero bytes, which no id begins with, are passed over.
LookForNextBlock ==
  /\ Parsing /\ toSkip = 0 /\ pstate = "block"
  /\ \/ ~Has(1) /\ Starve(cur, 1) /\ UNCHANGED misreads
     \/ /\ Has(1)
        /\ LET u == UnitAhead(1)
           IN  \/ u.kind = "id" /\ FindBlock(u.size) /\ UNCHANGED misreads
               \/ u.kind = "other" /\ SkipHeader(u.size) /\ UNCHANGED misreads
               \/ u.kind = "pad" /\ SkipHeader(0) /\ UNCHANGED misreads
               \/ u.kind \notin {"id", "other", "pad"} /\ MisreadHeader

\* parseBlock() of a track nobody set up: what is left of the block after its
\* first bytes is skipped, in one piece.
SkipBlock ==
  LET n == Most(1, blockSize)
  IN  \/ /\ Has(n)
         /\ Save(n)
         /\ pstate' = "block"
         /\ UNCHANGED <<running, demuxVars, toSkip, blockSize, block, nextFrame,
                        within, getting, frameVars, limitVars>>
      \/ ~Has(n) /\ Starve(cur + 1, n - 1)

\* A block of track t has frames of these sizes.
EnterBlock(t, sizes) ==
  /\ pstate' = "delivering"
  /\ block' = [track |-> t, sizes |-> sizes]
  /\ nextFrame' = 0 /\ within' = 0
  /\ Save(1)
  /\ UNCHANGED <<toSkip, blockSize, getting>>
  /\ UNCHANGED <<running, demuxVars, frameVars, limitVars>>

\* The unit ahead is the head of the block that blockSize was read of.
HeadAhead ==
  /\ UnitAhead(1).kind = "head" /\ Ahead(1) > 1
  /\ LET id == File[Ahead(1) - 1] IN id.kind = "id" /\ id.size = blockSize

\* Other bytes may seem to be no valid number, that of a track nobody set up,
\* or the head of a block without lacing or with, where the sizes that it
\* tells may not even add up to blockSize.
MisreadHead ==
  \/ /\ Misread
     /\ \/ Recover(1)
        \/ SkipBlock
        \/ \E t \in open:
             \/ blockSize > 0 /\ EnterBlock(t, <<blockSize - 1>>)
             \/ \E m, n \in MisreadSizes: EnterBlock(t, <<m, n>>)
  \/ NoMoreMisread /\ Recover(1)

ParseBlock ==
  /\ Parsing /\ toSkip = 0 /\ pstate = "parsing"
  /\ \/ ~Has(1) /\ Starve(cur, 1) /\ UNCHANGED misreads
     \/ /\ Has(1) /\ HeadAhead /\ UNCHANGED misreads
        /\ LET u == UnitAhead(1)
           IN  \/ u.track \notin open /\ SkipBlock
               \/ u.track \in open /\ EnterBlock(u.track, u.sizes)
     \/ Has(1) /\ ~HeadAhead /\ MisreadHead

Size == block.sizes[nextFrame + 1]

\* The next frame, or subframe, of n bytes will be copied to its reader: as
\* much as there is room for; the rest is skipped.
StartFrame(n, header) ==
  /\ pstate' = "bytes"
  /\ getting' = [got |-> <<>>, get |-> Least(n, MaxSize),
                 skip |-> n - Least(n, MaxSize)]
  /\ within' = within + header
  /\ Save(header)
  /\ UNCHANGED <<running, demuxVars, toSkip, blockSize, block, nextFrame>>
  /\ UNCHANGED <<frameVars, limitVars>>

\* Mutant: the frame is not kept for a reader that has not asked yet.
DeliverUnasked ==
  /\ Parsing /\ toSkip = 0 /\ pstate = "delivering"
  /\ block.track \notin SubframeTracks
  /\ StartFrame(Size, 0) /\ UNCHANGED misreads

\* Other bytes may seem to be the length of a subframe.
MisreadLength ==
  \/ /\ Misread
     /\ \/ Recover(1)
        \/ \E n \in MisreadSizes \cap 1..(Size - within - 1): StartFrame(n, 1)
  \/ NoMoreMisread /\ Recover(1)

\* The length of the next subframe, if the frame has room for one.
ParseLength ==
  \/ within + 1 > Size /\ Recover(0) /\ UNCHANGED misreads
  \/ within + 1 <= Size /\ ~Has(1) /\ Starve(cur, 1) /\ UNCHANGED misreads
  \/ /\ within + 1 <= Size /\ Has(1)
     /\ LET u == UnitAhead(1)
        IN  \/ /\ u.kind = "len" /\ UNCHANGED misreads
               /\ IF u.size \in 1..(Size - within - 1) THEN StartFrame(u.size, 1)
                                                       ELSE Recover(1)
            \/ u.kind # "len" /\ MisreadLength

\* deliverFrameWithinBlock(): wait until the frame's reader asks for it.
DeliverFrameWithinBlock ==
  /\ Parsing /\ toSkip = 0 /\ pstate = "delivering"
  /\ \/ /\ block.track \notin asking
        /\ Restore
        /\ running' = FALSE
        /\ UNCHANGED <<demuxVars, parseVars, frameVars, limitVars, misreads>>
     \/ /\ block.track \in asking \ SubframeTracks
        /\ StartFrame(Size, 0) /\ UNCHANGED misreads
     \/ block.track \in asking \cap SubframeTracks /\ ParseLength

\* deliverFrameBytes() copies, then skips, at most a bank at a time.
CopyBytes ==
  /\ Parsing /\ toSkip = 0 /\ pstate = "bytes" /\ getting.get > 0
  /\ UNCHANGED misreads
  /\ LET n == Least(getting.get, BANK_SIZE)
     IN  \/ ~Has(n) /\ Starve(cur, n)
         \/ /\ Has(n)
            /\ getting' = [getting EXCEPT !.got = @ \o SubSeq(bank, cur + 1, cur + n),
                                          !.get = @ - n]
            /\ within' = within + n
            /\ Save(n)
            /\ UNCHANGED <<running, demuxVars, pstate, toSkip, blockSize, block>>
            /\ UNCHANGED <<nextFrame, frameVars, limitVars>>

SkipBytes ==
  /\ Parsing /\ toSkip = 0 /\ pstate = "bytes"
  /\ getting.get = 0 /\ getting.skip > 0 /\ UNCHANGED misreads
  /\ LET n == Least(getting.skip, BANK_SIZE)
     IN  \/ ~Has(n) /\ Starve(cur, n)
         \/ /\ Has(n)
            /\ getting' = [getting EXCEPT !.skip = @ - n]
            /\ within' = within + n
            /\ Save(n)
            /\ UNCHANGED <<running, demuxVars, pstate, toSkip, blockSize, block>>
            /\ UNCHANGED <<nextFrame, frameVars, limitVars>>

\* The frame is whole: on to the next one, and FramedSource::afterGetting()
\* hands this one over - to nobody if the reader has stopped meanwhile.
CompleteFrame ==
  /\ Parsing /\ toSkip = 0 /\ pstate = "bytes"
  /\ getting.get = 0 /\ getting.skip = 0 /\ UNCHANGED misreads
  /\ LET t    == block.track
         last == t \notin SubframeTracks \/ within + 1 >= Size
         next == IF last THEN nextFrame + 1 ELSE nextFrame
     IN  /\ nextFrame' = next
         /\ within' = IF last THEN 0 ELSE within
         /\ pstate' = IF next = Len(block.sizes) THEN "block" ELSE "delivering"
         /\ asking' = asking \ {t}
         /\ frame' = IF t \in asking THEN [frame EXCEPT ![t] = getting.got]
                                     ELSE frame
         /\ taken' = IF seeks = 0 THEN [taken EXCEPT ![t] = @ + 1] ELSE taken
  /\ getting' = NoFrame
  /\ Save(0)
  /\ running' = FALSE
  /\ UNCHANGED <<known, open, playing, toSkip, blockSize, block, limitVars>>

Parse ==
  \/ SkipRemainingHeaderBytes \/ LookForCluster \/ LookForNextBlock
  \/ ParseBlock \/ DeliverFrameWithinBlock
  \/ CopyBytes \/ SkipBytes \/ CompleteFrame

-----------------------------------------------------------------------------
\* What the event loop starts.

\* Mutant: continueParsing() does not look whether a read is under way.
ReadOverRead(t) ==
  /\ Idle /\ playing = "playing" /\ t \in open \ asking
  /\ asking' = asking \cup {t}
  /\ running' = TRUE
  /\ UNCHANGED <<bank, parserVars, sourceVars, aborted, known, open, playing>>
  /\ UNCHANGED <<parseVars, frameVars, limitVars, misreads>>

\* Mutant: a reader that asks while a frame waits for it does not wake the
\* parser.
ReadQuietly(t) ==
  /\ Idle /\ playing = "playing" /\ t \in open \ asking
  /\ asking' = asking \cup {t}
  /\ running' = (~reading /\ pstate # "delivering")
  /\ UNCHANGED <<bank, parserVars, sourceVars, aborted, known, open, playing>>
  /\ UNCHANGED <<parseVars, frameVars, limitVars, misreads>>

\* A reader asks for its next frame; parsing goes on unless a read of the
\* file is under way.
Read(t) ==
  /\ Idle /\ playing = "playing" /\ t \in open \ asking
  /\ asking' = asking \cup {t}
  /\ running' = ~reading
  /\ UNCHANGED <<bank, parserVars, sourceVars, aborted, known, open, playing>>
  /\ UNCHANGED <<parseVars, frameVars, limitVars, misreads>>

FileReadable ==
  /\ Idle
  /\ \/ BytesRead /\ UNCHANGED demuxVars
     \/ NothingRead /\ IF AtEnd THEN HandleEndOfFile ELSE UNCHANGED demuxVars
  /\ UNCHANGED <<parseVars, frameVars, limitVars, misreads>>

\* PAUSE stops every reader; a frame that is being copied goes on being so.
Pause ==
  /\ Idle /\ playing \in {"playing", "ended"} /\ open # {}
  /\ pauses < MaxPauses /\ pauses' = pauses + 1
  /\ playing' = "paused"
  /\ asking' = {}
  /\ UNCHANGED <<streamVars, known, open, parseVars, frameVars, seeks, misreads>>

Restarted == IF playing = "paused" THEN "playing" ELSE playing

\* PLAY goes on where PAUSE stopped.
Resume ==
  /\ Idle /\ playing = "paused"
  /\ playing' = "playing"
  /\ UNCHANGED <<streamVars, known, open, asking, parseVars, frameVars, limitVars, misreads>>

\* PLAY with a Range seeks first, also while the tracks are being read.
\* seekToTime() to the start or the end leaves the parser's state as it is.
PlayFrom(to, isCue) ==
  /\ Idle /\ open # {}
  /\ seeks < MaxSeeks /\ seeks' = seeks + 1
  /\ SeekFile(to)
  /\ within' = 0
  /\ pstate' = IF isCue THEN "block" ELSE pstate
  /\ playing' = Restarted
  /\ UNCHANGED <<running, known, open, asking, toSkip, blockSize, block, nextFrame>>
  /\ UNCHANGED <<getting, frameVars, pauses, misreads>>

\* With an unknown duration every Range is cut down to the start.
Seek ==
  \/ PlayFrom(0, FALSE)
  \/ known /\ PlayFrom(Len(File), FALSE)
  \/ known /\ \E c \in Cues: PlayFrom(c - 1, TRUE)

\* The session ends: its tracks are closed, the demultiplexor and the file
\* with the last of them.
Close ==
  /\ Idle /\ open # {}
  /\ open' = {} /\ asking' = {} /\ playing' = "closed"
  /\ reading' = FALSE
  /\ UNCHANGED <<known, bank, parserVars, offset, feof, readTo, running, aborted>>
  /\ UNCHANGED <<parseVars, frameVars, limitVars, misreads>>

Next ==
  \/ Parse
  \/ \E t \in Tracks: Read(t)
  \/ FileReadable \/ Pause \/ Resume \/ Seek \/ Close

Spec == Init /\ [][Next]_vars

\* The parse loop runs on; select() reports a file as readable; the sinks of
\* the streams that play keep asking for frames.
Fairness ==
  /\ WF_vars(Parse)
  /\ WF_vars(FileReadable)
  /\ \A t \in Tracks: WF_vars(Read(t))

FairSpec == Spec /\ Fairness

-----------------------------------------------------------------------------
\* Neither of the parser's internal errors happens - no second read of a file
\* that is being read (FramedSource::getNextFrame), no need for more bytes
\* than a bank holds (ensureValidBytes1) - before the parser has taken bytes
\* for what they are not,
AbortsAstray == aborted => misreads > 0

\* and it does so only after a seek, which leaves its state behind
\* (resetStateAfterSeeking): not because banks are exchanged, a parse is
\* interrupted or the end of the file makes it parse its last bytes again.
NoInternalError == AbortsAstray /\ (misreads > 0 => seeks > 0)

\* Until a seek the bank holds consecutive bytes of the file, up to where it
\* has been read: nothing is lost, doubled or swapped when the banks are.
BankIsFile ==
  seeks = 0 => \A i \in 1..Len(bank): bank[i] = offset - Len(bank) + i

\* A reader that asks for a frame gets it, or is told that there is none,
\* also when the frames of the other track come first, and after a seek,
\* whatever the bytes there are taken for; unless the program aborts first.
ReadsAnswered == \A t \in Tracks: t \in asking ~> t \notin asking \/ aborted
=============================================================================
