------------------------ MODULE MatroskaDemuxProofs ------------------------
(***************************************************************************)
(* Proofs about MatroskaDemux, for any file, any size of the bank, any     *)
(* tracks and any number of PAUSEs and seeks.                              *)
(***************************************************************************)
EXTENDS MatroskaDemux, SequenceTheorems, TLAPS

Bytes == Positions \cup {Junk}

\* A read is under way only while the parser does not run, and puts its bytes
\* behind what the bank holds: right behind, until a seek empties the bank.
ReadInv ==
  /\ running => ~reading
  /\ reading => Len(bank) <= readTo
  /\ reading /\ seeks = 0 => readTo = Len(bank)

\* The parser's buffer and its file are in order: flags, numbers, and where a
\* read will put its bytes.
StreamOK == StreamTypeOK /\ ReadInv /\ BankIsFile

Flags ==
  /\ seenEOF \in BOOLEAN /\ feof \in BOOLEAN /\ reading \in BOOLEAN
  /\ running \in BOOLEAN /\ aborted \in BOOLEAN
  /\ running => ~reading

Numbers ==
  /\ bank \in Seq(Bytes) /\ Len(bank) <= BANK_SIZE
  /\ saved \in 0..Len(bank) /\ cur \in saved..Len(bank)
  /\ offset \in 0..Len(File) /\ readTo \in 0..BANK_SIZE

Target ==
  /\ reading => Len(bank) <= readTo
  /\ reading /\ seeks = 0 => readTo = Len(bank)

-----------------------------------------------------------------------------
\* The operations of the parser's buffer.

LEMMA StreamParts ==
  /\ StreamOK <=> Flags /\ Numbers /\ Target /\ BankIsFile
  /\ StreamOK' <=> Flags' /\ Numbers' /\ Target' /\ BankIsFile'
  BY Zenon DEF StreamOK, StreamTypeOK, ReadInv, Flags, Numbers, Target, Bytes

\* A step that leaves the bank and the file alone and keeps its positions in
\* the bank.
LEMMA SameBank ==
  ASSUME StreamOK, UNCHANGED <<bank, offset, reading, readTo, seeks>>,
         saved' \in 0..Len(bank), cur' \in saved'..Len(bank),
         seenEOF' \in BOOLEAN, feof' \in BOOLEAN, aborted' \in BOOLEAN,
         running' \in BOOLEAN, running' => ~reading
  PROVE  StreamOK'
<1>0. Flags /\ Numbers /\ Target /\ BankIsFile
  BY StreamParts
<1>1. Flags'
  BY <1>0, Zenon DEF Flags
<1>2. Numbers'
  BY <1>0 DEF Numbers
<1>3. Target' /\ BankIsFile'
  BY <1>0 DEF Target, BankIsFile
<1> QED  BY <1>1, <1>2, <1>3, StreamParts

LEMMA SaveStream ==
  ASSUME StreamOK, NEW n \in Nat, Has(n), Save(n), running' \in BOOLEAN,
         running' => running, UNCHANGED seeks
  PROVE  StreamOK'
<1>0. Flags /\ Numbers
  BY StreamParts
<1>1. cur' \in saved'..Len(bank) /\ saved' \in 0..Len(bank)
  BY <1>0, LenProperties DEF Numbers, Save, Has
<1>2. /\ UNCHANGED <<bank, offset, reading, readTo, seeks>>
      /\ UNCHANGED <<seenEOF, feof, aborted>>
  BY DEF Save, sourceVars
<1> QED  BY <1>0, <1>1, <1>2, SameBank, Zenon DEF Flags

LEMMA ReadMoreStream ==
  ASSUME StreamOK, running, NEW c \in saved..Len(bank), NEW n \in Int,
         ReadMore(c, n), UNCHANGED seeks
  PROVE  StreamOK'
<1> DEFINE gone == IF c + n > BANK_SIZE THEN saved ELSE 0
<1>0. Flags /\ Numbers /\ BankIsFile
  BY StreamParts
<1>1. /\ bank \in Seq(Bytes) /\ Len(bank) \in 0..BANK_SIZE
      /\ saved \in 0..Len(bank) /\ gone \in {0, saved} /\ BANK_SIZE \in Nat
      /\ offset \in 0..Len(File) /\ readTo \in 0..BANK_SIZE
      /\ Len(File) \in Nat
  BY <1>0, LenProperties, BankAssumption, FileAssumption DEF Numbers
<1>2. /\ bank' = SubSeq(bank, gone + 1, Len(bank))
      /\ saved' = saved - gone /\ aborted' \in BOOLEAN /\ UNCHANGED offset
  BY DEF ReadMore, sourceVars
<1>3. /\ bank' \in Seq(Bytes) /\ Len(bank') = Len(bank) - gone
      /\ \A i \in 1..Len(bank'): bank'[i] = bank[gone + i]
  <2> HIDE DEF gone
  <2>1. gone \in 0..Len(bank)
    BY <1>1
  <2>2. \A i \in (gone + 1)..Len(bank): bank[i] \in Bytes
    BY <1>1, <2>1, ElementOfSeq
  <2> QED  BY <1>1, <1>2, <2>1, <2>2, SubSeqProperties
<1>4. \/ /\ UNCHANGED <<reading, readTo, feof>> /\ ~reading
         /\ cur' \in {c - gone, saved'}
         /\ seenEOF' \in BOOLEAN /\ running' \in BOOLEAN
      \/ /\ reading' = TRUE /\ readTo' = Len(bank') /\ cur' = c - gone
         /\ running' = FALSE /\ UNCHANGED <<seenEOF, feof>>
  <2>1. CASE feof
    <3>1. /\ cur' = IF seenEOF THEN c - gone ELSE saved'
          /\ seenEOF' = ~seenEOF /\ running' = ~seenEOF
          /\ UNCHANGED <<reading, readTo, feof>>
      BY <2>1 DEF ReadMore, Closure, sourceVars
    <3>2. cur' \in {c - gone, saved'}
      BY <3>1
    <3> QED  BY <1>0, <3>1, <3>2, Zenon DEF Flags
  <2>2. CASE ~feof
    BY <2>2 DEF ReadMore
  <2> QED  BY <2>1, <2>2
<1> HIDE DEF gone
<1>5. BankIsFile'
  <2> SUFFICES ASSUME seeks = 0, NEW i \in 1..Len(bank')
               PROVE  bank'[i] = offset' - Len(bank') + i
    BY <1>1, <1>2, <1>3 DEF BankIsFile
  <2>1. gone + i \in 1..Len(bank)
    BY <1>1, <1>3
  <2>2. bank[gone + i] = offset - Len(bank) + (gone + i)
    BY <1>0, <2>1 DEF BankIsFile
  <2>3. bank'[i] = bank[gone + i]
    BY <1>3
  <2>4. offset' = offset
    BY <1>2
  <2> QED  BY <1>1, <1>3, <2>2, <2>3, <2>4
<1>6. Flags'
  <2>1. seenEOF' \in BOOLEAN /\ feof' \in BOOLEAN /\ reading' \in BOOLEAN
    BY <1>0, <1>4, Zenon DEF Flags
  <2>2. running' \in BOOLEAN /\ (running' => ~reading')
    <3>1. CASE reading' = reading /\ ~reading /\ running' \in BOOLEAN
      BY <3>1
    <3>2. CASE running' = FALSE
      BY <3>2
    <3> QED  BY <1>4, <3>1, <3>2
  <2> QED  BY <1>2, <2>1, <2>2, Zenon DEF Flags
<1>7. Numbers' /\ Target'
  <2>1. cur' \in saved'..Len(bank') /\ saved' \in 0..Len(bank')
    BY <1>1, <1>2, <1>3, <1>4
  <2>2. readTo' \in 0..BANK_SIZE
    BY <1>1, <1>3, <1>4
  <2>3. Target'
    BY <1>1, <1>3, <1>4 DEF Target
  <2> QED  BY <1>1, <1>2, <1>3, <2>1, <2>2, <2>3 DEF Numbers
<1> QED  BY <1>5, <1>6, <1>7, StreamParts

\* The end of a read, with bytes or with none.
LEMMA FileReadStream ==
  ASSUME StreamOK, BytesRead \/ NothingRead, UNCHANGED seeks
  PROVE  StreamOK'
<1>1. CASE BytesRead
  <2> DEFINE new == [i \in 1..Readable |->
                       LET at == Len(bank) + i - readTo
                       IN  IF at >= 1 THEN offset + at ELSE Junk]
  <2>0. Flags /\ Numbers /\ Target /\ BankIsFile /\ reading
    BY <1>1, StreamParts DEF BytesRead
  <2>1. /\ bank \in Seq(Bytes) /\ Len(bank) \in 0..BANK_SIZE
        /\ saved \in 0..Len(bank)
        /\ offset \in 0..Len(File) /\ readTo \in 0..BANK_SIZE
        /\ Len(bank) <= readTo /\ Len(File) \in Nat /\ BANK_SIZE \in Nat
    BY <2>0, LenProperties, BankAssumption, FileAssumption DEF Numbers, Target
  <2>2. /\ Readable \in 1..(BANK_SIZE - readTo)
        /\ offset + Readable <= Len(File)
    BY <1>1, <2>1 DEF BytesRead, Readable
  <2>3. new \in Seq(Bytes) /\ Len(new) = Readable
    <3>1. \A i \in 1..Readable:
            LET at == Len(bank) + i - readTo
            IN  (IF at >= 1 THEN offset + at ELSE Junk) \in Bytes
      BY <2>1, <2>2 DEF Bytes, Positions, Junk
    <3>2. new \in [1..Readable -> Bytes]
      BY <3>1
    <3> QED  BY <2>2, <3>2, SeqDef
  <2>4. bank' = bank \o new
    BY <1>1 DEF BytesRead
  <2>5. /\ bank' \in Seq(Bytes) /\ Len(bank') = Len(bank) + Len(new)
        /\ \A i \in 1..(Len(bank) + Len(new)):
             bank'[i] = IF i <= Len(bank) THEN bank[i] ELSE new[i - Len(bank)]
    <3> HIDE DEF new
    <3> QED  BY <2>1, <2>3, <2>4, ConcatProperties
  <2>6. BankIsFile'
    <3> SUFFICES ASSUME seeks = 0, NEW i \in 1..(Len(bank) + Readable)
                 PROVE  bank'[i] = offset' - Len(bank') + i
      BY <2>3, <2>5 DEF BankIsFile
    <3>1. offset' = offset + Readable /\ readTo = Len(bank)
      BY <1>1, <2>0 DEF BytesRead, Target
    <3>2. CASE i <= Len(bank)
      <4>1. bank[i] = offset - Len(bank) + i
        BY <2>0, <2>1, <3>2 DEF BankIsFile
      <4>2. bank'[i] = bank[i]
        BY <2>2, <2>3, <2>5, <3>2
      <4> QED  BY <2>1, <2>2, <2>3, <2>5, <3>1, <4>1, <4>2
    <3>3. CASE i > Len(bank)
      <4>1. i - Len(bank) \in 1..Readable
        BY <2>1, <2>2, <3>3
      <4>2. new[i - Len(bank)] = offset + (i - Len(bank))
        BY <2>1, <2>2, <3>1, <4>1
      <4> HIDE DEF new
      <4>3. bank'[i] = new[i - Len(bank)]
        BY <2>1, <2>2, <2>3, <2>5, <3>3
      <4> QED  BY <2>1, <2>2, <2>3, <2>5, <3>1, <4>2, <4>3
    <3> QED  BY <2>1, <2>2, <3>2, <3>3
  <2>7. /\ offset' = offset + Readable /\ feof' \in BOOLEAN /\ reading' = FALSE
        /\ cur' = saved /\ running' = TRUE
        /\ UNCHANGED <<saved, seenEOF, readTo, aborted>>
    BY <1>1 DEF BytesRead
  <2>8. Flags'
    BY <2>0, <2>7, Zenon DEF Flags
  <2>9. Numbers' /\ Target'
    <3> HIDE DEF new
    <3> QED  BY <2>1, <2>2, <2>3, <2>5, <2>7 DEF Numbers, Target
  <2> QED  BY <2>6, <2>8, <2>9, StreamParts
<1>2. CASE NothingRead
  <2>0. Flags /\ Numbers /\ BankIsFile
    BY StreamParts
  <2>1. /\ feof' = TRUE /\ reading' = FALSE /\ running' \in BOOLEAN
        /\ UNCHANGED <<bank, saved, offset, readTo, aborted>>
        /\ cur' \in {cur, saved'} /\ seenEOF' \in BOOLEAN
    BY <1>2, <2>0, Zenon DEF NothingRead, Closure, Flags
  <2>2. Flags'
    BY <2>0, <2>1, Zenon DEF Flags
  <2>3. Numbers'
    BY <2>0, <2>1, LenProperties DEF Numbers
  <2>4. Target' /\ BankIsFile'
    BY <2>0, <2>1 DEF Target, BankIsFile
  <2> QED  BY <2>2, <2>3, <2>4, StreamParts
<1> QED  BY <1>1, <1>2

\* A seek while a read is under way is one that a PLAY makes.
LEMMA SeekStream ==
  ASSUME StreamOK, NEW to \in 0..Len(File), SeekFile(to), UNCHANGED running,
         ~reading \/ seeks' # 0
  PROVE  StreamOK'
<1>0. Flags /\ Numbers
  BY StreamParts
<1>1. /\ bank' = <<>> /\ cur' = 0 /\ saved' = 0 /\ offset' = to
      /\ feof' = FALSE /\ UNCHANGED <<seenEOF, reading, readTo, aborted>>
  BY DEF SeekFile
<1>2. bank' \in Seq(Bytes) /\ Len(bank') = 0
  BY <1>1, EmptySeq
<1>3. Flags'
  BY <1>0, <1>1, Zenon DEF Flags
<1>4. Numbers' /\ Target' /\ BankIsFile'
  BY <1>0, <1>1, <1>2, BankAssumption DEF Numbers, Target, BankIsFile
<1> QED  BY <1>3, <1>4, StreamParts

-----------------------------------------------------------------------------
\* The demultiplexor and its parser.

\* What TypeOK says of the variables other than the buffer's.
DemuxOK ==
  /\ known \in BOOLEAN /\ open \subseteq Tracks /\ asking \subseteq open
  /\ playing \in {"playing", "paused", "ended", "closed"}
  /\ pauses \in 0..MaxPauses /\ seeks \in 0..MaxSeeks

BlockOK ==
  /\ pstate \in ParseStates /\ toSkip \in Nat /\ blockSize \in Nat
  /\ block \in [track : Tracks \cup {0}, sizes : Seq(Nat)]
  /\ nextFrame \in 0..Len(block.sizes)
  /\ pstate \in {"delivering", "bytes"} => nextFrame < Len(block.sizes)
  /\ within \in Nat

FrameOK ==
  /\ getting \in [got : Seq(Bytes), get : 0..MaxSize, skip : Nat]
  /\ frame \in [Tracks -> Seq(Bytes)]
  /\ taken \in [Tracks -> Nat]

\* The inductive invariant.  BankIsFile alone does not say where the bytes of
\* a read that is under way will go.
IInv == StreamOK /\ DemuxOK /\ BlockOK /\ FrameOK

\* How often bytes were misread depends on nothing else.
MisreadsOK == misreads \in 0..MaxMisreads

LEMMA Parts ==
  /\ IInv <=> StreamOK /\ DemuxOK /\ BlockOK /\ FrameOK
  /\ IInv' <=> StreamOK' /\ DemuxOK' /\ BlockOK' /\ FrameOK'
  BY Zenon DEF IInv

LEMMA Typed == IInv /\ MisreadsOK => TypeOK
  BY Zenon DEF IInv, MisreadsOK, TypeOK, StreamOK, DemuxOK, BlockOK, FrameOK, Bytes

LEMMA InitIInv == Init => IInv
<1> SUFFICES ASSUME Init
             PROVE  IInv
  OBVIOUS
<1>1. <<>> \in Seq(Bytes) /\ <<>> \in Seq(Nat) /\ Len(<<>>) = 0
  BY EmptySeq
<1>2. Flags
  BY DEF Init, StreamInit, Flags
<1>3. Numbers /\ Target /\ BankIsFile
  BY <1>1, BankAssumption, FileAssumption
  DEF Init, StreamInit, Numbers, Target, BankIsFile
<1>4. DemuxOK
  BY TrackAssumption, LimitAssumption DEF Init, DemuxOK
<1>5. BlockOK
  BY <1>1 DEF Init, BlockOK, NoBlock, ParseStates
<1>6. FrameOK
  BY <1>1, SizeAssumption DEF Init, FrameOK, NoFrame
<1> QED  BY <1>2, <1>3, <1>4, <1>5, <1>6, StreamParts, Parts

\* A parse that is interrupted, from any position up to the end of the bank.
LEMMA StarveStep ==
  ASSUME IInv, Parsing, NEW c \in saved..Len(bank), NEW n \in Int, Starve(c, n)
  PROVE  IInv'
<1>1. StreamOK /\ DemuxOK /\ BlockOK /\ FrameOK
  BY Parts
<1>2. StreamOK'
  BY <1>1, ReadMoreStream DEF Starve, Parsing, limitVars
<1>3. DemuxOK'
  <2>1. UNCHANGED <<pauses, seeks>>
    BY DEF Starve, limitVars
  <2>2. CASE HandleEndOfFile
    BY <1>1, <2>1, <2>2 DEF DemuxOK, HandleEndOfFile
  <2>3. CASE UNCHANGED demuxVars
    BY <1>1, <2>1, <2>3 DEF DemuxOK, demuxVars
  <2> QED  BY <2>2, <2>3 DEF Starve
<1>4. BlockOK' /\ FrameOK'
  BY <1>1 DEF Starve, parseVars, frameVars, BlockOK, FrameOK
<1> QED  BY <1>2, <1>3, <1>4, Parts

\* A step that saves the position after n units that the bank holds.
LEMMA SaveStep ==
  ASSUME IInv, NEW n \in Nat, Has(n), Save(n), UNCHANGED <<running, demuxVars>>,
         UNCHANGED limitVars, BlockOK', FrameOK'
  PROVE  IInv'
<1>1. StreamOK /\ DemuxOK
  BY Parts
<1>2. running \in BOOLEAN
  BY <1>1, StreamParts DEF Flags
<1>3. StreamOK'
  BY <1>1, <1>2, SaveStream DEF limitVars
<1>4. DemuxOK'
  BY <1>1 DEF DemuxOK, demuxVars, limitVars
<1> QED  BY <1>3, <1>4, Parts

\* What the parser's position is compared with and added to.
LEMMA Positioned ==
  ASSUME IInv
  PROVE  /\ Len(bank) \in 0..BANK_SIZE /\ saved \in 0..Len(bank)
         /\ cur \in saved..Len(bank) /\ BANK_SIZE \in Nat \ {0}
         /\ bank \in Seq(Bytes)
         /\ BlockOK /\ FrameOK /\ DemuxOK /\ StreamOK
  BY Parts, StreamParts, LenProperties, BankAssumption DEF Numbers

LEMMA UnitType ==
  ASSUME IInv, Has(1)
  PROVE  LET u == UnitAhead(1)
         IN  /\ u.kind \in {"id", "other"} => u.size \in Nat
             /\ u.kind = "head" => /\ u.track \in Tracks
                                   /\ u.sizes \in Seq(Nat) /\ u.sizes # <<>>
<1>1. bank[cur + 1] \in Bytes
  BY Positioned, ElementOfSeq DEF Has
<1>2. CASE bank[cur + 1] = Junk
  BY <1>2 DEF UnitAhead, Ahead
<1>3. CASE bank[cur + 1] # Junk
  BY <1>1, <1>3, FileUnitAssumption DEF UnitAhead, Ahead, Bytes
<1> QED  BY <1>2, <1>3

\* A step that only moves the parser's position, to one behind the saved one.
LEMMA MoveStep ==
  ASSUME IInv, cur' \in saved..Len(bank), UNCHANGED <<bank, saved, seenEOF>>,
         UNCHANGED <<sourceVars, aborted, demuxVars, limitVars>>,
         running' \in {running, FALSE}, BlockOK', FrameOK'
  PROVE  IInv'
<1>1. /\ StreamOK /\ DemuxOK /\ Flags /\ Numbers
  BY Parts, StreamParts
<1>2. running' \in BOOLEAN /\ (running' => ~reading)
  <2>1. CASE running' = running
    BY <1>1, <2>1, Zenon DEF Flags
  <2>2. CASE running' = FALSE
    BY <2>2
  <2> QED  BY <2>1, <2>2
<1>3. saved' \in 0..Len(bank) /\ cur' \in saved'..Len(bank)
  BY <1>1 DEF Numbers
<1>4. /\ UNCHANGED <<bank, offset, reading, readTo, seeks>>
      /\ UNCHANGED <<seenEOF, feof, aborted>>
  BY DEF sourceVars, limitVars
<1>5. StreamOK'
  BY <1>1, <1>2, <1>3, <1>4, SameBank, Zenon DEF Flags
<1>6. DemuxOK'
  BY <1>1 DEF DemuxOK, demuxVars, limitVars
<1> QED  BY <1>5, <1>6, Parts

\* An error in the data.
LEMMA RecoverStep ==
  ASSUME IInv, NEW n \in {0, 1}, Has(n), Recover(n)
  PROVE  IInv'
<1>1. cur' \in saved..Len(bank)
  BY Positioned DEF Recover, Has
<1>2. BlockOK' /\ FrameOK'
  BY Positioned DEF Recover, BlockOK, FrameOK, frameVars, ParseStates
<1> QED  BY <1>1, <1>2, MoveStep DEF Recover

\* A block is entered, as its head says or as bytes that are none seem to say.
LEMMA EnterStep ==
  ASSUME IInv, Has(1), NEW t \in Tracks, NEW sizes \in Seq(Nat), sizes # <<>>,
         EnterBlock(t, sizes)
  PROVE  IInv'
<1>1. /\ pstate' = "delivering"
      /\ block' = [track |-> t, sizes |-> sizes]
      /\ nextFrame' = 0 /\ within' = 0 /\ Save(1)
      /\ UNCHANGED <<toSkip, blockSize, getting>>
      /\ UNCHANGED <<running, demuxVars, frameVars, limitVars>>
  BY DEF EnterBlock
<1>2. Len(sizes) \in Nat \ {0}
  BY EmptySeq
<1>3. BlockOK' /\ FrameOK'
  BY Positioned, <1>1, <1>2 DEF BlockOK, FrameOK, frameVars, ParseStates
<1> QED  BY <1>1, <1>3, SaveStep

\* A block is skipped, at once or when more of it has been read.
LEMMA SkipBlockStep ==
  ASSUME IInv, Parsing, Has(1), SkipBlock
  PROVE  IInv'
<1> DEFINE n == Most(1, blockSize)
<1>1. n \in Nat /\ n >= 1
  BY Positioned DEF BlockOK, Most
<1> HIDE DEF n
<1>2. CASE Starve(cur + 1, n - 1)
  <2>1. cur + 1 \in saved..Len(bank) /\ n - 1 \in Int
    BY Positioned, <1>1 DEF Has
  <2> QED  BY <1>2, <2>1, StarveStep
<1>3. CASE ~Starve(cur + 1, n - 1)
  <2>1. /\ Has(n) /\ Save(n) /\ pstate' = "block"
        /\ UNCHANGED <<running, demuxVars, toSkip, blockSize, block, nextFrame,
                       within, getting, frameVars, limitVars>>
    BY <1>3 DEF SkipBlock, n
  <2>2. BlockOK' /\ FrameOK'
    BY Positioned, <2>1 DEF BlockOK, FrameOK, frameVars, ParseStates
  <2> QED  BY <1>1, <2>1, <2>2, SaveStep
<1> QED  BY <1>2, <1>3

LEMMA NextIInv == IInv /\ [Next]_vars => IInv'
<1> SUFFICES ASSUME IInv, [Next]_vars
             PROVE  IInv'
  OBVIOUS
<1>0. /\ Len(bank) \in 0..BANK_SIZE /\ saved \in 0..Len(bank)
      /\ cur \in saved..Len(bank) /\ BANK_SIZE \in Nat \ {0}
      /\ bank \in Seq(Bytes)
      /\ BlockOK /\ FrameOK /\ DemuxOK /\ StreamOK
      /\ Flags /\ Numbers
  BY Positioned, StreamParts
<1> USE DEF limitVars
<1>1. CASE SkipRemainingHeaderBytes
  <2> DEFINE n == Least(toSkip, BANK_SIZE)
  <2>1. n \in Nat /\ n <= toSkip /\ toSkip \in Nat
    BY <1>0 DEF BlockOK, Least
  <2> HIDE DEF n
  <2>2. CASE Save(0) /\ UNCHANGED <<demuxVars, parseVars, frameVars, limitVars, running>>
    <3>1. BlockOK' /\ FrameOK'
      BY <1>0, <2>2 DEF parseVars, frameVars, BlockOK, FrameOK
    <3> QED  BY <1>0, <2>2, <3>1, SaveStep DEF Has
  <2>3. CASE Starve(cur, n)
    BY <1>0, <1>1, <2>1, <2>3, StarveStep DEF SkipRemainingHeaderBytes
  <2>4. CASE /\ Has(n) /\ cur' = cur + n /\ toSkip' = toSkip - n
             /\ UNCHANGED <<bank, saved, seenEOF, sourceVars, running, aborted>>
             /\ UNCHANGED <<pstate, blockSize, block, nextFrame, within, getting>>
             /\ UNCHANGED <<demuxVars, frameVars, limitVars>>
    <3>1. cur' \in saved..Len(bank)
      BY <1>0, <2>1, <2>4 DEF Has
    <3>2. BlockOK' /\ FrameOK'
      BY <1>0, <2>1, <2>4 DEF frameVars, BlockOK, FrameOK
    <3> QED  BY <2>4, <3>1, <3>2, MoveStep
  <2> QED  BY <1>1, <2>2, <2>3, <2>4 DEF SkipRemainingHeaderBytes, n
<1>2. CASE LookForCluster
  <2>1. BlockOK' /\ FrameOK' /\ DemuxOK'
    BY <1>0, <1>2 DEF LookForCluster, BlockOK, FrameOK, DemuxOK, demuxVars,
                      frameVars, ParseStates
  <2>2. UNCHANGED <<running, seeks>> /\ running
    BY <1>2 DEF LookForCluster, Parsing
  <2>3. CASE SeekFile(ClusterOffset)
    <3>1. ClusterOffset \in 0..Len(File)
      BY OffsetAssumption
    <3>2. StreamOK'
      BY <1>0, <2>2, <2>3, <3>1, SeekStream DEF Flags
    <3> QED  BY <2>1, <3>2, Parts
  <2>4. CASE UNCHANGED <<bank, parserVars, sourceVars, aborted>>
    <3>1. StreamOK'
      BY <1>0, <2>2, <2>4, SameBank DEF Flags, parserVars, sourceVars
    <3> QED  BY <2>1, <3>1, Parts
  <2> QED  BY <1>2, <2>3, <2>4 DEF LookForCluster
<1>3. CASE LookForNextBlock
  <2>1. CASE Starve(cur, 1)
    BY <1>0, <1>3, <2>1, StarveStep DEF LookForNextBlock
  <2>2. ASSUME Has(1), NEW n \in Nat, FindBlock(n)
        PROVE  IInv'
    <3>1. BlockOK' /\ FrameOK'
      BY <1>0, <2>2 DEF FindBlock, BlockOK, FrameOK, frameVars, ParseStates
    <3> QED  BY <2>2, <3>1, SaveStep DEF FindBlock
  <2>3. ASSUME Has(1), NEW n \in Nat, SkipHeader(n)
        PROVE  IInv'
    <3>1. \/ Has(1 + n) /\ Save(1 + n) /\ toSkip' = 0
          \/ Save(1) /\ toSkip' = n
      BY <2>3 DEF SkipHeader
    <3>2. BlockOK' /\ FrameOK'
      BY <1>0, <2>3, <3>1 DEF SkipHeader, BlockOK, FrameOK, frameVars
    <3>3. PICK k \in Nat: Has(k) /\ Save(k)
      BY <2>3, <3>1
    <3> QED  BY <2>3, <3>2, <3>3, SaveStep DEF SkipHeader
  <2>4. CASE Has(1) /\ MisreadHeader
    <3>1. CASE Recover(1)
      BY <2>4, <3>1, RecoverStep
    <3>2. CASE \E n \in MisreadSizes: FindBlock(n) \/ SkipHeader(n)
      BY <2>2, <2>3, <2>4, <3>2, MisreadAssumption
    <3> QED  BY <2>3, <2>4, <3>1, <3>2 DEF MisreadHeader
  <2>5. CASE Has(1) /\ ~MisreadHeader
    BY <1>3, <2>1, <2>2, <2>3, <2>5, UnitType DEF LookForNextBlock
  <2> QED  BY <1>3, <2>1, <2>4, <2>5 DEF LookForNextBlock
<1>4. CASE ParseBlock
  <2> DEFINE u == UnitAhead(1)
  <2>1. CASE Starve(cur, 1)
    BY <1>0, <1>4, <2>1, StarveStep DEF ParseBlock
  <2>2. CASE Has(1) /\ SkipBlock
    BY <1>4, <2>2, SkipBlockStep DEF ParseBlock
  <2>3. CASE Has(1) /\ HeadAhead /\ EnterBlock(u.track, u.sizes)
    <3>1. u.track \in Tracks /\ u.sizes \in Seq(Nat) /\ u.sizes # <<>>
      BY <2>3, UnitType DEF HeadAhead
    <3> HIDE DEF u
    <3> QED  BY <2>3, <3>1, EnterStep
  <2>4. CASE Has(1) /\ MisreadHead
    <3>1. CASE Recover(1)
      BY <2>4, <3>1, RecoverStep
    <3>2. ASSUME NEW t \in open, blockSize > 0, EnterBlock(t, <<blockSize - 1>>)
          PROVE  IInv'
      <4>1. blockSize - 1 \in Nat /\ t \in Tracks
        BY <1>0, <3>2 DEF BlockOK, DemuxOK
      <4>2. <<blockSize - 1>> \in Seq(Nat) /\ <<blockSize - 1>> # <<>>
        BY <4>1
      <4> QED  BY <2>4, <3>2, <4>1, <4>2, EnterStep
    <3>3. ASSUME NEW t \in open, NEW m \in MisreadSizes, NEW n \in MisreadSizes,
                 EnterBlock(t, <<m, n>>)
          PROVE  IInv'
      <4>1. m \in Nat /\ n \in Nat /\ t \in Tracks
        BY <1>0, MisreadAssumption DEF DemuxOK
      <4>2. <<m, n>> \in Seq(Nat) /\ <<m, n>> # <<>>
        BY <4>1
      <4> QED  BY <2>4, <3>3, <4>1, <4>2, EnterStep
    <3> QED  BY <2>2, <2>4, <3>1, <3>2, <3>3 DEF MisreadHead
  <2> QED  BY <1>4, <2>1, <2>2, <2>3, <2>4 DEF ParseBlock
<1>5. CASE DeliverFrameWithinBlock
  <2>1. CASE /\ Restore /\ running' = FALSE
             /\ UNCHANGED <<demuxVars, parseVars, frameVars, limitVars>>
    <3>1. BlockOK' /\ FrameOK'
      BY <1>0, <2>1 DEF parseVars, frameVars, BlockOK, FrameOK
    <3>2. /\ cur' = saved /\ UNCHANGED <<bank, saved, seenEOF>>
          /\ UNCHANGED <<sourceVars, aborted, demuxVars, limitVars>>
      BY <2>1 DEF Restore
    <3>3. cur' \in saved..Len(bank)
      BY <1>0, <3>2
    <3>4. running' \in {running, FALSE}
      BY <2>1
    <3> QED  BY <3>1, <3>2, <3>3, <3>4, MoveStep, Zenon
  <2>2. ASSUME NEW n \in Nat, NEW header \in {0, 1}, Has(header),
               StartFrame(n, header)
        PROVE  IInv'
    <3>1. /\ Save(header) /\ pstate' = "bytes" /\ within' = within + header
          /\ getting' = [got |-> <<>>, get |-> Least(n, MaxSize),
                         skip |-> n - Least(n, MaxSize)]
          /\ UNCHANGED <<running, demuxVars, toSkip, blockSize, block, nextFrame>>
          /\ UNCHANGED <<frameVars, limitVars>>
      BY <2>2 DEF StartFrame
    <3>2. <<>> \in Seq(Bytes)
      BY EmptySeq
    <3>3. Least(n, MaxSize) \in 0..MaxSize /\ n - Least(n, MaxSize) \in Nat
      BY SizeAssumption DEF Least
    <3>4. pstate = "delivering"
      BY <1>5 DEF DeliverFrameWithinBlock
    <3>5. BlockOK' /\ FrameOK'
      BY <1>0, <3>1, <3>2, <3>3, <3>4 DEF BlockOK, FrameOK, frameVars, ParseStates
    <3>6. header \in Nat
      OBVIOUS
    <3> QED  BY <2>2, <3>1, <3>5, <3>6, SaveStep
  <2>4. CASE block.track \in asking \ SubframeTracks /\ StartFrame(Size, 0)
    <3>1. nextFrame + 1 \in 1..Len(block.sizes) /\ block.sizes \in Seq(Nat)
      BY <1>0, <1>5, LenProperties DEF DeliverFrameWithinBlock, BlockOK
    <3>2. Size \in Nat
      BY <3>1, ElementOfSeq DEF Size
    <3>3. Has(0)
      BY <1>0 DEF Has
    <3> QED  BY <2>2, <2>4, <3>2, <3>3
  <2>5. CASE ParseLength
    <3> DEFINE u == UnitAhead(1)
    <3>1. CASE Recover(0)
      <4>1. Has(0)
        BY <1>0 DEF Has
      <4> QED  BY <3>1, <4>1, RecoverStep
    <3>2. CASE Starve(cur, 1)
      BY <1>0, <1>5, <3>2, StarveStep DEF DeliverFrameWithinBlock
    <3>3. CASE Has(1) /\ Recover(1)
      BY <3>3, RecoverStep
    <3>4. ASSUME Has(1), NEW n \in 1..(Size - within - 1), StartFrame(n, 1)
          PROVE  IInv'
      <4>1. nextFrame + 1 \in 1..Len(block.sizes) /\ block.sizes \in Seq(Nat)
        BY <1>0, <1>5, LenProperties DEF DeliverFrameWithinBlock, BlockOK
      <4>2. Size \in Nat /\ within \in Nat
        BY <1>0, <4>1, ElementOfSeq DEF Size, BlockOK
      <4>3. n \in Nat
        BY <4>2
      <4> QED  BY <2>2, <3>4, <4>3
    <3>5. \/ Recover(0)
          \/ Starve(cur, 1)
          \/ Has(1) /\ Recover(1)
          \/ /\ Has(1)
             /\ \E n \in 1..(Size - within - 1): StartFrame(n, 1)
      <4> HIDE DEF u
      <4>1. CASE MisreadLength /\ Has(1)
        BY <4>1 DEF MisreadLength
      <4>2. CASE ~(MisreadLength /\ Has(1))
        <5>1. \/ Recover(0)
              \/ Starve(cur, 1)
              \/ /\ Has(1)
                 /\ IF u.size \in 1..(Size - within - 1) THEN StartFrame(u.size, 1)
                                                         ELSE Recover(1)
          BY <2>5, <4>2 DEF ParseLength, u
        <5> QED  BY <5>1
      <4> QED  BY <4>1, <4>2
    <3> QED  BY <3>1, <3>2, <3>3, <3>4, <3>5
  <2> QED  BY <1>5, <2>1, <2>4, <2>5 DEF DeliverFrameWithinBlock
<1>6. CASE CopyBytes
  <2> DEFINE n == Least(getting.get, BANK_SIZE)
             piece == SubSeq(bank, cur + 1, cur + n)
  <2>1. /\ n \in Nat /\ n <= getting.get /\ getting.get \in 0..MaxSize
        /\ getting.got \in Seq(Bytes)
    BY <1>0, SizeAssumption DEF FrameOK, Least
  <2> HIDE DEF n
  <2>2. CASE Starve(cur, n)
    BY <1>0, <1>6, <2>1, <2>2, StarveStep DEF CopyBytes
  <2>3. CASE ~Starve(cur, n)
    <3>1. /\ Has(n) /\ Save(n)
          /\ getting' = [getting EXCEPT !.got = @ \o piece, !.get = @ - n]
          /\ within' = within + n
          /\ UNCHANGED <<running, demuxVars, pstate, toSkip, blockSize, block>>
          /\ UNCHANGED <<nextFrame, frameVars, limitVars>>
      BY <1>6, <2>3 DEF CopyBytes, n
    <3>2. \A i \in (cur + 1)..(cur + n): bank[i] \in Bytes
      BY <1>0, <2>1, <3>1, ElementOfSeq DEF Has
    <3>3. piece \in Seq(Bytes)
      BY <1>0, <2>1, <3>2, SubSeqProperties
    <3> HIDE DEF piece
    <3>4. getting.got \o piece \in Seq(Bytes)
      BY <2>1, <3>3, ConcatProperties
    <3>5. BlockOK'
      BY <1>0, <2>1, <3>1 DEF BlockOK
    <3>6. getting.get - n \in 0..MaxSize
      BY <2>1, SizeAssumption
    <3>7. getting' \in [got : Seq(Bytes), get : 0..MaxSize, skip : Nat]
      BY <1>0, <3>1, <3>4, <3>6, Zenon DEF FrameOK
    <3>8. FrameOK'
      BY <1>0, <3>1, <3>7 DEF FrameOK, frameVars
    <3> QED  BY <2>1, <3>1, <3>5, <3>8, SaveStep
  <2> QED  BY <2>2, <2>3
<1>7. CASE SkipBytes
  <2> DEFINE n == Least(getting.skip, BANK_SIZE)
  <2>1. n \in Nat /\ n <= getting.skip /\ getting.skip \in Nat
    BY <1>0 DEF FrameOK, Least
  <2> HIDE DEF n
  <2>2. CASE Starve(cur, n)
    BY <1>0, <1>7, <2>1, <2>2, StarveStep DEF SkipBytes
  <2>3. CASE ~Starve(cur, n)
    <3>1. /\ Has(n) /\ Save(n)
          /\ getting' = [getting EXCEPT !.skip = @ - n]
          /\ within' = within + n
          /\ UNCHANGED <<running, demuxVars, pstate, toSkip, blockSize, block>>
          /\ UNCHANGED <<nextFrame, frameVars, limitVars>>
      BY <1>7, <2>3 DEF SkipBytes, n
    <3>2. BlockOK'
      BY <1>0, <2>1, <3>1 DEF BlockOK
    <3>3. getting.skip - n \in Nat
      BY <2>1
    <3>4. getting' \in [got : Seq(Bytes), get : 0..MaxSize, skip : Nat]
      BY <1>0, <3>1, <3>3, Zenon DEF FrameOK
    <3>5. FrameOK'
      BY <1>0, <3>1, <3>4 DEF FrameOK, frameVars
    <3> QED  BY <2>1, <3>1, <3>2, <3>5, SaveStep
  <2> QED  BY <2>2, <2>3
<1>8. CASE CompleteFrame
  <2> DEFINE t == block.track
             next == IF t \notin SubframeTracks \/ within + 1 >= Size
                     THEN nextFrame + 1 ELSE nextFrame
  <2>1. /\ nextFrame' = next /\ within' \in {0, within}
        /\ pstate' = IF next = Len(block.sizes) THEN "block" ELSE "delivering"
        /\ asking' = asking \ {t}
        /\ frame' \in {frame, [frame EXCEPT ![t] = getting.got]}
        /\ taken' \in {taken, [taken EXCEPT ![t] = @ + 1]}
        /\ getting' = NoFrame /\ Save(0) /\ running' = FALSE
        /\ UNCHANGED <<known, open, playing, toSkip, blockSize, block, limitVars>>
    BY <1>8 DEF CompleteFrame
  <2>2. next \in {nextFrame, nextFrame + 1} /\ pstate = "bytes"
    BY <1>8 DEF CompleteFrame
  <2>3. <<>> \in Seq(Bytes)
    BY EmptySeq
  <2>4. Len(block.sizes) \in Nat
    BY <1>0, LenProperties DEF BlockOK
  <2> HIDE DEF next
  <2>5. BlockOK'
    BY <1>0, <2>1, <2>2, <2>4 DEF BlockOK, ParseStates
  <2>6. FrameOK'
    <3>1. getting' \in [got : Seq(Bytes), get : 0..MaxSize, skip : Nat]
      BY <2>1, <2>3, SizeAssumption DEF NoFrame
    <3>2. getting.got \in Seq(Bytes)
      BY <1>0 DEF FrameOK
    <3>3. frame \in [Tracks -> Seq(Bytes)] /\ taken \in [Tracks -> Nat]
      BY <1>0 DEF FrameOK
    <3>4. frame' \in [Tracks -> Seq(Bytes)]
      <4>1. [frame EXCEPT ![t] = getting.got] \in [Tracks -> Seq(Bytes)]
        BY <3>2, <3>3, Zenon
      <4> QED  BY <2>1, <3>3, <4>1
    <3>5. taken' \in [Tracks -> Nat]
      <4>1. [taken EXCEPT ![t] = @ + 1] \in [Tracks -> Nat]
        <5>1. \A u \in Tracks: taken[u] + 1 \in Nat
          BY <3>3
        <5>2. CASE t \in Tracks
          BY <3>3, <5>1, <5>2, Zenon
        <5>3. CASE t \notin Tracks
          BY <3>3, <5>3, Zenon
        <5> QED  BY <5>2, <5>3
      <4> QED  BY <2>1, <3>3, <4>1
    <3> QED  BY <3>1, <3>4, <3>5 DEF FrameOK
  <2>7. DemuxOK'
    BY <1>0, <2>1 DEF DemuxOK
  <2>8. StreamOK'
    <3>1. Has(0)
      BY <1>0 DEF Has
    <3>2. running' \in BOOLEAN /\ (running' => running) /\ UNCHANGED seeks
      BY <2>1
    <3> QED  BY <1>0, <2>1, <3>1, <3>2, SaveStream
  <2> QED  BY <2>5, <2>6, <2>7, <2>8, Parts
<1>9. ASSUME NEW t \in Tracks, Read(t)
      PROVE  IInv'
  <2>1. /\ asking' = asking \cup {t} /\ t \in open /\ running' = ~reading
        /\ UNCHANGED <<bank, parserVars, sourceVars, aborted, known, open, playing>>
        /\ UNCHANGED <<parseVars, frameVars, limitVars>>
    BY <1>9 DEF Read
  <2>2. BlockOK' /\ FrameOK' /\ DemuxOK'
    BY <1>0, <2>1 DEF parseVars, frameVars, BlockOK, FrameOK, DemuxOK
  <2>3. running' \in BOOLEAN /\ (running' => ~reading)
    BY <1>0, <2>1, Zenon DEF Flags
  <2>4. StreamOK'
    BY <1>0, <2>1, <2>3, SameBank DEF Flags, parserVars, sourceVars
  <2> QED  BY <2>2, <2>4, Parts
<1>10. CASE FileReadable
  <2>1. BlockOK' /\ FrameOK' /\ UNCHANGED <<pauses, seeks>>
    BY <1>0, <1>10 DEF FileReadable, parseVars, frameVars, BlockOK, FrameOK
  <2>2. StreamOK'
    BY <1>0, <1>10, <2>1, FileReadStream DEF FileReadable
  <2>3. DemuxOK'
    <3>1. CASE HandleEndOfFile
      BY <1>0, <2>1, <3>1 DEF DemuxOK, HandleEndOfFile
    <3>2. CASE UNCHANGED demuxVars
      BY <1>0, <2>1, <3>2 DEF DemuxOK, demuxVars
    <3> QED  BY <1>10, <3>1, <3>2 DEF FileReadable
  <2> QED  BY <2>1, <2>2, <2>3, Parts
<1>11. CASE Pause \/ Resume
  <2>1. /\ asking' \in {asking, {}} /\ playing' \in {"paused", "playing"}
        /\ pauses' \in 0..MaxPauses
        /\ UNCHANGED <<streamVars, known, open, parseVars, frameVars, seeks>>
    BY <1>0, <1>11, LimitAssumption DEF Pause, Resume, DemuxOK
  <2>2. BlockOK' /\ FrameOK' /\ DemuxOK'
    BY <1>0, <2>1 DEF parseVars, frameVars, BlockOK, FrameOK, DemuxOK
  <2>3. StreamOK'
    BY <1>0, <2>1, SameBank DEF Flags, streamVars, parserVars, sourceVars
  <2> QED  BY <2>2, <2>3, Parts
<1>12. CASE Seek
  <2>1. PICK to, isCue: to \in 0..Len(File) /\ PlayFrom(to, isCue)
    <3>1. CASE PlayFrom(0, FALSE) \/ PlayFrom(Len(File), FALSE)
      <4>1. 0 \in 0..Len(File) /\ Len(File) \in 0..Len(File)
        BY FileAssumption
      <4> QED  BY <3>1, <4>1, Zenon
    <3>2. ASSUME NEW c \in Cues, PlayFrom(c - 1, TRUE)
          PROVE  \E to, isCue: to \in 0..Len(File) /\ PlayFrom(to, isCue)
      <4>1. c - 1 \in 0..Len(File)
        BY OffsetAssumption, FileAssumption
      <4> QED  BY <3>2, <4>1, Zenon
    <3> QED  BY <1>12, <3>1, <3>2 DEF Seek
  <2>2. /\ SeekFile(to) /\ within' = 0 /\ pstate' \in {"block", pstate}
        /\ playing' \in {"playing", playing} /\ seeks' = seeks + 1
        /\ seeks < MaxSeeks
        /\ UNCHANGED <<running, known, open, asking, toSkip, blockSize, block>>
        /\ UNCHANGED <<nextFrame, getting, frameVars, pauses>>
    BY <2>1 DEF PlayFrom, Restarted
  <2>3. seeks' \in 0..MaxSeeks /\ seeks' # 0
    BY <1>0, <2>2, LimitAssumption DEF DemuxOK
  <2>4. BlockOK' /\ FrameOK' /\ DemuxOK'
    BY <1>0, <2>2, <2>3 DEF frameVars, BlockOK, FrameOK, DemuxOK, ParseStates
  <2>5. StreamOK'
    BY <1>0, <2>1, <2>2, <2>3, SeekStream
  <2> QED  BY <2>4, <2>5, Parts
<1>13. CASE Close
  <2>1. /\ open' = {} /\ asking' = {} /\ playing' = "closed" /\ reading' = FALSE
        /\ UNCHANGED <<known, bank, parserVars, offset, feof, readTo, running, aborted>>
        /\ UNCHANGED <<parseVars, frameVars, limitVars>>
    BY <1>13 DEF Close
  <2>2. BlockOK' /\ FrameOK' /\ DemuxOK'
    BY <1>0, <2>1 DEF parseVars, frameVars, BlockOK, FrameOK, DemuxOK
  <2>3. Flags'
    BY <1>0, <2>1, Zenon DEF Flags, parserVars
  <2>4. Numbers' /\ Target' /\ BankIsFile'
    BY <1>0, <2>1, StreamParts DEF Numbers, Target, BankIsFile, parserVars
  <2> QED  BY <2>2, <2>3, <2>4, StreamParts, Parts
<1>14. CASE UNCHANGED vars
  <2>1. BlockOK' /\ FrameOK' /\ DemuxOK'
    BY <1>0, <1>14 DEF vars, demuxVars, parseVars, frameVars,
                       BlockOK, FrameOK, DemuxOK
  <2>2. StreamOK'
    BY <1>0, <1>14, SameBank DEF Flags, vars, streamVars, parserVars, sourceVars
  <2> QED  BY <2>1, <2>2, Parts
<1> QED
  BY <1>1, <1>2, <1>3, <1>4, <1>5, <1>6, <1>7, <1>8, <1>9, <1>10, <1>11,
     <1>12, <1>13, <1>14
  DEF Next, Parse

LEMMA InvariantIInv == Spec => []IInv
  BY InitIInv, NextIInv, PTL DEF Spec

\* A step misreads bytes, and is counted, or it does not.
LEMMA CountStep == [Next]_vars => UNCHANGED misreads \/ Misread
<1> SUFFICES ASSUME [Next]_vars
             PROVE  UNCHANGED misreads \/ Misread
  OBVIOUS
<1>1. CASE SkipRemainingHeaderBytes \/ LookForCluster \/ CopyBytes \/ SkipBytes
           \/ CompleteFrame
  BY <1>1 DEF SkipRemainingHeaderBytes, LookForCluster, CopyBytes, SkipBytes,
              CompleteFrame
<1>2. CASE LookForNextBlock
  BY <1>2 DEF LookForNextBlock, MisreadHeader, NoMoreMisread
<1>3. CASE ParseBlock
  BY <1>3 DEF ParseBlock, MisreadHead, NoMoreMisread
<1>4. CASE DeliverFrameWithinBlock
  BY <1>4 DEF DeliverFrameWithinBlock, ParseLength, MisreadLength, NoMoreMisread
<1>5. ASSUME NEW t \in Tracks, Read(t)
      PROVE  UNCHANGED misreads
  BY <1>5 DEF Read
<1>6. CASE FileReadable \/ Pause \/ Resume \/ Seek \/ Close \/ UNCHANGED vars
  BY <1>6 DEF FileReadable, Pause, Resume, Seek, PlayFrom, Close, vars
<1> QED  BY <1>1, <1>2, <1>3, <1>4, <1>5, <1>6 DEF Next, Parse

LEMMA InvariantMisreads == Spec => []MisreadsOK
<1>1. Init => MisreadsOK
  BY MisreadAssumption DEF Init, MisreadsOK
<1>2. MisreadsOK /\ [Next]_vars => MisreadsOK'
  BY CountStep, MisreadAssumption DEF MisreadsOK, Misread
<1> QED  BY <1>1, <1>2, PTL DEF Spec

\* Every variable of the demultiplexor, its parser and their file has its
\* type; the parser's positions lie in the bank, the saved one first.
THEOREM TypeCorrect == Spec => []TypeOK
<1> QED  BY Typed, InvariantIInv, InvariantMisreads, PTL

\* However the file is read, banks are swapped and parses interrupted, the
\* bank holds consecutive bytes of the file (StreamParser::ensureValidBytes1,
\* afterGettingBytes1).
THEOREM BankStaysFile == Spec => []BankIsFile
<1>1. IInv => BankIsFile
  BY DEF IInv, StreamOK
<1> QED  BY <1>1, InvariantIInv, PTL

-----------------------------------------------------------------------------
\* When the parser never needs more bytes than a bank holds.

\* The files that the parser can read whichever tracks are set up: no block
\* fills a bank, and no header is followed by a whole number of banks to skip.
BlocksFit ==
  /\ BANK_SIZE >= 3
  /\ \A p \in Positions:
       /\ File[p].kind = "id" => File[p].size < BANK_SIZE
       /\ File[p].kind = "other" =>
            \A k \in Nat \ {0}: File[p].size # k * BANK_SIZE

\* What the parser has read since it last saved its position.
Behind == cur - saved

\* The parser has saved its position recently enough.  The bound for a parser
\* at the first bytes of a block grows when the block is cut off by the end
\* of the file, which leaves the position where it was.
BehindInv ==
  /\ pstate = "block" => toSkip > 0 \/ Behind < BANK_SIZE
  /\ pstate = "parsing" => Behind <= (IF seenEOF THEN 0 ELSE 1)
                                       + (IF reading THEN 1 ELSE 0)
  /\ pstate \notin {"block", "parsing"} => Behind = 0

SkipInv ==
  /\ blockSize < BANK_SIZE
  /\ toSkip > 0 => /\ pstate = "block"
                   /\ \A k \in Nat \ {0}: toSkip # k * BANK_SIZE

\* A closed demultiplexor parses nothing.
ClosedInv == open = {} => ~running /\ ~reading

FitInv == ~aborted /\ SkipInv /\ ClosedInv /\ (open # {} => BehindInv)

\* A parse that is interrupted in a state whose BehindInv allows it.
LEMMA StarveFits ==
  ASSUME IInv, FitInv, Parsing, NEW c \in cur..Len(bank), NEW n \in Int,
         Starve(c, n), c - saved + n <= BANK_SIZE,
         c = cur \/ (c = cur + 1 /\ pstate = "parsing"),
         toSkip > 0 => c = saved
  PROVE  FitInv'
<1>0. /\ Len(bank) \in 0..BANK_SIZE /\ saved \in 0..Len(bank)
      /\ cur \in saved..Len(bank) /\ BANK_SIZE \in Nat \ {0}
      /\ BlockOK /\ Flags /\ ~reading /\ running
  BY Positioned, StreamParts DEF Flags, Parsing
<1> DEFINE gone == IF c + n > BANK_SIZE THEN saved ELSE 0
<1>1. /\ saved' = saved - gone /\ ReadMore(c, n) /\ UNCHANGED parseVars
      /\ aborted' = (c - gone + n > BANK_SIZE \/ reading)
  BY DEF Starve, ReadMore
<1>2. ~aborted'
  <2>1. ~(c - gone + n > BANK_SIZE)
    BY <1>0
  <2> QED  BY <1>0, <1>1, <2>1
<1>3. gone \in {0, saved}
  OBVIOUS
<1> HIDE DEF gone
<1>4. SkipInv'
  BY <1>1 DEF FitInv, SkipInv, parseVars
<1>5. CASE feof
  <2>1. /\ cur' = IF seenEOF THEN c - gone ELSE saved'
        /\ seenEOF' = ~seenEOF /\ running' = ~seenEOF /\ UNCHANGED reading
    BY <1>1, <1>5 DEF ReadMore, Closure, sourceVars, gone
  <2>2. ClosedInv'
    <3>1. CASE seenEOF
      BY <1>0, <2>1, <3>1 DEF ClosedInv
    <3>2. CASE ~seenEOF
      <4>1. open' = open
        BY <1>5, <3>2 DEF Starve, AtEnd, demuxVars
      <4> QED  BY <1>0, <4>1 DEF FitInv, ClosedInv
    <3> QED  BY <3>1, <3>2
  <2>3. BehindInv'
    <3>1. BehindInv
      BY <1>0 DEF FitInv, ClosedInv
    <3>2. CASE seenEOF
      <4>1. ~seenEOF' /\ ~reading'
        BY <1>0, <2>1, <3>2
      <4>2. cur' = c - gone
        BY <2>1, <3>2
      <4>3. cur' - saved' = c - saved
        BY <1>0, <1>1, <1>3, <4>2
      <4> QED  BY <1>0, <1>1, <3>1, <3>2, <4>1, <4>3
               DEF BehindInv, Behind, parseVars, BlockOK
    <3>3. CASE ~seenEOF
      <4>1. cur' = saved'
        BY <2>1, <3>3
      <4>2. cur' - saved' = 0
        BY <1>0, <1>1, <1>3, <4>1
      <4> QED  BY <1>0, <4>2 DEF BehindInv, Behind
    <3> QED  BY <3>2, <3>3
  <2> QED  BY <1>2, <1>4, <2>2, <2>3 DEF FitInv
<1>6. CASE ~feof
  <2>1. /\ reading' = TRUE /\ cur' = c - gone /\ running' = FALSE
        /\ UNCHANGED <<seenEOF, open>>
    BY <1>1, <1>6 DEF Starve, ReadMore, demuxVars, gone
  <2>2. open # {} /\ BehindInv
    BY <1>0 DEF FitInv, ClosedInv
  <2>3. cur' - saved' = c - saved
    BY <1>0, <1>1, <1>3, <2>1
  <2>4. BehindInv'
    BY <1>0, <1>1, <2>1, <2>2, <2>3
    DEF BehindInv, Behind, parseVars, BlockOK
  <2>5. ClosedInv'
    BY <2>1, <2>2 DEF ClosedInv
  <2> QED  BY <1>2, <1>4, <2>4, <2>5 DEF FitInv
<1> QED  BY <1>5, <1>6

\* A step that misreads nothing, of a parser that has misread nothing.
LEMMA NextFits ==
  ASSUME BlocksFit, IInv, FitInv, [Next]_vars, misreads = 0, UNCHANGED misreads
  PROVE  FitInv'
<1> ~Misread /\ ~NoMoreMisread
  BY MisreadAssumption DEF Misread, NoMoreMisread
<1>0. /\ Len(bank) \in 0..BANK_SIZE /\ saved \in 0..Len(bank)
      /\ cur \in saved..Len(bank) /\ BANK_SIZE \in Nat \ {0, 1, 2}
      /\ BlockOK /\ FrameOK /\ DemuxOK /\ Flags
      /\ ~aborted /\ SkipInv /\ ClosedInv
  BY Positioned, StreamParts DEF FitInv, BlocksFit
<1> USE DEF limitVars
\* While the parser runs somebody reads a track.
<1>1. ASSUME Parsing
      PROVE  running /\ ~reading /\ open # {} /\ BehindInv
  BY <1>0, <1>1 DEF Parsing, Flags, ClosedInv, FitInv
\* Steps after which the parser's position is the saved one.
<1>2. ASSUME UNCHANGED <<aborted, open, reading>>, running' => running,
             NEW k \in Int, cur' = k, saved' = k, SkipInv'
      PROVE  FitInv'
  <2>1. BehindInv'
    BY <1>0, <1>2 DEF BehindInv, Behind
  <2>2. ClosedInv'
    BY <1>0, <1>2, Zenon DEF ClosedInv
  <2> QED  BY <1>0, <1>2, <2>1, <2>2 DEF FitInv
\* Steps that only move the position forward, to one where BehindInv holds.
<1>3. ASSUME Parsing, UNCHANGED <<aborted, open, reading, running>>,
             SkipInv', BehindInv'
      PROVE  FitInv'
  BY <1>0, <1>1, <1>3, Zenon DEF FitInv, ClosedInv
<1>4. ASSUME NEW n \in Nat, Save(n), UNCHANGED open, running' => running, SkipInv'
      PROVE  FitInv'
  BY <1>0, <1>2, <1>4 DEF Save, sourceVars
\* A parse that is interrupted where it is.
<1>18. ASSUME Parsing, NEW n \in Int, Starve(cur, n), cur - saved + n <= BANK_SIZE,
              toSkip > 0 => cur = saved
       PROVE  FitInv'
  <2>1. cur \in cur..Len(bank)
    BY <1>0
  <2> QED  BY <1>18, <2>1, StarveFits
<1>5. CASE SkipRemainingHeaderBytes
  <2> DEFINE n == Least(toSkip, BANK_SIZE)
  <2>1. /\ n \in 1..BANK_SIZE /\ n <= toSkip /\ toSkip \in Nat /\ toSkip > 0
        /\ (n = BANK_SIZE \/ n = toSkip)
    BY <1>0, <1>5 DEF BlockOK, Least, SkipRemainingHeaderBytes
  <2> HIDE DEF n
  <2>2. Parsing /\ pstate = "block"
    BY <1>0, <1>5, <2>1 DEF SkipRemainingHeaderBytes, SkipInv
  <2>3. CASE Save(0) /\ UNCHANGED <<demuxVars, parseVars, frameVars, limitVars, running>>
    BY <1>0, <1>4, <2>3 DEF parseVars, demuxVars, SkipInv
  <2>4. CASE saved = cur /\ Starve(cur, n)
    BY <1>0, <1>18, <2>1, <2>2, <2>4
  <2>5. CASE /\ saved = cur /\ cur' = cur + n /\ toSkip' = toSkip - n
             /\ UNCHANGED <<bank, saved, seenEOF, sourceVars, running, aborted>>
             /\ UNCHANGED <<pstate, blockSize, block, nextFrame, within, getting>>
             /\ UNCHANGED <<demuxVars, frameVars, limitVars>>
    <3>1. ASSUME NEW k \in Nat \ {0}, toSkip' > 0
          PROVE  toSkip' # k * BANK_SIZE
      <4>1. n = BANK_SIZE
        BY <2>1, <2>5, <3>1
      <4>2. toSkip # (k + 1) * BANK_SIZE
        <5>1. k + 1 \in Nat \ {0}
          OBVIOUS
        <5> QED  BY <1>0, <2>1, <5>1, Zenon DEF SkipInv
      <4>3. (k + 1) * BANK_SIZE = k * BANK_SIZE + BANK_SIZE
        BY <1>0
      <4> QED  BY <1>0, <2>1, <2>5, <4>1, <4>2, <4>3
    <3>2. SkipInv'
      BY <1>0, <2>2, <2>5, <3>1 DEF SkipInv
    <3>3. toSkip' > 0 \/ n < BANK_SIZE
      <4>1. toSkip # 1 * BANK_SIZE
        BY <1>0, <2>1 DEF SkipInv
      <4> QED  BY <1>0, <2>1, <2>5, <4>1
    <3>4. BehindInv'
      BY <1>0, <2>1, <2>2, <2>5, <3>3 DEF BehindInv, Behind
    <3> QED  BY <1>3, <2>2, <2>5, <3>2, <3>4 DEF sourceVars, demuxVars
  <2> QED  BY <1>5, <2>3, <2>4, <2>5 DEF SkipRemainingHeaderBytes, n
<1>6. CASE LookForCluster
  <2>1. /\ Parsing /\ pstate = "cluster" /\ pstate' = "block"
        /\ UNCHANGED <<toSkip, blockSize, running, open, reading, aborted>>
        /\ (cur' = 0 /\ saved' = 0) \/ UNCHANGED <<cur, saved>>
    BY <1>6 DEF LookForCluster, SeekFile, demuxVars, parserVars, sourceVars
  <2>2. SkipInv' /\ BehindInv'
    BY <1>0, <1>1, <2>1 DEF SkipInv, BehindInv, Behind
  <2> QED  BY <1>3, <2>1, <2>2
<1>7. CASE LookForNextBlock
  <2>1. Parsing /\ toSkip = 0 /\ pstate = "block" /\ Behind < BANK_SIZE
    BY <1>1, <1>7 DEF LookForNextBlock, BehindInv
  <2>2. CASE Starve(cur, 1)
    BY <1>0, <1>18, <2>1, <2>2 DEF Behind, BlockOK
  <2>3. ASSUME NEW n \in Nat, n < BANK_SIZE, FindBlock(n)
        PROVE  FitInv'
    <3>1. SkipInv' /\ Save(1) /\ UNCHANGED <<open, running>>
      BY <1>0, <2>1, <2>3 DEF FindBlock, SkipInv, demuxVars
    <3> QED  BY <1>4, <3>1
  <2>4. ASSUME NEW n \in Nat, n > 0 => \A k \in Nat \ {0}: n # k * BANK_SIZE,
               SkipHeader(n)
        PROVE  FitInv'
    <3>1. \/ Save(1 + n) /\ toSkip' = 0
          \/ Save(1) /\ toSkip' = n
      BY <2>4 DEF SkipHeader
    <3>2. SkipInv' /\ UNCHANGED <<open, running>>
      BY <1>0, <2>1, <2>4, <3>1 DEF SkipHeader, SkipInv, demuxVars
    <3>3. PICK k \in Nat: Save(k)
      BY <3>1
    <3> QED  BY <1>4, <3>2, <3>3
  <2>5. CASE Has(1) /\ ~Starve(cur, 1)
    <3> DEFINE u == UnitAhead(1)
    <3>1. \/ u.kind = "id" /\ FindBlock(u.size)
          \/ u.kind = "other" /\ SkipHeader(u.size)
          \/ SkipHeader(0)
      BY <1>7, <2>5 DEF LookForNextBlock, MisreadHeader
    <3>2. /\ u.kind = "id" => u.size \in Nat /\ u.size < BANK_SIZE
          /\ u.kind = "other" => /\ u.size \in Nat
                                 /\ \A k \in Nat \ {0}: u.size # k * BANK_SIZE
      <4>1. bank[cur + 1] \in Bytes
        BY <2>5, Positioned, ElementOfSeq DEF Has
      <4>2. CASE bank[cur + 1] = Junk
        BY <4>2 DEF UnitAhead, Ahead
      <4>3. CASE bank[cur + 1] # Junk
        BY <4>1, <4>3, FileUnitAssumption DEF UnitAhead, Ahead, Bytes, BlocksFit
      <4> QED  BY <4>2, <4>3
    <3> HIDE DEF u
    <3> QED  BY <2>3, <2>4, <3>1, <3>2
  <2> QED  BY <1>7, <2>2, <2>5 DEF LookForNextBlock
<1>8. CASE ParseBlock
  <2> DEFINE u == UnitAhead(1)
  <2>1. /\ Parsing /\ toSkip = 0 /\ pstate = "parsing" /\ cur - saved <= 1
    <3>1. Parsing /\ toSkip = 0 /\ pstate = "parsing"
      BY <1>8 DEF ParseBlock
    <3>2. CASE seenEOF
      BY <1>0, <1>1, <3>1, <3>2 DEF BehindInv, Behind
    <3>3. CASE ~seenEOF
      BY <1>0, <1>1, <3>1, <3>3 DEF BehindInv, Behind
    <3> QED  BY <3>1, <3>2, <3>3
  <2>2. CASE Starve(cur, 1)
    BY <1>0, <1>18, <2>1, <2>2
  <2>3. CASE Has(1) /\ SkipBlock
    <3> DEFINE n == Most(1, blockSize)
    <3>1. n \in Nat /\ n >= 1 /\ n < BANK_SIZE
      BY <1>0 DEF BlockOK, SkipInv, Most
    <3> HIDE DEF n
    <3>2. CASE Starve(cur + 1, n - 1)
      <4>1. PICK c \in cur..Len(bank), m \in Int:
              c = cur + 1 /\ m = n - 1 /\ Starve(c, m)
        BY <1>0, <2>3, <3>1, <3>2 DEF Has
      <4>2. c - saved + m <= BANK_SIZE
        BY <1>0, <2>1, <3>1, <4>1
      <4>3. (c = cur \/ (c = cur + 1 /\ pstate = "parsing")) /\ (toSkip > 0 => c = saved)
        BY <2>1, <4>1
      <4> QED  BY <2>1, <4>1, <4>2, <4>3, StarveFits
    <3>3. CASE ~Starve(cur + 1, n - 1)
      <4>1. /\ Save(n) /\ UNCHANGED <<running, open, toSkip, blockSize>>
        BY <2>3, <3>3 DEF SkipBlock, demuxVars, n
      <4> QED  BY <1>0, <1>4, <2>1, <3>1, <4>1 DEF SkipInv
    <3> QED  BY <3>2, <3>3
  <2>4. CASE EnterBlock(u.track, u.sizes)
    <3>1. Save(1) /\ UNCHANGED <<toSkip, blockSize, running, open>>
      BY <2>4 DEF EnterBlock, demuxVars
    <3> QED  BY <1>0, <1>4, <2>1, <3>1 DEF SkipInv
  <2> QED  BY <1>8, <2>2, <2>3, <2>4 DEF ParseBlock, MisreadHead
<1>9. CASE DeliverFrameWithinBlock
  <2>1. Parsing /\ toSkip = 0 /\ pstate = "delivering" /\ cur = saved
    BY <1>0, <1>1, <1>9 DEF DeliverFrameWithinBlock, BehindInv, Behind
  <2>2. ASSUME NEW n, NEW header \in {0, 1}, StartFrame(n, header)
        PROVE  FitInv'
    <3>1. Save(header) /\ UNCHANGED <<toSkip, blockSize, running, open>>
      BY <2>2 DEF StartFrame, demuxVars
    <3>2. header \in Nat
      OBVIOUS
    <3> QED  BY <1>0, <1>4, <2>1, <3>1, <3>2 DEF SkipInv
  <2>3. ASSUME NEW n \in {0, 1}, Recover(n)
        PROVE  FitInv'
    <3>1. SkipInv' /\ BehindInv'
      BY <1>0, <2>1, <2>3 DEF Recover, SkipInv, BehindInv, Behind
    <3> QED  BY <1>3, <2>1, <2>3, <3>1 DEF Recover, demuxVars, sourceVars
  <2>4. CASE Starve(cur, 1)
    BY <1>0, <1>18, <2>1, <2>4
  <2>5. CASE Restore /\ running' = FALSE /\ UNCHANGED <<demuxVars, parseVars>>
    <3>1. /\ cur' = saved /\ saved' = saved /\ UNCHANGED <<aborted, open, reading>>
          /\ UNCHANGED <<toSkip, blockSize>> /\ ~running'
      BY <2>5 DEF Restore, demuxVars, parseVars, sourceVars
    <3>2. SkipInv'
      BY <1>0, <2>1, <3>1 DEF SkipInv
    <3> QED  BY <1>0, <1>2, <3>1, <3>2
  <2>6. \/ Restore /\ running' = FALSE /\ UNCHANGED <<demuxVars, parseVars>>
        \/ StartFrame(Size, 0)
        \/ Recover(0) \/ Recover(1)
        \/ Starve(cur, 1)
        \/ StartFrame(UnitAhead(1).size, 1)
    BY <1>9 DEF DeliverFrameWithinBlock, ParseLength, MisreadLength
  <2> QED  BY <2>2, <2>3, <2>4, <2>5, <2>6
<1>10. CASE CopyBytes \/ SkipBytes
  <2>1. Parsing /\ toSkip = 0 /\ pstate = "bytes" /\ cur = saved
    BY <1>0, <1>1, <1>10 DEF CopyBytes, SkipBytes, BehindInv, Behind
  <2>2. PICK n \in Nat: /\ n <= BANK_SIZE
                        /\ \/ Starve(cur, n)
                           \/ Save(n) /\ UNCHANGED <<running, toSkip, blockSize, open>>
    <3>1. /\ Least(getting.get, BANK_SIZE) \in 0..BANK_SIZE
          /\ Least(getting.skip, BANK_SIZE) \in 0..BANK_SIZE
      BY <1>0, SizeAssumption DEF FrameOK, Least
    <3> QED  BY <1>0, <1>10, <3>1 DEF CopyBytes, SkipBytes, demuxVars
  <2>3. CASE Starve(cur, n)
    BY <1>0, <1>18, <2>1, <2>2, <2>3
  <2>4. CASE Save(n) /\ UNCHANGED <<running, toSkip, blockSize, open>>
    BY <1>0, <1>4, <2>1, <2>4 DEF SkipInv
  <2> QED  BY <2>2, <2>3, <2>4
<1>11. CASE CompleteFrame
  <2>1. /\ Save(0) /\ toSkip = 0 /\ ~running' /\ UNCHANGED <<toSkip, blockSize, open>>
    BY <1>11 DEF CompleteFrame
  <2> QED  BY <1>0, <1>4, <2>1 DEF SkipInv
<1>12. ASSUME UNCHANGED <<cur, saved, seenEOF, reading, aborted, open, pstate,
                          toSkip, blockSize>>,
              running' => running \/ open # {}
       PROVE  FitInv'
  <2>1. SkipInv' /\ ClosedInv'
    BY <1>0, <1>12, Zenon DEF SkipInv, ClosedInv
  <2>2. open' # {} => BehindInv'
    BY <1>12 DEF FitInv, BehindInv, Behind
  <2> QED  BY <1>0, <1>12, <2>1, <2>2 DEF FitInv
<1>13. ASSUME NEW t \in Tracks, Read(t)
       PROVE  FitInv'
  BY <1>12, <1>13 DEF Read, parserVars, sourceVars, parseVars
<1>14. CASE Pause \/ Resume \/ UNCHANGED vars
  BY <1>12, <1>14 DEF Pause, Resume, vars, streamVars, parserVars, sourceVars,
                      parseVars, demuxVars
<1>15. CASE FileReadable
  <2>1. UNCHANGED <<saved, aborted, pstate, toSkip, blockSize>> /\ reading' = FALSE
    BY <1>15 DEF FileReadable, BytesRead, NothingRead, parseVars
  <2>2. SkipInv' /\ open # {}
    BY <1>0, <1>15, <2>1 DEF SkipInv, FileReadable, BytesRead, NothingRead, ClosedInv
  <2>3. CASE BytesRead
    <3>1. cur' = saved /\ saved' = saved /\ UNCHANGED open
      BY <1>15, <2>3 DEF FileReadable, BytesRead, NothingRead, demuxVars
    <3>2. BehindInv'
      BY <1>0, <2>1, <3>1 DEF BehindInv, Behind
    <3>3. ClosedInv'
      BY <2>2, <3>1 DEF ClosedInv
    <3> QED  BY <1>0, <2>1, <2>2, <3>2, <3>3 DEF FitInv
  <2>4. CASE NothingRead
    <3>1. /\ cur' = IF seenEOF THEN cur ELSE saved
          /\ seenEOF' = ~seenEOF /\ running' = ~seenEOF
      BY <2>1, <2>4 DEF NothingRead, Closure
    <3>2. reading
      BY <2>4 DEF NothingRead
    <3>3. BehindInv
      BY <2>2 DEF FitInv
    <3>4. CASE seenEOF
      <4>1. ~seenEOF' /\ ~running' /\ cur' = cur
        BY <3>1, <3>4
      <4>2. BehindInv'
        BY <1>0, <2>1, <3>2, <3>3, <3>4, <4>1 DEF BehindInv, Behind
      <4>3. ClosedInv'
        BY <2>1, <4>1 DEF ClosedInv
      <4> QED  BY <1>0, <2>1, <2>2, <4>2, <4>3 DEF FitInv
    <3>5. CASE ~seenEOF
      <4>1. cur' = saved /\ saved' = saved
        BY <2>1, <3>1, <3>5
      <4>2. BehindInv'
        BY <1>0, <2>1, <4>1 DEF BehindInv, Behind
      <4>3. UNCHANGED open
        BY <1>15, <2>4, <3>5 DEF FileReadable, BytesRead, NothingRead, AtEnd, demuxVars
      <4> QED  BY <1>0, <2>1, <2>2, <4>2, <4>3 DEF FitInv, ClosedInv
    <3> QED  BY <3>4, <3>5
  <2> QED  BY <1>15, <2>3, <2>4 DEF FileReadable
<1>16. CASE Seek
  <2>1. PICK to, isCue: PlayFrom(to, isCue)
    BY <1>16 DEF Seek
  <2>2. /\ cur' = 0 /\ saved' = 0 /\ pstate' \in {"block", pstate}
        /\ UNCHANGED <<aborted, open, reading, running, toSkip, blockSize>>
    BY <2>1 DEF PlayFrom, SeekFile
  <2>3. SkipInv'
    BY <1>0, <2>2 DEF SkipInv
  <2> QED  BY <1>2, <2>2, <2>3
<1>17. CASE Close
  <2>1. /\ open' = {} /\ reading' = FALSE /\ ~running
        /\ UNCHANGED <<running, aborted, toSkip, blockSize, pstate>>
    BY <1>17 DEF Close, Idle, parseVars
  <2> QED  BY <1>0, <2>1 DEF FitInv, SkipInv, ClosedInv
<1> QED
  BY <1>5, <1>6, <1>7, <1>8, <1>9, <1>10, <1>11, <1>13, <1>14, <1>15, <1>16, <1>17
  DEF Next, Parse

\* A parser that reads a file whose blocks fit does not abort before it has
\* taken bytes for what they are not: it never needs more than a bank, and
\* never starts a read while one is under way (StreamParser.cpp:142-151,
\* FramedSource::getNextFrame).
THEOREM ParserAbortsAstray == BlocksFit => (Spec => []AbortsAstray)
<1> SUFFICES ASSUME BlocksFit
             PROVE  Spec => []AbortsAstray
  OBVIOUS
<1> DEFINE Inv == misreads = 0 => FitInv
<1>1. Init => Inv
  BY InitIInv, BankAssumption DEF Init, StreamInit, FitInv, SkipInv, ClosedInv,
     BehindInv, Behind, BlocksFit
<1>2. IInv /\ MisreadsOK /\ Inv /\ [Next]_vars => Inv'
  <2> SUFFICES ASSUME IInv, MisreadsOK, Inv, [Next]_vars, misreads' = 0
               PROVE  FitInv'
    OBVIOUS
  <2>1. misreads = 0 /\ UNCHANGED misreads
    BY CountStep DEF MisreadsOK, Misread
  <2> QED  BY <2>1, NextFits
<1>3. MisreadsOK /\ Inv => AbortsAstray
  BY DEF MisreadsOK, FitInv, AbortsAstray
<1> HIDE DEF Inv
<1> QED  BY <1>1, <1>2, <1>3, InvariantIInv, InvariantMisreads, PTL DEF Spec

=============================================================================
