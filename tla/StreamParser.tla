---------------------------- MODULE StreamParser ----------------------------
(***************************************************************************)
(* The byte buffer under LIVE555's parsers (StreamParser) and the file it  *)
(* reads through the event loop (ByteStreamFileSource).                    *)
(*                                                                         *)
(* A parser runs until it needs bytes the buffer does not hold.  It then   *)
(* asks the file for more and gives up by an exception; when the bytes     *)
(* are there it starts again at the position it last saved.  The file is a *)
(* sequence of units, each the bytes of one header or one byte of a frame; *)
(* the bank holds their positions, Junk where it holds left-over bytes.    *)
(***************************************************************************)
EXTENDS Integers, Sequences

CONSTANTS
  File,      \* the container, a sequence of units
  BANK_SIZE  \* how many units fit in a bank

ASSUME BankAssumption == BANK_SIZE \in Nat \ {0}
ASSUME FileAssumption == Len(File) \in Nat

VARIABLES
  bank,      \* what the current bank holds: fTotNumValidBytes positions
  cur,       \* fCurParserIndex
  saved,     \* fSavedParserIndex
  seenEOF,   \* fHaveSeenEOF
  offset,    \* how much of the file has been read
  feof,      \* the file's end-of-file mark
  reading,   \* a read of the file is under way: it is watched for input
  readTo,    \* where in the bank that read will put its bytes
  running,   \* continueParsing() is running
  aborted    \* internalError(): the program has aborted

parserVars == <<cur, saved, seenEOF>>
sourceVars == <<offset, feof, reading, readTo>>
streamVars == <<bank, parserVars, sourceVars, running, aborted>>

Junk == 0
Positions == 1..Len(File)

StreamTypeOK ==
  /\ bank \in Seq(Positions \cup {Junk}) /\ Len(bank) <= BANK_SIZE
  /\ saved \in 0..Len(bank) /\ cur \in saved..Len(bank)
  /\ seenEOF \in BOOLEAN /\ feof \in BOOLEAN
  /\ reading \in BOOLEAN /\ running \in BOOLEAN /\ aborted \in BOOLEAN
  /\ offset \in 0..Len(File)
  /\ readTo \in 0..BANK_SIZE

StreamInit ==
  /\ bank = <<>> /\ cur = 0 /\ saved = 0
  /\ seenEOF = FALSE /\ feof = FALSE
  /\ offset = 0 /\ reading = FALSE /\ readTo = 0
  /\ running = FALSE /\ aborted = FALSE

\* ensureValidBytes(n) returns at once, and the i-th byte it ensures.
Has(n) == cur + n <= Len(bank)
Ahead(i) == bank[cur + i]

UnitAhead(i) ==
  IF Ahead(i) = Junk THEN [kind |-> "junk"] ELSE File[Ahead(i)]

\* setParseState() after n more units.
Save(n) ==
  /\ cur' = cur + n
  /\ saved' = cur + n
  /\ UNCHANGED <<bank, seenEOF, sourceVars, aborted>>

\* restoreSavedParserState()
Restore ==
  /\ cur' = saved
  /\ UNCHANGED <<bank, saved, seenEOF, sourceVars, aborted>>

\* onInputClosure1(): the first time parse again what is left, as if 0 bytes
\* had come; the second time the owner is told (AtEnd), with no restore.
Closure(c) ==
  /\ cur' = IF seenEOF THEN c ELSE saved'
  /\ seenEOF' = ~seenEOF
  /\ running' = ~seenEOF

AtEnd == seenEOF

\* Mutant: the other bank gets the first bytes of the old one, not those from
\* the saved position on.
CopyFromStart(c, n) ==
  LET gone == IF c + n > BANK_SIZE THEN saved ELSE 0
  IN  /\ bank' = SubSeq(bank, 1, Len(bank) - gone)
      /\ saved' = saved - gone
      /\ aborted' = (c - gone + n > BANK_SIZE \/ reading)
      /\ IF feof
         THEN Closure(c - gone) /\ UNCHANGED sourceVars
         ELSE /\ reading' = TRUE /\ readTo' = Len(bank')
              /\ cur' = c - gone /\ running' = FALSE
              /\ UNCHANGED <<seenEOF, offset, feof>>

\* Mutant: the saved position is not moved with the bytes it points at.
SavedStays(c, n) ==
  LET gone == IF c + n > BANK_SIZE THEN saved ELSE 0
  IN  /\ bank' = SubSeq(bank, gone + 1, Len(bank))
      /\ saved' = saved
      /\ aborted' = (c - gone + n > BANK_SIZE \/ reading)
      /\ IF feof
         THEN Closure(c - gone) /\ UNCHANGED sourceVars
         ELSE /\ reading' = TRUE /\ readTo' = Len(bank')
              /\ cur' = c - gone /\ running' = FALSE
              /\ UNCHANGED <<seenEOF, offset, feof>>

\* ensureValidBytes1(n) at c: on to the other bank, with the bytes from the
\* saved position on, when the n units would not fit in this one; then ask
\* the file for as many as the bank will take.  A file that has hit its end
\* says so from inside the call.
ReadMore(c, n) ==
  LET gone == IF c + n > BANK_SIZE THEN saved ELSE 0
  IN  /\ bank' = SubSeq(bank, gone + 1, Len(bank))
      /\ saved' = saved - gone
      /\ aborted' = (c - gone + n > BANK_SIZE \/ reading)
      /\ IF feof
         THEN Closure(c - gone) /\ UNCHANGED sourceVars
         ELSE /\ reading' = TRUE /\ readTo' = Len(bank')
              /\ cur' = c - gone /\ running' = FALSE
              /\ UNCHANGED <<seenEOF, offset, feof>>

\* What is left of the file, up to the room the read was given.
Readable == IF Len(File) - offset < BANK_SIZE - readTo
            THEN Len(File) - offset ELSE BANK_SIZE - readTo

\* doReadFromFile() and afterGettingBytes1(): the read puts its bytes where
\* it was told to when it began; they count from where the bank ends now.
BytesRead ==
  /\ reading /\ ~aborted /\ Readable > 0
  /\ bank' = bank \o [i \in 1..Readable |->
                        LET at == Len(bank) + i - readTo
                        IN  IF at >= 1 THEN offset + at ELSE Junk]
  /\ offset' = offset + Readable
  /\ feof' = (Readable < BANK_SIZE - readTo)
  /\ reading' = FALSE
  /\ cur' = saved
  /\ running' = TRUE
  /\ UNCHANGED <<saved, seenEOF, readTo, aborted>>

\* A read that gets nothing closes the source.
NothingRead ==
  /\ reading /\ ~aborted /\ Readable = 0
  /\ feof' = TRUE
  /\ reading' = FALSE
  /\ UNCHANGED <<bank, saved, offset, readTo, aborted>>
  /\ Closure(cur)

\* seekToByteAbsolute(to) and flushInput(): a read under way stays so.
SeekFile(to) ==
  /\ offset' = to
  /\ feof' = FALSE
  /\ bank' = <<>> /\ cur' = 0 /\ saved' = 0
  /\ UNCHANGED <<seenEOF, reading, readTo, aborted>>
=============================================================================
