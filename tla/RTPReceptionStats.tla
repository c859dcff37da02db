-------------------------- MODULE RTPReceptionStats --------------------------
(***************************************************************************)
(* What a receiver counts of the packets of one sender                     *)
(* (RTPReceptionStats) and reports of them (RTCPInstance).  Sequence       *)
(* numbers wrap around after CYCLE packets, 2^16 in the code; here they    *)
(* are extended by the number of the cycle.                                *)
(***************************************************************************)
EXTENDS Integers

CONSTANT CYCLE

ASSUME CycleAssumption == CYCLE \in Nat /\ CYCLE > 1 /\ CYCLE % 2 = 0

VARIABLES
  seen,       \* fHaveSeenInitialSequenceNumber
  base,       \* fBaseExtSeqNumReceived
  highest,    \* fHighestExtSeqNumReceived
  total,      \* fTotNumPacketsReceived
  sinceReset, \* fNumPacketsReceivedSinceLastReset
  lastReset,  \* fLastResetExtSeqNumReceived
  fraction    \* lossFraction of the last report

statsVars == <<seen, base, highest, total, sinceReset, lastReset, fraction>>

StatsTypeOK ==
  /\ seen \in BOOLEAN
  /\ base \in Nat /\ highest \in Nat /\ base <= highest
  /\ total \in Nat /\ sinceReset \in 0..total
  /\ lastReset \in 0..highest /\ fraction \in 0..255

\* init() undoes the initSeqNum() before it; the first packet does it again,
\* after fLastResetExtSeqNumReceived has been set to 0.
StatsInit ==
  /\ seen = FALSE /\ base = 0 /\ highest = 0
  /\ total = 0 /\ sinceReset = 0 /\ lastReset = 0 /\ fraction = 0

SeqNumLT(s, t) == s # t /\ (t - s) % CYCLE < CYCLE \div 2

\* The number of the cycle of the highest number, moved by d cycles.
Extended(s, high, d) == (high \div CYCLE + d) * CYCLE + s

\* Mutant: an old packet is taken to be of the present cycle.
NoteInPresentCycle(s) ==
  LET high == IF seen THEN highest ELSE CYCLE + s
      low  == IF seen THEN base ELSE CYCLE + s
      old  == high % CYCLE
      new  == Extended(s, high, IF SeqNumLT(old, s) /\ s < old THEN 1 ELSE 0)
  IN  /\ highest' = IF SeqNumLT(old, s) /\ new > high THEN new ELSE high
      /\ base' = IF ~SeqNumLT(old, s) /\ total > 0 /\ new < low THEN new ELSE low
      /\ seen' = TRUE
      /\ total' = total + 1 /\ sinceReset' = sinceReset + 1
      /\ UNCHANGED <<lastReset, fraction>>

\* noteIncomingPacket(): a number ahead of the highest, or behind it, and in
\* the next or in the last cycle if the numbers themselves are the other way
\* round.
NoteIncomingPacket(s) ==
  LET high == IF seen THEN highest ELSE CYCLE + s
      low  == IF seen THEN base ELSE CYCLE + s
      old  == high % CYCLE
      ahead == Extended(s, high, IF s - old < 0 THEN 1 ELSE 0)
      behind == Extended(s, high, IF s - old >= CYCLE \div 2 THEN -1 ELSE 0)
  IN  /\ IF SeqNumLT(old, s)
         THEN /\ highest' = IF ahead > high THEN ahead ELSE high
              /\ base' = low
         ELSE /\ highest' = high
              /\ base' = IF total > 0 /\ behind < low THEN behind ELSE low
      /\ seen' = TRUE
      /\ total' = total + 1 /\ sinceReset' = sinceReset + 1
      /\ UNCHANGED <<lastReset, fraction>>

\* enqueueReportBlock() and reset(), if there was a packet since the last.
Report ==
  /\ sinceReset > 0
  /\ LET expected == highest - lastReset
         lost == expected - sinceReset
     IN  fraction' = IF expected = 0 \/ lost < 0 THEN 0
                     ELSE ((lost * 256) \div expected) % 256
  /\ sinceReset' = 0
  /\ lastReset' = highest
  /\ UNCHANGED <<seen, base, highest, total>>
=============================================================================
