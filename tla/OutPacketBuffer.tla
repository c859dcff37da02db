--------------------------- MODULE OutPacketBuffer ---------------------------
(***************************************************************************)
(* The memory in which a sink builds its packets (OutPacketBuffer).  What  *)
(* a packet has no room for stays behind it as overflow data; the next     *)
(* packet begins so that this data need not be moved, or is moved to.      *)
(* Memory is counted in units: a header, or a piece of a frame.            *)
(***************************************************************************)
EXTENDS Integers, Sequences

CONSTANTS
  MAX,        \* fMax, the largest packet
  PREFERRED,  \* fPreferred: a packet of this size is sent
  LIMIT       \* fLimit, the size of the memory

ASSUME PacketAssumption ==
  /\ MAX \in Nat \ {0} /\ LIMIT \in Nat /\ LIMIT >= 2 * MAX
  /\ PREFERRED \in 1..MAX

VARIABLES
  buf,         \* fBuf
  start,       \* fPacketStart
  off,         \* fCurOffset, from start
  overOffset,  \* fOverflowDataOffset, from start
  overSize     \* fOverflowDataSize

bufferVars == <<buf, start, off, overOffset, overSize>>

\* Units: nothing written yet, the RTP and payload-format headers, the header
\* of a frame of k units, and the i-th unit of the n-th frame.
Hole == <<0, 0>>
Header == <<0, 1>>
FrameHeader(k) == <<-1, k>>
Data(n, i) == <<n, i>>

BufferTypeOK ==
  /\ DOMAIN buf = 0..(LIMIT - 1)
  /\ start \in Nat /\ off \in Nat /\ start + off <= LIMIT
  /\ overOffset \in Nat /\ overSize \in Nat
  /\ overSize > 0 => start + overOffset + overSize <= LIMIT

BufferInit ==
  /\ buf = [a \in 0..(LIMIT - 1) |-> Hole]
  /\ start = 0 /\ off = 0 /\ overOffset = 0 /\ overSize = 0

BytesAvailable == LIMIT - (start + off)
WouldOverflow(n) == off + n > MAX
\* Of the packet with n more units.
IsPreferredSize(n) == off + n >= PREFERRED

\* The memory with units put at an offset of the packet, as far as it goes.
Written(at, units) ==
  [a \in DOMAIN buf |-> IF a - start - at \in 0..(Len(units) - 1)
                        THEN units[a - start - at + 1] ELSE buf[a]]

\* The units of the packet from one offset to before another.
Units(from, to) == [i \in 1..(to - from) |-> buf[start + from + i - 1]]

\* useOverflowData() at offset at: a move within the memory.
Moved(at) == Written(at, Units(overOffset, overOffset + overSize))

\* Mutant: the overflow data is looked for where it was before.
StayBehind(headers) ==
  IF overSize > 0 /\ BytesAvailable > LIMIT \div 2
  THEN /\ start' = start + off - headers
       /\ UNCHANGED overOffset
  ELSE /\ start' = 0
       /\ overOffset' = IF overSize > 0 THEN overOffset + start ELSE overOffset

\* A packet is done with: the next begins just before the overflow data,
\* leaving room for its headers, or at the start of the memory.
NextPacketStart(headers) ==
  IF overSize > 0 /\ BytesAvailable > LIMIT \div 2
  THEN /\ start' = start + off - headers
       /\ overOffset' = overOffset - (off - headers)
  ELSE /\ start' = 0
       /\ overOffset' = IF overSize > 0 THEN overOffset + start ELSE overOffset
=============================================================================
