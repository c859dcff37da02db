--------------------------- MODULE MCMatroskaDemux ---------------------------
(***************************************************************************)
(* A small container for TLC: a video track (1) of subframes and an audio  *)
(* track (2), in blocks of one or two frames, with headers to skip between *)
(* and behind them and one audio block larger than a bank.                 *)
(***************************************************************************)
EXTENDS MatroskaDemux

Other(n) == <<[kind |-> "other", size |-> n]>> \o [i \in 1..n |-> [kind |-> "pad"]]
Data(t, n, size) == [i \in 1..size |-> [kind |-> "data", track |-> t, n |-> n]]
Sub(t, n, size) == <<[kind |-> "len", size |-> size]>> \o Data(t, n, size)

\* A block of track t with frames of these sizes; Payload is what they hold.
Block(t, sizes, payload) ==
  <<[kind |-> "id", size |-> 1 + Len(payload)],
    [kind |-> "head", track |-> t, sizes |-> sizes]>> \o payload

MCFile ==
  Other(1)
  \o Block(1, <<4>>, Sub(1, 1, 1) \o Sub(1, 2, 1))
  \o Block(2, <<1, 2>>, Data(2, 1, 1) \o Data(2, 2, 2))
  \o Other(6)
  \o Block(1, <<3>>, Sub(1, 3, 2))
  \o Block(2, <<12>>, Data(2, 3, 12))
  \o Other(6)

\* The n-th frame of track t, as much of it as its reader has room for.
FrameOf(t, n) ==
  LET at == SelectSeq([i \in 1..Len(File) |-> i],
                      LAMBDA i: File[i].kind = "data" /\ File[i].track = t
                                                      /\ File[i].n = n)
  IN  SubSeq(at, 1, Least(Len(at), MaxSize))

MCLog == [t \in {1, 2} |-> [n \in 1..3 |-> FrameOf(t, n)]]

Owed == IF pstate = "bytes" THEN {block.track} \ asking ELSE {}

R == INSTANCE TrackReading WITH
       Log <- MCLog, owed <- Owed, jumped <- seeks > 0

\* The readers of the tracks are served as TrackReading says: however the
\* bytes arrive and the tracks take turns, every frame is handed over whole,
\* in order and on request (deliverFrameWithinBlock, deliverFrameBytes, and
\* StreamParser's banks and saved positions under them).
ImplementsReading == R!Spec
=============================================================================
