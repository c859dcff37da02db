---------------------------- MODULE TrackReading ----------------------------
(***************************************************************************)
(* What a demultiplexor promises the readers of its tracks: each gets the  *)
(* frames of its track, whole, in order and one for each request.  A frame *)
(* is lost only if its reader withdraws the request that it was to answer, *)
(* and no track ends before its last frame.  After a jump in the file      *)
(* nothing more is promised.                                               *)
(***************************************************************************)
EXTENDS Naturals, Sequences

CONSTANTS Tracks, Log   \* Log[t]: the frames of track t

VARIABLES
  open,    \* the tracks that can be read
  asking,  \* the tracks whose reader waits for a frame
  owed,    \* the tracks whose reader has withdrawn a request that is served
  taken,   \* how many frames of a track are gone
  frame,   \* the last frame each reader got
  jumped

vars == <<open, asking, owed, taken, frame, jumped>>

Init ==
  /\ open \in (SUBSET Tracks) \ {{}}
  /\ asking = {} /\ owed = {}
  /\ taken = [t \in Tracks |-> 0]
  /\ frame = [t \in Tracks |-> <<>>]
  /\ jumped = FALSE

Ask(t) ==
  /\ t \in open \ asking
  /\ asking' = asking \cup {t}
  /\ owed' = owed \ {t}
  /\ UNCHANGED <<open, taken, frame, jumped>>

Deliver(t) ==
  /\ t \in asking /\ taken[t] < Len(Log[t])
  /\ frame' = [frame EXCEPT ![t] = Log[t][taken[t] + 1]]
  /\ taken' = [taken EXCEPT ![t] = @ + 1]
  /\ asking' = asking \ {t}
  /\ UNCHANGED <<open, owed, jumped>>

Withdraw ==
  /\ asking' = {}
  /\ owed' \in SUBSET (asking \cup owed)
  /\ UNCHANGED <<open, taken, frame, jumped>>

Lose(t) ==
  /\ t \in owed /\ taken[t] < Len(Log[t])
  /\ taken' = [taken EXCEPT ![t] = @ + 1]
  /\ owed' = owed \ {t}
  /\ UNCHANGED <<open, asking, frame, jumped>>

End ==
  /\ \A t \in open: taken[t] = Len(Log[t])
  /\ asking' = {} /\ owed' = {}
  /\ open' \in {open, {}}
  /\ UNCHANGED <<taken, frame, jumped>>

Close ==
  /\ open' = {} /\ asking' = {} /\ owed' \subseteq owed \cup asking
  /\ UNCHANGED <<taken, frame, jumped>>

Jump ==
  /\ jumped' = TRUE
  /\ UNCHANGED <<open, asking, taken, frame>>

Anything == jumped /\ jumped'

Next ==
  \/ \E t \in Tracks: Ask(t) \/ Deliver(t) \/ Lose(t)
  \/ Withdraw \/ End \/ Close \/ Jump \/ Anything

Spec == Init /\ [][Next]_vars
=============================================================================
