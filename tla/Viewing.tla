------------------------------ MODULE Viewing ------------------------------
(***************************************************************************)
(* What a run of RTSPReceiver promises its user: it opens tracks, plays    *)
(* them all at once, and while it plays some track is still open; closing  *)
(* the last one ends it.  No track is ever opened again, and nothing is    *)
(* open once it is over.                                                   *)
(***************************************************************************)
CONSTANTS Viewers, Tracks

VARIABLES
  phase,  \* "opening", "playing" or "over"
  open,   \* the tracks with an open sink
  opened  \* the tracks that ever had one

vars == <<phase, open, opened>>

Init ==
  /\ phase  = [c \in Viewers |-> "opening"]
  /\ open   = [c \in Viewers |-> {}]
  /\ opened = [c \in Viewers |-> {}]

\* One more track is set up; the last one may make it play at once.
Open(c) ==
  /\ phase[c] = "opening"
  /\ \E t \in Tracks \ opened[c] :
       /\ open'   = [open EXCEPT ![c] = @ \cup {t}]
       /\ opened' = [opened EXCEPT ![c] = @ \cup {t}]
  /\ phase' \in {phase, [phase EXCEPT ![c] = "playing"]}

Start(c) ==
  /\ phase[c] = "opening" /\ open[c] # {}
  /\ phase' = [phase EXCEPT ![c] = "playing"]
  /\ UNCHANGED <<open, opened>>

Close(c) ==
  /\ phase[c] = "playing"
  /\ \E t \in open[c] :
       /\ open'  = [open EXCEPT ![c] = @ \ {t}]
       /\ phase' = [phase EXCEPT ![c] = IF open[c] = {t} THEN "over" ELSE @]
  /\ UNCHANGED opened

End(c) ==
  /\ phase[c] # "over"
  /\ phase' = [phase EXCEPT ![c] = "over"]
  /\ open'  = [open EXCEPT ![c] = {}]
  /\ UNCHANGED opened

Next == \E c \in Viewers : Open(c) \/ Start(c) \/ Close(c) \/ End(c)

Spec == Init /\ [][Next]_vars
=============================================================================
