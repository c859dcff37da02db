---------------------------- MODULE VideoGrant ----------------------------
(***************************************************************************)
(* What the UDP negotiation promises, with no datagram in sight: a client  *)
(* wishes for one video, a server grants one client its wish, and a client *)
(* is told "Streaming" only once some server has granted it its wish.      *)
(* Nothing is ever taken back.                                             *)
(***************************************************************************)
CONSTANTS Clients, Servers, Videos, None

VARIABLES
  wish,   \* the video each client's user chose, if any
  grant,  \* the client and the video each server has committed itself to
  told    \* the clients that were told "Streaming"

vars == <<wish, grant, told>>

GrantOf(c, v) == [client |-> c, video |-> v]

\* Two values of its own stand for "no grant": no client, no video.
NoGrant == GrantOf(None, None)

Init ==
  /\ wish  = [c \in Clients |-> None]
  /\ grant = [s \in Servers |-> NoGrant]
  /\ told  = {}

\* A user chooses, once.
Choose(c) ==
  /\ wish[c] = None
  /\ \E v \in Videos : wish' = [wish EXCEPT ![c] = v]
  /\ UNCHANGED <<grant, told>>

\* A server grants a wish, once.
Commit(s) ==
  /\ grant[s] = NoGrant
  /\ \E c \in Clients :
       /\ wish[c] # None
       /\ grant' = [grant EXCEPT ![s] = GrantOf(c, wish[c])]
  /\ UNCHANGED <<wish, told>>

\* A client hears of a grant.
Tell(c) ==
  /\ \E s \in Servers : grant[s].client = c
  /\ told' = told \cup {c}
  /\ UNCHANGED <<wish, grant>>

Next ==
  \/ \E c \in Clients : Choose(c) \/ Tell(c)
  \/ \E s \in Servers : Commit(s)

Spec == Init /\ [][Next]_vars
=============================================================================
