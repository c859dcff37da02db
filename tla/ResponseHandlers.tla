------------------------- MODULE ResponseHandlers -------------------------
(***************************************************************************)
(* What an RTSPClient promises to those who send requests, without any     *)
(* queue or connection: a response handler is called at most once, with    *)
(* the answer to its own request when that has arrived, or with an error.  *)
(* The exception is a search for the handler that goes past the right one: *)
(* then another request, too, never hears of its answer.                   *)
(***************************************************************************)
EXTENDS Naturals

CONSTANT Requests

VARIABLES
  told,     \* what became of each request
  received  \* requests whose answer has arrived

vars == <<told, received>>

Init ==
  /\ told = [r \in Requests |-> "new"]
  /\ received = {}

\* A request may fail at once.
Ask(r) ==
  /\ told[r] = "new"
  /\ told' = [told EXCEPT ![r] = "asked"] \/ told' = [told EXCEPT ![r] = "error"]
  /\ UNCHANGED received

\* Nobody answers what was not asked.
Arrive ==
  /\ \E new \in SUBSET {r \in Requests : told[r] \notin {"new", "answered"}} :
       received' = received \cup new
  /\ UNCHANGED told

Outcomes == {"answered", "error", "dropped", "mistaken"}

Becomes(o) == {r \in Requests : told[r] = "asked" /\ told'[r] = o}
Called     == Becomes("answered") \cup Becomes("error") \cup Becomes("mistaken")

\* One handler is called; others may never be.
Settle ==
  /\ told' \in [Requests -> Outcomes \cup {"new", "asked"}]
  /\ \A r \in Requests : told'[r] # told[r] => told[r] = "asked" /\ told'[r] \in Outcomes
  /\ \A r, s \in Called : r = s
  /\ Becomes("answered") \subseteq received
  /\ Becomes("mistaken") # {} => Becomes("dropped") # {}
  /\ UNCHANGED received

Next == (\E r \in Requests : Ask(r)) \/ Arrive \/ Settle

Spec == Init /\ [][Next]_vars
=============================================================================
