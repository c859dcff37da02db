------------------------------ MODULE Alarms ------------------------------
(***************************************************************************)
(* What scheduleDelayedTask promises, without any queue: a task runs once, *)
(* not before its delay has passed, one task at a time, and the one that   *)
(* is due first goes first, as far as the clock can be trusted.            *)
(***************************************************************************)
EXTENDS Integers

CONSTANTS
  Tasks,   \* delayed tasks, identified by their tokens
  NoTask,  \* stands for none of them
  Slack    \* how far the system's clock may be set back altogether

VARIABLES
  now,     \* the time that really passes
  due,     \* when each task is due, or NotPending
  running  \* the task that is running, or NoTask

vars == <<now, due, running>>

NotPending == -1

Init ==
  /\ now = 0
  /\ due = [t \in Tasks |-> NotPending]
  /\ running = NoTask

Pending == {t \in Tasks : due[t] # NotPending}

Tick == now' = now + 1 /\ UNCHANGED <<due, running>>

Schedule(t) ==
  /\ t \notin Pending
  /\ due'[t] \in Nat /\ due'[t] >= now
  /\ due' = [due EXCEPT ![t] = due'[t]]
  /\ UNCHANGED <<now, running>>

Cancel(t) ==
  /\ t \in Pending
  /\ due' = [due EXCEPT ![t] = NotPending]
  /\ UNCHANGED <<now, running>>

Run(t) ==
  /\ running = NoTask
  /\ t \in Pending /\ due[t] <= now
  /\ \A u \in Pending : due[t] <= due[u] + Slack
  /\ running' = t
  /\ due' = [due EXCEPT ![t] = NotPending]
  /\ UNCHANGED now

Finish ==
  /\ running # NoTask
  /\ running' = NoTask
  /\ UNCHANGED <<now, due>>

Next ==
  \/ Tick
  \/ \E t \in Tasks : Schedule(t) \/ Cancel(t) \/ Run(t)
  \/ Finish

Spec == Init /\ [][Next]_vars
=============================================================================
