------------------------ MODULE BasicTaskScheduler ------------------------
(***************************************************************************)
(* The event loop that drives all three programs.  A turn (SingleStep)     *)
(* sleeps in select() until a socket is readable or the next task is due,  *)
(* calls the handler of one socket, and runs one task that is overdue.     *)
(* Handlers and tasks run to their end, and may schedule and unschedule    *)
(* tasks and add, remove or exchange sockets.                              *)
(***************************************************************************)
EXTENDS DelayQueue

CONSTANTS
  Tasks,       \* delayed tasks, identified by their tokens
  Sockets,     \* socket numbers
  Delays,      \* the delays that are asked for
  MaxSleep,    \* MAX_TV_SEC: the longest that select() sleeps
  MaxTime,     \* bound on the time
  MaxJump,     \* bound on the time by which the clock is set back
  MaxChanges   \* bound on sockets added, removed or exchanged

ASSUME SchedulerAssumption ==
  /\ Tasks \cap {"main", "socket", "none"} = {}
  /\ Sockets \subseteq Nat /\ Delays \subseteq Nat
  /\ MaxSleep \in Nat \ {0}
  /\ MaxTime \in Nat /\ MaxJump \in Nat /\ MaxChanges \in Nat

VARIABLES
  pc,          \* "loop", in "select", calling "sockets", or handling "alarm"
  running,     \* a task, "main" before the loop, a handler of a "socket", "none"
  wake,        \* when select() returns at the latest
  handlers,    \* socket numbers in the order of the HandlerSet
  numSockets,  \* fMaxNumSockets
  last,        \* fLastHandledSocketNum
  ready,       \* sockets that are readable
  readSet,     \* those that select() found readable
  due,         \* when each task is due, or NotPending
  changes      \* sockets added, removed or exchanged so far

loopVars   == <<pc, running, wake, readSet>>
socketVars == <<handlers, numSockets, ready, changes>>
vars == <<queueVars, clockVars, loopVars, socketVars, last, due>>

NotPending == -1
NoSocket == -1

Registered == ToSet(handlers)
Pending == {t \in Tasks : due[t] # NotPending}
InHandler == running # "none"

Init ==
  /\ QueueInit
  /\ pc = "loop" /\ running = "main" /\ wake = 0 /\ readSet = {}
  /\ handlers = <<>> /\ numSockets = 0 /\ ready = {} /\ changes = 0
  /\ last = NoSocket
  /\ due = [t \in Tasks |-> NotPending]

(***************************************************************************)
(* What handlers do.                                                       *)
(***************************************************************************)

\* Delays that end after MaxTime are not asked for.
Schedule(t, delay) ==
  /\ InHandler /\ t \notin Pending
  /\ delay = 0 \/ now + delay <= MaxTime
  /\ AddEntry(t, delay)
  /\ due' = [due EXCEPT ![t] = now + delay]
  /\ UNCHANGED <<clockVars, loopVars, socketVars, last>>

Unschedule(t) ==
  /\ InHandler
  /\ RemoveEntry(t)
  /\ due' = [due EXCEPT ![t] = NotPending]
  /\ UNCHANGED <<clockVars, loopVars, socketVars, last>>

Change ==
  /\ InHandler
  /\ changes < MaxChanges /\ changes' = changes + 1
  /\ UNCHANGED <<queueVars, clockVars, loopVars, last, due>>

\* A handler that is set again stays where it is in the list.
SetBackgroundHandling(s) ==
  /\ Change
  /\ handlers' = IF s \in Registered THEN handlers ELSE <<s>> \o handlers
  /\ numSockets' = Max({numSockets, s + 1})
  /\ UNCHANGED ready

\* Mutant: the number of sockets shrinks with every socket that goes.
ShrinkAlways(s) ==
  /\ Change
  /\ handlers' = RemoveFirst(handlers, s)
  /\ numSockets' = IF numSockets > 0 THEN numSockets - 1 ELSE 0
  /\ ready' = ready \ {s}

\* The socket is closed next.
ClearBackgroundHandling(s) ==
  /\ Change
  /\ handlers' = RemoveFirst(handlers, s)
  /\ numSockets' = IF numSockets = s + 1 THEN s ELSE numSockets
  /\ ready' = ready \ {s}

\* The old socket is closed; the new one has just been opened.
MoveSocketHandling(old, new) ==
  /\ Change
  /\ old # new /\ new \notin Registered
  /\ handlers' = [i \in DOMAIN handlers |->
                    IF handlers[i] = old THEN new ELSE handlers[i]]
  /\ numSockets' = Max({IF numSockets = old + 1 THEN old ELSE numSockets,
                        new + 1})
  /\ ready' = ready \ {old}

Return ==
  /\ InHandler
  /\ running' = "none"
  /\ UNCHANGED <<queueVars, clockVars, pc, wake, readSet, socketVars, last, due>>

(***************************************************************************)
(* SingleStep.  There are no event triggers: none of the programs makes    *)
(* one.                                                                    *)
(***************************************************************************)

\* How long select() may sleep.
TimeToDelay ==
  IF Refreshed = <<>> THEN MaxSleep ELSE Min({MaxSleep, Refreshed[1].delay})

Sleep ==
  /\ pc = "loop" /\ ~InHandler
  /\ Refresh /\ queue' = Refreshed
  /\ wake' = now + TimeToDelay
  /\ pc' = "select"
  /\ UNCHANGED <<clockVars, running, readSet, socketVars, last, due>>

Readable == {s \in Registered : s < numSockets /\ s \in ready}

\* select() returns; if a signal interrupted it, it left all sockets set.
Select ==
  /\ pc = "select"
  /\ \/ (now >= wake \/ Readable # {}) /\ readSet' = Readable
     \/ readSet' = Registered
  /\ pc' = "sockets"
  /\ UNCHANGED <<queueVars, clockVars, running, wake, socketVars, last, due>>

\* Mutant: the search always begins with the first handler.
FromTheFirst == handlers

\* Where the search for a handler goes: on from the last one called, and
\* then from the beginning.
SearchOrder ==
  IF last \in Registered
  THEN SubSeq(handlers, SelectInSeq(handlers, LAMBDA s : s = last) + 1,
              Len(handlers)) \o handlers
  ELSE handlers

\* The handler reads what there is, or leaves some of it for later.
HandleSocket ==
  /\ pc = "sockets" /\ pc' = "alarm"
  /\ LET found == SelectInSeq(SearchOrder, LAMBDA s : s \in readSet)
     IN  IF found = 0
         THEN last' = NoSocket /\ UNCHANGED <<running, ready>>
         ELSE /\ last' = SearchOrder[found]
              /\ running' = "socket"
              /\ \/ UNCHANGED ready
                 \/ ready' = ready \ {last'}
  /\ readSet' = {}
  /\ UNCHANGED <<queueVars, clockVars, wake, handlers, numSockets, changes, due>>

\* The entry leaves the queue before its task runs.
HandleAlarm ==
  /\ pc = "alarm" /\ ~InHandler
  /\ pc' = "loop"
  /\ Refresh
  /\ IF Refreshed # <<>> /\ Refreshed[1].delay = 0
     THEN /\ queue' = Removed(Refreshed, 1)
          /\ running' = Refreshed[1].task
          /\ due' = [due EXCEPT ![Refreshed[1].task] = NotPending]
     ELSE queue' = Refreshed /\ UNCHANGED <<running, due>>
  /\ UNCHANGED <<clockVars, wake, readSet, socketVars, last>>

(***************************************************************************)
(* The world outside: time passes anywhere, also in handlers.              *)
(***************************************************************************)

PassTime ==
  /\ now < MaxTime + MaxJump
  /\ Tick
  /\ UNCHANGED <<queueVars, loopVars, socketVars, last, due>>

ClockBack ==
  /\ jumped < MaxJump
  /\ SetClockBack
  /\ UNCHANGED <<queueVars, loopVars, socketVars, last, due>>

Arrive(s) ==
  /\ s \in Registered \ ready
  /\ ready' = ready \cup {s}
  /\ UNCHANGED <<queueVars, clockVars, loopVars, handlers, numSockets, changes,
                 last, due>>

Loop == Sleep \/ Select \/ HandleSocket \/ HandleAlarm

Next ==
  \/ \E t \in Tasks : Unschedule(t) \/ \E delay \in Delays : Schedule(t, delay)
  \/ \E s \in Sockets : SetBackgroundHandling(s)
  \/ \E s \in Sockets : ClearBackgroundHandling(s)
  \/ \E old, new \in Sockets : MoveSocketHandling(old, new)
  \/ Return
  \/ Loop
  \/ PassTime
  \/ ClockBack
  \/ \E s \in Sockets : Arrive(s)

Spec == Init /\ [][Next]_vars

\* Time passes, handlers return, and the loop turns.
Fairness == WF_vars(Loop) /\ WF_vars(Return) /\ WF_vars(PassTime)

FairSpec == Spec /\ Fairness

(***************************************************************************)
(* Properties.                                                             *)
(***************************************************************************)

\* Every variable has its type; no delay is ever negative, and each pending
\* task has one entry.
TypeOK ==
  /\ QueueTypeOK(Tasks)
  /\ Len(queue) = Cardinality(Pending)
  /\ pc \in {"loop", "select", "sockets", "alarm"}
  /\ running \in Tasks \cup {"main", "socket", "none"}
  /\ wake \in Nat
  /\ handlers \in Seq(Sockets) /\ IsInjective(handlers)
  /\ numSockets \in Nat /\ changes \in 0..MaxChanges
  /\ last \in Sockets \cup {NoSocket}
  /\ ready \subseteq Sockets /\ readSet \subseteq Sockets
  /\ due \in [Tasks -> Nat \cup {NotPending}]

\* A task runs once, not too early, and in the order of the deadlines as far
\* as the clock was not set back: the relative delays of DelayQueue add up,
\* whatever is inserted, removed or synchronized in between.
DelayedTasks ==
  INSTANCE Alarms WITH Slack <- MaxJump, NoTask <- "none",
                       running <- IF running \in Tasks THEN running ELSE "none"

ImplementsAlarms == DelayedTasks!Spec

\* select() sleeps no longer than until the first task is due, or for as long
\* as the clock was set back.
SleepsToNextAlarm ==
  [][pc' = "select" /\ pc # "select" =>
       \A t \in Pending : wake' <= Max({now, due[t] + jumped})]_vars

\* select() looks at every socket that has a handler: fMaxNumSockets, which
\* goes down by one at a time only, is never too small.
SocketsWatched == \A s \in Registered : s < numSockets

\* Every task runs or is unscheduled, even if others are scheduled without a
\* delay over and over again, and sockets are always readable.
TasksRun == \A t \in Tasks : t \in Pending ~> t \notin Pending

\* Every readable socket is handled, even if others are always readable.
SocketsServed ==
  \A s \in Sockets :
    s \in Registered \cap ready ~>
      s \notin Registered \/ (running = "socket" /\ last = s)
=============================================================================
