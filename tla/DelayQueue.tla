---------------------------- MODULE DelayQueue ----------------------------
(***************************************************************************)
(* The queue of delayed tasks.  Each entry holds the delay that remains    *)
(* after the entry before it, and the first one what remained when the     *)
(* queue was last synchronized with the system's clock, which may be set   *)
(* back.  The entry that ends the list (ETERNITY, 68 years) is left out.   *)
(***************************************************************************)
EXTENDS Integers, FiniteSets, SequencesExt

VARIABLES
  queue,     \* the entries [task, delay] in the order of the list
  lastSync,  \* fLastSyncTime
  now,       \* the time that really passes
  jumped     \* how far the system's clock was set back altogether

queueVars == <<queue, lastSync>>
clockVars == <<now, jumped>>

TimeNow == now - jumped

QueueInit ==
  /\ queue = <<>>
  /\ now = 0 /\ jumped = 0
  /\ lastSync = TimeNow

\* The delay of entry i of q, counted from the last synchronization.
Until(q, i) ==
  LET sum[n \in 0..Len(q)] == IF n = 0 THEN 0 ELSE sum[n - 1] + q[n].delay
  IN  sum[i]

\* Mutant: delays are reduced below zero.
Overdrawn ==
  [i \in DOMAIN queue |->
     IF i = 1 THEN [queue[1] EXCEPT !.delay = @ - (TimeNow - lastSync)]
     ELSE queue[i]]

\* The queue after synchronize(): what time has passed is taken off the
\* first entries, one after the other; none, if the clock went back.
Synchronized ==
  LET elapsed == IF TimeNow < lastSync THEN 0 ELSE TimeNow - lastSync
      Left(i) == Max({0, Until(queue, i) - elapsed})
  IN  [i \in DOMAIN queue |->
         [queue[i] EXCEPT !.delay = Left(i) - Left(i - 1)]]

\* Mutant: the entry that follows is not relative to the new one.
InsertedOnly(q, t, delay) ==
  LET k == Cardinality({i \in DOMAIN q : Until(q, i) <= delay})
  IN  InsertAt(q, k + 1, [task |-> t, delay |-> delay - Until(q, k)])

\* q with a new entry behind all that are due no later.
Inserted(q, t, delay) ==
  LET k    == Cardinality({i \in DOMAIN q : Until(q, i) <= delay})
      own  == delay - Until(q, k)
      rest == IF k < Len(q) THEN [q EXCEPT ![k + 1].delay = @ - own] ELSE q
  IN  InsertAt(rest, k + 1, [task |-> t, delay |-> own])

\* Mutant: the delay of the entry removed is lost.
RemovedOnly(q, i) == RemoveAt(q, i)

Removed(q, i) ==
  RemoveAt(IF i < Len(q) THEN [q EXCEPT ![i + 1].delay = @ + q[i].delay]
                         ELSE q,
           i)

\* Mutant: the queue is as old as its last synchronization.
AddUnsynchronized(t, delay) ==
  /\ queue' = Inserted(queue, t, delay)
  /\ UNCHANGED lastSync

AddEntry(t, delay) ==
  /\ queue' = Inserted(Synchronized, t, delay)
  /\ lastSync' = TimeNow

\* A task that is not in the queue (any more) is not found.
RemoveEntry(t) ==
  /\ \E i \in DOMAIN queue :
       queue[i].task = t /\ queue' = Removed(queue, i)
  /\ UNCHANGED lastSync

Overdue == queue # <<>> /\ queue[1].delay = 0

\* The queue as timeToNextAlarm and handleAlarm see it: they do not
\* synchronize when the first entry is overdue already.
Refreshed == IF Overdue THEN queue ELSE Synchronized
Refresh   == lastSync' = IF Overdue THEN lastSync ELSE TimeNow

Tick == now' = now + 1 /\ UNCHANGED jumped

SetClockBack == jumped' = jumped + 1 /\ UNCHANGED now

QueueTypeOK(Tasks) ==
  /\ queue \in Seq([task : Tasks, delay : Nat])
  /\ lastSync \in Int
  /\ now \in Nat /\ jumped \in Nat
=============================================================================
