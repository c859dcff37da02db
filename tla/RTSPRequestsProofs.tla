------------------------ MODULE RTSPRequestsProofs ------------------------
(***************************************************************************)
(* Theorems about RTSPRequests: no request is lost between the queues, the *)
(* requests that wait for a connection have one being made, and a response *)
(* handler is called as ResponseHandlers promises.                         *)
(***************************************************************************)
EXTENDS RTSPRequests, LeastElements, SequenceTheorems

(***************************************************************************)
(* Queues of requests: whose they are, and that nobody is in one twice.    *)
(***************************************************************************)

Distinct(q) == \A i, j \in 1..Len(q) : q[i].id = q[j].id => i = j

Members(q) == {q[i] : i \in 1..Len(q)}

\* The empty queue.
LEMMA EmptyQueue ==
  ASSUME NEW S
  PROVE  /\ << >> \in Seq(S) /\ Distinct(<< >>)
         /\ Queued(<< >>) = {} /\ Members(<< >>) = {}
  BY DEF Distinct, Queued, Members

\* A queue with one request more.
LEMMA QueueAppend ==
  ASSUME NEW q \in Seq(Record), NEW r \in Record
  PROVE  /\ Append(q, r) \in Seq(Record)
         /\ Queued(Append(q, r)) = Queued(q) \cup {r.id}
         /\ Members(Append(q, r)) = Members(q) \cup {r}
         /\ Distinct(q) /\ r.id \notin Queued(q) => Distinct(Append(q, r))
<1> DEFINE p == Append(q, r)
<1>1. /\ p \in Seq(Record) /\ Len(p) = Len(q) + 1
      /\ \A i \in 1..Len(q) : p[i] = q[i]
      /\ p[Len(q) + 1] = r
  BY AppendProperties
<1>2. Len(q) \in Nat /\ 1..Len(p) = (1..Len(q)) \cup {Len(q) + 1}
  BY <1>1
<1> HIDE DEF p
<1>3. Queued(p) = Queued(q) \cup {r.id}
  BY <1>1, <1>2 DEF Queued
<1>4. Members(p) = Members(q) \cup {r}
  BY <1>1, <1>2 DEF Members
<1>5. ASSUME Distinct(q), r.id \notin Queued(q)
      PROVE  Distinct(p)
  BY <1>1, <1>2, <1>5 DEF Distinct, Queued
<1> QED  BY <1>1, <1>3, <1>4, <1>5 DEF p

\* What is left of a queue after its first n requests.
LEMMA QueueRest ==
  ASSUME NEW S, NEW q \in Seq(S), NEW n \in Nat
  PROVE  LET p == SubSeq(q, n + 1, Len(q))
         IN  /\ p \in Seq(S)
             /\ n <= Len(q) => Len(p) = Len(q) - n
             /\ Len(q) < n => Len(p) = 0
             /\ \A i \in 1..Len(p) : n + i \in 1..Len(q) /\ p[i] = q[n + i]
<1> DEFINE p == SubSeq(q, n + 1, Len(q))
<1>1. PICK l \in Nat : l = Len(q)
  OBVIOUS
<1>2. CASE n < l
  <2>1. \A i \in (n + 1)..l : q[i] \in S
    BY <1>1
  <2>2. /\ p \in Seq(S) /\ Len(p) = l - n
        /\ \A i \in 1..(l - (n + 1) + 1) : p[i] = q[n + 1 + i - 1]
    BY <1>1, <1>2, <2>1, SubSeqProperties
  <2> HIDE DEF p
  <2>3. \A i \in 1..Len(p) : n + i \in 1..l /\ p[i] = q[n + i]
    BY <1>2, <2>2
  <2> QED  BY <1>1, <1>2, <2>2, <2>3 DEF p
<1>3. CASE n >= l
  <2>1. l < n + 1 /\ n + 1 \in Int /\ l \in Int
    BY <1>3
  <2>2. p = << >>
    BY <1>1, <2>1, SubSeqEmpty
  <2> HIDE DEF p
  <2>3. /\ p \in Seq(S) /\ Len(p) = 0
        /\ \A i \in 1..Len(p) : FALSE
    BY <2>2
  <2>4. n <= l => Len(p) = l - n
    BY <1>3, <2>3
  <2> QED  BY <1>1, <2>3, <2>4 DEF p
<1> QED  BY <1>2, <1>3

\* Those who leave a queue with its first n requests are not in it any more.
LEMMA RestQueued ==
  ASSUME NEW q \in Seq(Record), NEW n \in Nat, Distinct(q)
  PROVE  LET p == SubSeq(q, n + 1, Len(q))
         IN  /\ p \in Seq(Record) /\ Distinct(p)
             /\ Members(p) \subseteq Members(q)
             /\ Queued(p) = Queued(q) \ {q[i].id : i \in {j \in 1..Len(q) : j <= n}}
<1> DEFINE p == SubSeq(q, n + 1, Len(q))
           gone == {q[i].id : i \in {j \in 1..Len(q) : j <= n}}
<1>1. /\ p \in Seq(Record)
      /\ n <= Len(q) => Len(p) = Len(q) - n
      /\ Len(q) < n => Len(p) = 0
      /\ \A i \in 1..Len(p) : n + i \in 1..Len(q) /\ p[i] = q[n + i]
  BY QueueRest
<1>2. Len(q) \in Nat /\ Len(p) \in Nat
  BY <1>1
<1> HIDE DEF p
<1>3. Distinct(p)
  <2> SUFFICES ASSUME NEW i \in 1..Len(p), NEW j \in 1..Len(p), p[i].id = p[j].id
               PROVE  i = j
    BY DEF Distinct
  <2>1. /\ n + i \in 1..Len(q) /\ p[i] = q[n + i]
        /\ n + j \in 1..Len(q) /\ p[j] = q[n + j]
    BY <1>1
  <2>2. PICK k, m \in 1..Len(q) : k = n + i /\ m = n + j /\ q[k].id = q[m].id
    BY <2>1
  <2>3. k = m
    BY <2>2 DEF Distinct
  <2> QED  BY <1>2, <2>2, <2>3
<1>4. Members(p) \subseteq Members(q)
  BY <1>1 DEF Members
<1>5. ASSUME NEW x \in Queued(p)
      PROVE  x \in Queued(q) \ gone
  <2>1. PICK i \in 1..Len(p) : x = p[i].id
    BY DEF Queued
  <2>2. PICK j \in 1..Len(q) : j = n + i
    BY <1>1, <2>1
  <2>3. x = q[j].id /\ ~(j <= n)
    BY <1>1, <1>2, <2>1, <2>2
  <2> QED  BY <2>3 DEF Queued, Distinct
<1>6. ASSUME NEW x \in Queued(q), x \notin gone
      PROVE  x \in Queued(p)
  <2>1. PICK j \in 1..Len(q) : x = q[j].id
    BY DEF Queued
  <2>2. ~(j <= n)
    BY <1>6, <2>1
  <2>3. PICK i \in 1..Len(p) : j = n + i
    <3>1. j - n \in 1..Len(p) /\ j = n + (j - n)
      BY <1>1, <1>2, <2>2
    <3> QED  BY <3>1
  <2> QED  BY <1>1, <2>1, <2>3 DEF Queued
<1> QED  BY <1>1, <1>3, <1>4, <1>5, <1>6 DEF p

\* The first request leaves a queue.
LEMMA QueueTail ==
  ASSUME NEW q \in Seq(Record), q # << >>, Distinct(q)
  PROVE  /\ Head(q) \in Record /\ Head(q) \in Members(q) /\ Head(q).id \in Queued(q)
         /\ Tail(q) \in Seq(Record) /\ Distinct(Tail(q))
         /\ Members(Tail(q)) \subseteq Members(q)
         /\ Queued(Tail(q)) = Queued(q) \ {Head(q).id}
<1>1. Len(q) \in Nat /\ Len(q) >= 1 /\ Head(q) = q[1] /\ 1 \in 1..Len(q)
  BY EmptySeq
<1>2. Head(q) \in Record /\ Head(q) \in Members(q) /\ Head(q).id \in Queued(q)
  BY <1>1 DEF Members, Queued
<1>3. Tail(q) = SubSeq(q, 1 + 1, Len(q))
  BY <1>1
<1>4. {j \in 1..Len(q) : j <= 1} = {1}
  BY <1>1
<1>5. {q[i].id : i \in {j \in 1..Len(q) : j <= 1}} = {Head(q).id}
  BY <1>1, <1>4
<1>6. 1 \in Nat
  OBVIOUS
<1> QED  BY <1>2, <1>3, <1>5, <1>6, RestQueued

(***************************************************************************)
(* The search for the request that an answer belongs to.                   *)
(***************************************************************************)

\* It stops somewhere, and all that it passed have a lower number.
LEMMA StopExists ==
  ASSUME NEW q \in Seq(Record), NEW a, a.cseq \in Nat
  PROVE  /\ Stop(q, a) \in 1..(Len(q) + 1)
         /\ Stop(q, a) <= Len(q) => q[Stop(q, a)].cseq >= a.cseq
         /\ \A i \in 1..(Stop(q, a) - 1) : q[i].cseq < a.cseq
<1>1. PICK l \in Nat : l = Len(q)
  OBVIOUS
<1>2. \A i \in 1..l : q[i].cseq \in Nat
  <2>1. \A i \in 1..l : q[i] \in Record
    BY <1>1
  <2> QED  BY <2>1 DEF Record
<1> DEFINE T == {k \in 1..(l + 1) : k <= l => q[k].cseq >= a.cseq}
           Right(k) == /\ k <= l => q[k].cseq >= a.cseq
                       /\ \A i \in 1..(k - 1) : q[i].cseq < a.cseq
<1>3. l + 1 \in T /\ T \subseteq Nat
  BY <1>1
<1>4. PICK k \in T : \A j \in T : k <= j
  BY <1>3, LeastExists
<1>5. ASSUME NEW i \in 1..(k - 1)
      PROVE  q[i].cseq < a.cseq
  <2>1. i \in 1..(l + 1) /\ i <= l /\ ~(k <= i)
    BY <1>1, <1>4, <1>5
  <2>2. i \notin T
    BY <1>4, <2>1
  <2>3. ~(q[i].cseq >= a.cseq)
    BY <2>1, <2>2
  <2>4. q[i].cseq \in Nat
    BY <1>1, <1>2, <2>1
  <2> QED  BY <2>3, <2>4
<1>6. k \in 1..(l + 1) /\ Right(k)
  BY <1>5
<1> HIDE DEF Right, T
<1>7. Stop(q, a) = CHOOSE x \in 1..(l + 1) : Right(x)
  BY <1>1 DEF Stop, Right
<1>8. Stop(q, a) \in 1..(l + 1) /\ Right(Stop(q, a))
  BY <1>6, <1>7
<1> QED  BY <1>1, <1>8 DEF Right

\* What it finds is in the queue or just behind it; if that has another
\* number than the answer, somebody was passed.
LEMMA FoundWhere ==
  ASSUME NEW q \in Seq(Record), NEW a, a.cseq \in Nat
  PROVE  /\ Found(q, a) \in Nat /\ 1 <= Found(q, a) /\ Found(q, a) <= Len(q) + 1
         /\ Found(q, a) <= Len(q) =>
              q[Found(q, a)].cseq = a.cseq \/ 1 < Found(q, a)
<1>1. PICK l \in Nat : l = Len(q)
  OBVIOUS
<1>2. PICK k \in 1..(l + 1) : k = Stop(q, a)
  BY <1>1, StopExists
<1>3. k <= l => q[k].cseq >= a.cseq
  BY <1>1, <1>2, StopExists
<1>4. \A i \in 1..l : q[i].cseq \in Nat
  <2>1. \A i \in 1..l : q[i] \in Record
    BY <1>1
  <2> QED  BY <2>1 DEF Record
<1>5. CASE k <= l /\ q[k].cseq > a.cseq
  <2>1. Found(q, a) = k + 1
    BY <1>1, <1>2, <1>5 DEF Found
  <2> QED  BY <1>1, <1>5, <2>1
<1>6. CASE ~(k <= l /\ q[k].cseq > a.cseq)
  <2>1. Found(q, a) = k
    BY <1>1, <1>2, <1>6 DEF Found
  <2>2. k <= l => q[k].cseq = a.cseq
    <3>1. k <= l => q[k].cseq \in Nat
      BY <1>4
    <3> QED  BY <1>3, <1>6, <3>1
  <2> QED  BY <1>1, <2>1, <2>2
<1> QED  BY <1>5, <1>6

\* A request with the number of the answer is found if those before it have
\* lower numbers.
LEMMA FoundExactly ==
  ASSUME NEW q \in Seq(Record), NEW a, a.cseq \in Nat,
         NEW n \in 1..Len(q), q[n].cseq = a.cseq,
         \A i \in 1..(n - 1) : q[i].cseq < a.cseq
  PROVE  Found(q, a) = n
<1>1. PICK l \in Nat : l = Len(q)
  OBVIOUS
<1>2. PICK k \in 1..(l + 1) : k = Stop(q, a)
  BY <1>1, StopExists
<1>3. /\ k <= l => q[k].cseq >= a.cseq
      /\ \A i \in 1..(k - 1) : q[i].cseq < a.cseq
  BY <1>1, <1>2, StopExists
<1>4. \A i \in 1..l : q[i].cseq \in Nat
  <2>1. \A i \in 1..l : q[i] \in Record
    BY <1>1
  <2> QED  BY <2>1 DEF Record
<1>5. ~(k < n)
  <2>1. SUFFICES ASSUME k < n PROVE FALSE
    OBVIOUS
  <2>2. k \in 1..l /\ k \in 1..(n - 1)
    BY <1>1, <2>1
  <2> QED  BY <1>3, <1>4, <2>2
<1>6. ~(n < k)
  <2>1. SUFFICES ASSUME n < k PROVE FALSE
    OBVIOUS
  <2>2. n \in 1..(k - 1)
    BY <1>1, <2>1
  <2> QED  BY <1>3, <2>2
<1>7. k = n
  BY <1>1, <1>5, <1>6
<1>8. ~(q[k].cseq > a.cseq)
  BY <1>7
<1> QED  BY <1>1, <1>2, <1>7, <1>8 DEF Found

\* The requests that a search for the answer passes.
Passed(q, a) == {q[i].id : i \in {j \in 1..Len(q) : j < Found(q, a)}}

LEMMA DropPassed ==
  ASSUME NEW q \in Seq(Record), NEW a, a.cseq \in Nat, NEW t
  PROVE  /\ Passed(q, a) \subseteq Queued(q)
         /\ Drop(t, q, a) =
              [r \in Requests |-> IF r \in Passed(q, a) THEN "dropped" ELSE t[r]]
<1>1. PICK l \in Nat : l = Len(q)
  OBVIOUS
<1>2. PICK k \in Nat : k = Found(q, a)
  BY FoundWhere
<1>3. ASSUME NEW r
      PROVE  (\E i \in 1..(k - 1) : i <= l /\ q[i].id = r) <=> r \in Passed(q, a)
  BY <1>1, <1>2 DEF Passed
<1>4. Passed(q, a) \subseteq Queued(q)
  BY DEF Passed, Queued
<1> QED  BY <1>1, <1>2, <1>3, <1>4 DEF Drop

\* The queue after the search, if the request found is put back.
LEMMA PutBack ==
  ASSUME NEW q \in Seq(Record), NEW a, a.cseq \in Nat, Distinct(q)
  PROVE  LET p == SubSeq(q, Found(q, a), Len(q))
         IN  /\ p \in Seq(Record) /\ Distinct(p) /\ Members(p) \subseteq Members(q)
             /\ Queued(p) = Queued(q) \ Passed(q, a)
<1>1. PICK k \in Nat : k + 1 = Found(q, a)
  <2>1. Found(q, a) - 1 \in Nat
    BY FoundWhere
  <2> QED  BY <2>1, FoundWhere
<1>2. {j \in 1..Len(q) : j < k + 1} = {j \in 1..Len(q) : j <= k}
  OBVIOUS
<1> QED  BY <1>1, <1>2, RestQueued DEF Passed

\* The queue after the search, if it is not.
LEMMA TakenOut ==
  ASSUME NEW q \in Seq(Record), NEW a, a.cseq \in Nat, Distinct(q)
  PROVE  /\ After(q, a) \in Seq(Record) /\ Distinct(After(q, a))
         /\ Members(After(q, a)) \subseteq Members(q)
         /\ Found(q, a) > Len(q) =>
              After(q, a) = << >> /\ Queued(q) = Passed(q, a)
         /\ Found(q, a) <= Len(q) =>
              /\ q[Found(q, a)] \in Record /\ q[Found(q, a)] \in Members(q)
              /\ q[Found(q, a)].id \in Queued(q) \ Passed(q, a)
              /\ Queued(After(q, a)) =
                   Queued(q) \ (Passed(q, a) \cup {q[Found(q, a)].id})
<1>1. PICK k \in Nat : k = Found(q, a)
  BY FoundWhere
<1>2. PICK l \in Nat : l = Len(q)
  OBVIOUS
<1>3. 1 <= k /\ k <= l + 1
  BY <1>1, <1>2, FoundWhere
<1> DEFINE p == SubSeq(q, k + 1, Len(q))
           gone == {q[i].id : i \in {j \in 1..l : j <= k}}
<1>4. After(q, a) = p
  BY <1>1 DEF After
<1>5. /\ p \in Seq(Record) /\ Distinct(p) /\ Members(p) \subseteq Members(q)
      /\ Queued(p) = Queued(q) \ gone
  BY <1>2, RestQueued
<1>6. ASSUME k > l
      PROVE  p = << >> /\ Queued(q) = Passed(q, a)
  <2>1. p = << >>
    BY <1>2, <1>6, SubSeqEmpty
  <2>2. {j \in 1..l : j < k} = 1..l
    BY <1>6
  <2> QED  BY <1>1, <1>2, <2>1, <2>2 DEF Passed, Queued
<1>7. ASSUME k <= l
      PROVE  /\ q[k] \in Record /\ q[k] \in Members(q)
             /\ q[k].id \in Queued(q) \ Passed(q, a)
             /\ Queued(p) = Queued(q) \ (Passed(q, a) \cup {q[k].id})
  <2>1. k \in 1..l
    BY <1>3, <1>7
  <2>2. q[k] \in Record /\ q[k] \in Members(q) /\ q[k].id \in Queued(q)
    BY <1>2, <2>1 DEF Members, Queued
  <2>3. {j \in 1..l : j <= k} = {j \in 1..l : j < k} \cup {k}
    BY <2>1
  <2>4. gone = Passed(q, a) \cup {q[k].id}
    BY <1>1, <1>2, <2>3 DEF Passed
  <2>5. q[k].id \notin Passed(q, a)
    BY <1>1, <1>2, <2>1 DEF Passed, Distinct
  <2> QED  BY <1>5, <2>2, <2>4, <2>5
<1> QED  BY <1>1, <1>2, <1>4, <1>5, <1>6, <1>7

(***************************************************************************)
(* The inductive invariant.                                                *)
(***************************************************************************)

\* The requests of three queues and those in X, each somewhere once, are those
\* whose handler has still to be called.
Split(w, a, t, st, X) ==
  /\ Distinct(w) /\ Distinct(a) /\ Distinct(t)
  /\ Queued(w) \cap Queued(a) = {} /\ Queued(w) \cap Queued(t) = {}
  /\ Queued(a) \cap Queued(t) = {}
  /\ X \cap (Queued(w) \cup Queued(a) \cup Queued(t)) = {}
  /\ Queued(w) \cup Queued(a) \cup Queued(t) \cup X = {r \in Requests : st[r] = "asked"}

\* The temporary queue is in use only while its loop runs; the loop that sends
\* what waited keeps the connection.
Loops ==
  /\ todo # << >> => mode \in {"connected", "failed"}
  /\ mode = "connected" => conn = "open"

\* Nothing is under way, or read and not handled, without a connection.
LinkEmpty == conn # "open" => up = << >> /\ down = << >> /\ buffer = << >>

\* Behind the answer that announces it comes the end of the connection.
CloseIsLast ==
  /\ \A i \in 1..Len(buffer) : buffer[i].kind = "close" =>
       i = Len(buffer) /\ down # << >> /\ down[1].kind = "eof"
  /\ \A i \in 1..Len(down) : down[i].kind = "close" =>
       i < Len(down) /\ down[i + 1].kind = "eof"

Inv ==
  /\ TypeOK
  /\ Split(waiting, awaiting, todo, told, {})
  /\ SocketPending /\ Loops /\ LinkEmpty /\ CloseIsLast

Socket   == {"none", "pending", "open"}
Statuses == {"new", "asked", "answered", "error", "dropped", "mistaken"}

(***************************************************************************)
(* What every call of sendRequest does to the queues, for a request that   *)
(* is in none of them.                                                     *)
(***************************************************************************)

Sent(r, c, q, t) ==
  /\ conn' \in Socket /\ waiting' \in Seq(Record) /\ awaiting' \in Seq(Record)
  /\ up' \in Seq(Record) /\ down' \in {down, << >>} /\ faults' \in 0..MaxFaults
  /\ told' \in [Requests -> Statuses]
  /\ told' = t \/ told' = [t EXCEPT ![r.id] = "error"]
  /\ Split(waiting', awaiting', todo', told', {})
  /\ waiting' # << >> <=> conn' = "pending"
  /\ c = "open" => conn' = "open" /\ down' = down
  /\ conn' # "open" => up' = << >> /\ down' = << >>
  /\ Members(waiting') \cup Members(awaiting') \cup Members(up')
       \subseteq Members(waiting) \cup Members(q) \cup Members(up) \cup {r}

LEMMA SendKeeps ==
  ASSUME waiting \in Seq(Record), up \in Seq(Record), down \in Seq(Answers \cup {Eof}),
         faults \in 0..MaxFaults, todo' \in Seq(Record),
         NEW r \in Record, NEW c \in Socket, NEW q \in Seq(Record),
         NEW t \in [Requests -> Statuses],
         Split(waiting, q, todo', t, {r.id}),
         waiting # << >> <=> c = "pending",
         SendRequest(r, c, q, t)
  PROVE  Sent(r, c, q, t)
<1> USE DEF Socket, Sent
<1>1. r.id \in Requests /\ r.id \notin Queued(waiting) /\ r.id \notin Queued(q)
      /\ r.id \notin Queued(todo')
  BY DEF Split, Record
<1>2. << >> \in Seq(Record) /\ Queued(<< >>) = {} /\ Members(<< >>) = {} /\ Distinct(<< >>)
  BY EmptyQueue
<1>3. << >> \in Seq(Answers \cup {Eof})
  OBVIOUS
<1>4. CASE Enqueue(r, c, q, t) /\ waiting # << >>
  <2>1. /\ waiting' \in Seq(Record) /\ Distinct(waiting')
        /\ Queued(waiting') = Queued(waiting) \cup {r.id}
        /\ Members(waiting') = Members(waiting) \cup {r}
        /\ waiting' # << >>
    <3>1. r \in Members(Append(waiting, r))
      BY QueueAppend
    <3>2. Append(waiting, r) # << >>
      BY <1>2, <3>1
    <3> QED  BY <1>1, <1>4, <3>2, QueueAppend DEF Enqueue, Split
  <2>2. /\ conn' = "pending" /\ c = "pending" /\ awaiting' = q /\ told' = t
        /\ up' = << >> /\ down' = << >> /\ faults' = faults
    BY <1>4 DEF Enqueue, Link, NoFault
  <2>3. Split(waiting', awaiting', todo', told', {})
    BY <1>1, <2>1, <2>2 DEF Split
  <2> QED  BY <1>2, <1>3, <2>1, <2>2, <2>3
<1>5. CASE Connect(r, q, t) /\ waiting = << >> /\ c = "none"
  <2>1. waiting' = Append(<< >>, r)
    BY <1>5 DEF Connect
  <2>2. /\ waiting' \in Seq(Record) /\ Distinct(waiting')
        /\ Queued(waiting') = {r.id} /\ Members(waiting') = {r}
    <3>1. r.id \notin Queued(<< >>)
      BY <1>2
    <3>2. /\ Append(<< >>, r) \in Seq(Record) /\ Distinct(Append(<< >>, r))
          /\ Queued(Append(<< >>, r)) = Queued(<< >>) \cup {r.id}
          /\ Members(Append(<< >>, r)) = Members(<< >>) \cup {r}
      BY ONLY r \in Record, <1>2, <3>1, QueueAppend
    <3> QED  BY <1>2, <2>1, <3>2, Zenon
  <2>3. /\ conn' = "pending" /\ awaiting' = q /\ told' = t
        /\ up' = << >> /\ down' = << >> /\ faults' = faults
    BY <1>5 DEF Connect, Link, NoFault
  <2>4. waiting' # << >>
    BY <1>5 DEF Connect
  <2>5. Split(waiting', awaiting', todo', told', {})
    BY <1>1, <1>2, <1>5, <2>2, <2>3 DEF Split
  <2> QED  BY <1>2, <1>3, <1>5, <2>2, <2>3, <2>4, <2>5
<1>6. CASE Transmit(r, c, q, t) /\ waiting = << >> /\ c # "pending"
  <2> DEFINE u == IF c = "open" THEN up ELSE << >>
  <2>1. /\ conn' = "open" /\ told' = t /\ waiting' = << >> /\ faults' = faults
        /\ awaiting' = Append(q, r) /\ up' = Append(u, r)
        /\ down' \in {down, << >>} /\ (c = "open" => down' = down)
    BY <1>6 DEF Transmit, NoFault
  <2>2. u \in Seq(Record) /\ Members(u) \subseteq Members(up)
    BY <1>2
  <2> HIDE DEF u
  <2>3. up' \in Seq(Record) /\ Members(up') = Members(u) \cup {r}
    BY <2>1, <2>2, QueueAppend
  <2>4. /\ awaiting' \in Seq(Record) /\ Distinct(awaiting')
        /\ Queued(awaiting') = Queued(q) \cup {r.id}
        /\ Members(awaiting') = Members(q) \cup {r}
    BY <1>1, <2>1, QueueAppend DEF Split
  <2>5. Split(waiting', awaiting', todo', told', {})
    BY <1>1, <1>6, <2>1, <2>4 DEF Split
  <2> QED  BY <1>2, <1>6, <2>1, <2>2, <2>3, <2>4, <2>5
<1>7. CASE RequestError(r, c, q, t) /\ waiting = << >> /\ c # "pending"
  <2>1. /\ told' = [t EXCEPT ![r.id] = "error"] /\ awaiting' = q /\ waiting' = << >>
        /\ conn' \in {c, "open"} /\ faults < MaxFaults /\ faults' = faults + 1
        /\ IF c = "open" THEN up' = up /\ down' = down ELSE up' = << >> /\ down' = << >>
    BY <1>7 DEF RequestError, Link, linkVars, Fault
  <2>2. told' \in [Requests -> Statuses]
    BY <1>1, <2>1 DEF Statuses
  <2>3. {x \in Requests : told'[x] = "asked"} = {x \in Requests : t[x] = "asked"} \ {r.id}
    BY <1>1, <2>1
  <2>4. Split(waiting', awaiting', todo', told', {})
    BY <1>1, <1>7, <2>1, <2>3 DEF Split
  <2>5. faults' \in 0..MaxFaults
    BY <2>1, RequestsAssumption
  <2> QED  BY <1>2, <1>7, <2>1, <2>2, <2>4, <2>5
<1> QED  BY <1>4, <1>5, <1>6, <1>7 DEF SendRequest

LEMMA SubmitSends ==
  ASSUME Inv, NEW id \in Requests, Submit(id)
  PROVE  \E r \in Record, t \in [Requests -> Statuses] :
           /\ r.id = id /\ r.cseq = cseq + 1 /\ t = [told EXCEPT ![id] = "asked"]
           /\ told[id] = "new" /\ cseq' = cseq + 1 /\ cseq' \in Nat
           /\ UNCHANGED <<mode, todo, inHandler, buffer, received>>
           /\ Sent(r, conn, awaiting, t)
<1> DEFINE r == [id |-> id, cseq |-> cseq + 1]
           t == [told EXCEPT ![id] = "asked"]
<1>1. /\ told[id] = "new" /\ cseq' = cseq + 1 /\ cseq' \in Nat
      /\ SendRequest(r, conn, awaiting, t)
      /\ UNCHANGED <<mode, todo, inHandler, buffer, received>>
  BY DEF Submit, Inv, TypeOK
<1>2. /\ r \in Record /\ r.id = id /\ r.cseq = cseq + 1
      /\ conn \in Socket /\ awaiting \in Seq(Record)
      /\ waiting \in Seq(Record) /\ todo' \in Seq(Record) /\ up \in Seq(Record)
      /\ down \in Seq(Answers \cup {Eof}) /\ faults \in 0..MaxFaults
      /\ told \in [Requests -> Statuses]
  BY <1>1 DEF Inv, TypeOK, Record, Socket, Statuses
<1>3. t \in [Requests -> Statuses]
  BY <1>2 DEF Statuses
<1>4. Split(waiting, awaiting, todo', t, {r.id})
  <2>1. {x \in Requests : t[x] = "asked"} = {x \in Requests : told[x] = "asked"} \cup {id}
    BY <1>2
  <2>2. id \notin {x \in Requests : told[x] = "asked"}
    BY <1>1
  <2>3. todo' = todo
    BY <1>1
  <2>4. Split(waiting, awaiting, todo, t, {r.id})
    BY <1>2, <2>1, <2>2 DEF Inv, Split
  <2> QED  BY <2>3, <2>4
<1>5. waiting # << >> <=> conn = "pending"
  BY DEF Inv, SocketPending
<1>6. t = [told EXCEPT ![id] = "asked"]
  OBVIOUS
<1> HIDE DEF r, t
<1>7. Sent(r, conn, awaiting, t)
  BY ONLY <1>1, <1>2, <1>3, <1>4, <1>5, SendKeeps
<1> QED  BY <1>1, <1>2, <1>3, <1>6, <1>7, Zenon

LEMMA InvSubmit ==
  ASSUME Inv, NEW id \in Requests, Submit(id)
  PROVE  Inv'
<1>1. PICK r \in Record, t \in [Requests -> Statuses] :
        /\ cseq' \in Nat
        /\ UNCHANGED <<mode, todo, inHandler, buffer, received>>
        /\ Sent(r, conn, awaiting, t)
  BY SubmitSends
<1>2. down' \in Seq(Answers \cup {Eof})
  <2>1. << >> \in Seq(Answers \cup {Eof})
    OBVIOUS
  <2> QED  BY <1>1, <2>1 DEF Sent, Inv, TypeOK
<1>3. TypeOK'
  BY <1>1, <1>2 DEF TypeOK, Inv, Socket, Statuses, Sent
<1>4. Split(waiting, awaiting, todo, told, {})' /\ SocketPending'
  BY <1>1 DEF Split, SocketPending, Sent
<1>5. Loops' /\ LinkEmpty'
  BY <1>1 DEF Inv, Loops, LinkEmpty, Sent
<1>6. CloseIsLast'
  <2>1. CASE down' = down
    BY <1>1, <2>1 DEF Inv, CloseIsLast
  <2>2. CASE down' # down
    <3>1. down' = << >> /\ buffer' = << >>
      BY <1>1, <2>2 DEF Inv, LinkEmpty, Sent
    <3> QED  BY <3>1 DEF CloseIsLast
  <2> QED  BY <2>1, <2>2
<1> QED  BY <1>3, <1>4, <1>5, <1>6 DEF Inv

LEMMA InvConnectionHandler ==
  ASSUME Inv, ConnectionHandler
  PROVE  Inv'
<1> USE DEF ConnectionHandler, Inv
<1>1. << >> \in Seq(Record) /\ Distinct(<< >>) /\ Queued(<< >>) = {}
  BY EmptyQueue
<1>2. todo = << >>
  BY DEF Loops
<1>3. faults' \in 0..MaxFaults
  BY RequestsAssumption DEF Fault, NoFault, TypeOK
<1>4. TypeOK'
  BY <1>1, <1>3 DEF TypeOK, linkVars
<1>5. Split(waiting, awaiting, todo, told, {})'
  BY <1>1, <1>2 DEF Split
<1>6. SocketPending' /\ Loops' /\ LinkEmpty' /\ CloseIsLast'
  BY DEF SocketPending, Loops, LinkEmpty, CloseIsLast, linkVars
<1> QED  BY <1>4, <1>5, <1>6

LEMMA ResendNextSends ==
  ASSUME Inv, ResendNext
  PROVE  \E r \in Record :
           /\ r \in Members(todo) /\ told[r.id] = "asked"
           /\ conn = "open" /\ mode = "connected" /\ inHandler' = (told' # told)
           /\ todo # << >> /\ r = Head(todo) /\ todo' = Tail(todo)
           /\ todo' \in Seq(Record) /\ Members(todo') \subseteq Members(todo)
           /\ UNCHANGED <<cseq, mode, buffer, received>>
           /\ SendRequest(r, conn, awaiting, told)
           /\ Sent(r, conn, awaiting, told)
<1> DEFINE r == Head(todo)
<1>1. /\ mode = "connected" /\ todo # << >> /\ todo' = Tail(todo)
      /\ SendRequest(r, conn, awaiting, told)
      /\ inHandler' = (told' # told)
      /\ UNCHANGED <<cseq, mode, buffer, received>>
  BY DEF ResendNext
<1>2. /\ conn \in Socket /\ awaiting \in Seq(Record)
      /\ waiting \in Seq(Record) /\ todo \in Seq(Record) /\ up \in Seq(Record)
      /\ down \in Seq(Answers \cup {Eof}) /\ faults \in 0..MaxFaults
      /\ told \in [Requests -> Statuses] /\ conn = "open"
  BY <1>1 DEF Inv, TypeOK, Socket, Statuses, Loops
<1>3. /\ r \in Record /\ r \in Members(todo) /\ r.id \in Queued(todo)
      /\ todo' \in Seq(Record) /\ Distinct(todo') /\ Queued(todo') = Queued(todo) \ {r.id}
      /\ Members(todo') \subseteq Members(todo)
  BY <1>1, <1>2, QueueTail DEF Inv, Split
<1>4. Split(waiting, awaiting, todo', told, {r.id}) /\ told[r.id] = "asked"
  BY <1>3 DEF Inv, Split
<1>5. waiting # << >> <=> conn = "pending"
  BY DEF Inv, SocketPending
<1>6. r = Head(todo)
  OBVIOUS
<1> HIDE DEF r
<1>7. Sent(r, conn, awaiting, told)
  BY ONLY <1>1, <1>2, <1>3, <1>4, <1>5, SendKeeps
<1> QED  BY <1>1, <1>2, <1>3, <1>4, <1>6, <1>7, Zenon

LEMMA InvResendNext ==
  ASSUME Inv, ResendNext
  PROVE  Inv'
<1>1. PICK r \in Record :
        /\ conn = "open" /\ mode = "connected" /\ inHandler' = (told' # told)
        /\ todo' \in Seq(Record)
        /\ UNCHANGED <<cseq, mode, buffer, received>>
        /\ Sent(r, conn, awaiting, told)
  BY ResendNextSends, Zenon
<1>2. down' = down /\ conn' = "open"
  BY <1>1 DEF Sent
<1>3. inHandler' \in BOOLEAN
  BY <1>1
<1>4. TypeOK'
  BY <1>1, <1>2, <1>3 DEF TypeOK, Inv, Socket, Statuses, Sent
<1>5. Split(waiting, awaiting, todo, told, {})' /\ SocketPending'
  BY <1>1 DEF Split, SocketPending, Sent
<1>6. Loops' /\ LinkEmpty' /\ CloseIsLast'
  BY <1>1, <1>2 DEF Inv, Loops, LinkEmpty, CloseIsLast
<1> QED  BY <1>4, <1>5, <1>6 DEF Inv

LEMMA InvFailNext ==
  ASSUME Inv, FailNext
  PROVE  Inv'
<1> DEFINE r == Head(todo)
<1>1. /\ mode = "failed" /\ todo # << >> /\ todo' = Tail(todo)
      /\ told' = [told EXCEPT ![r.id] = "error"] /\ inHandler' = TRUE
      /\ UNCHANGED <<conn, waiting, awaiting, cseq, mode, buffer, up, down, received, faults>>
  BY DEF FailNext, linkVars
<1>2. /\ r \in Record /\ r.id \in Queued(todo)
      /\ todo' \in Seq(Record) /\ Distinct(todo') /\ Queued(todo') = Queued(todo) \ {r.id}
  BY <1>1, QueueTail DEF Inv, TypeOK, Split
<1>3. r.id \in Requests
  BY <1>2 DEF Record
<1> HIDE DEF r
<1>4. /\ told' \in [Requests -> Statuses]
      /\ {x \in Requests : told'[x] = "asked"} = {x \in Requests : told[x] = "asked"} \ {r.id}
  BY <1>1, <1>3 DEF Inv, TypeOK, Statuses
<1>5. TypeOK'
  BY <1>1, <1>2, <1>4 DEF Inv, TypeOK, Statuses
<1>6. Split(waiting, awaiting, todo, told, {})'
  BY <1>1, <1>2, <1>4 DEF Inv, Split
<1>7. SocketPending' /\ Loops' /\ LinkEmpty' /\ CloseIsLast'
  BY <1>1 DEF Inv, SocketPending, Loops, LinkEmpty, CloseIsLast
<1> QED  BY <1>5, <1>6, <1>7 DEF Inv

LEMMA InvLoopEnds ==
  ASSUME Inv, LoopEnds
  PROVE  Inv'
<1>1. /\ todo = << >> /\ mode' = "idle" /\ inHandler' = FALSE
      /\ UNCHANGED <<conn, waiting, awaiting, todo, cseq, buffer, up, down, told, received, faults>>
  BY DEF LoopEnds, Inv, Loops, queueVars, linkVars
<1>2. TypeOK' /\ SocketPending' /\ Loops' /\ LinkEmpty' /\ CloseIsLast'
  BY <1>1 DEF Inv, TypeOK, SocketPending, Loops, LinkEmpty, CloseIsLast
<1>3. Split(waiting, awaiting, todo, told, {})'
  BY <1>1 DEF Inv, Split
<1> QED  BY <1>2, <1>3 DEF Inv

LEMMA InvReadError ==
  ASSUME Inv, ReadError
  PROVE  Inv'
<1>1. << >> \in Seq(Record) /\ Distinct(<< >>) /\ Queued(<< >>) = {}
  BY EmptyQueue
<1>2. << >> \in Seq(Answers \cup {Eof}) /\ << >> \in Seq(Answers)
  OBVIOUS
<1>3. /\ mode = "idle" /\ conn = "open" /\ conn' = "none" /\ mode' = "failed"
      /\ todo' = awaiting /\ awaiting' = << >> /\ up' = << >> /\ down' = << >>
      /\ buffer' = << >>
      /\ UNCHANGED <<waiting, cseq, inHandler, told, received, faults>>
  BY DEF ReadError, Link
<1>4. todo = << >> /\ waiting = << >>
  BY <1>3 DEF Inv, Loops, SocketPending
<1>5. TypeOK'
  BY <1>1, <1>2, <1>3 DEF Inv, TypeOK
<1>6. Split(waiting, awaiting, todo, told, {})'
  BY <1>1, <1>3, <1>4 DEF Inv, Split
<1>7. SocketPending' /\ Loops' /\ LinkEmpty' /\ CloseIsLast'
  BY <1>3, <1>4 DEF SocketPending, Loops, LinkEmpty, CloseIsLast
<1> QED  BY <1>5, <1>6, <1>7 DEF Inv

\* What the search for the request of an answer leaves in the queues.
LEMMA SearchSplit ==
  ASSUME waiting \in Seq(Record), awaiting \in Seq(Record), todo \in Seq(Record),
         told \in [Requests -> Statuses], Split(waiting, awaiting, todo, told, {}),
         NEW a, a.cseq \in Nat
  PROVE  LET d == Drop(told, awaiting, a)
             k == Found(awaiting, a)
         IN  /\ d \in [Requests -> Statuses]
             /\ Split(waiting, SubSeq(awaiting, k, Len(awaiting)), todo, d, {})
             /\ k > Len(awaiting) => Split(waiting, << >>, todo, d, {})
             /\ k <= Len(awaiting) =>
                  /\ awaiting[k] \in Record
                  /\ Split(waiting, After(awaiting, a), todo, d, {awaiting[k].id})
<1> DEFINE d == Drop(told, awaiting, a)
           k == Found(awaiting, a)
           gone == Passed(awaiting, a)
<1>1. /\ gone \subseteq Queued(awaiting)
      /\ d = [r \in Requests |-> IF r \in gone THEN "dropped" ELSE told[r]]
  BY DropPassed
<1>2. Distinct(awaiting)
  BY DEF Split
<1>3. LET p == SubSeq(awaiting, k, Len(awaiting))
      IN  Distinct(p) /\ Queued(p) = Queued(awaiting) \ gone
  BY <1>2, PutBack
<1>4. /\ Distinct(After(awaiting, a))
      /\ k > Len(awaiting) => After(awaiting, a) = << >> /\ Queued(awaiting) = gone
      /\ k <= Len(awaiting) =>
           /\ awaiting[k] \in Record /\ awaiting[k].id \in Queued(awaiting) \ gone
           /\ Queued(After(awaiting, a)) = Queued(awaiting) \ (gone \cup {awaiting[k].id})
  BY <1>2, TakenOut
<1>5. d \in [Requests -> Statuses]
  BY <1>1 DEF Statuses
<1>6. {r \in Requests : d[r] = "asked"} = {r \in Requests : told[r] = "asked"} \ gone
  BY <1>1
<1> DEFINE p == SubSeq(awaiting, k, Len(awaiting))
<1> HIDE DEF d, k, gone, p
<1>7. Split(waiting, p, todo, d, {})
  BY <1>1, <1>3, <1>6 DEF Split, p
<1>8. ASSUME k > Len(awaiting)
      PROVE  Split(waiting, << >>, todo, d, {})
  BY <1>1, <1>4, <1>6, <1>8, EmptyQueue DEF Split
<1>9. ASSUME k <= Len(awaiting)
      PROVE  /\ awaiting[k] \in Record
             /\ Split(waiting, After(awaiting, a), todo, d, {awaiting[k].id})
  <2> DEFINE x == awaiting[k].id
             rest == After(awaiting, a)
  <2>1. /\ awaiting[k] \in Record /\ x \in Queued(awaiting) /\ x \notin gone
        /\ Distinct(rest) /\ Queued(rest) = Queued(awaiting) \ (gone \cup {x})
    BY <1>4, <1>9
  <2> HIDE DEF x, rest
  <2>2. Split(waiting, rest, todo, d, {x})
    BY <1>1, <1>6, <2>1 DEF Split
  <2> QED  BY <2>1, <2>2 DEF x, rest
<1> QED  BY <1>5, <1>7, <1>8, <1>9 DEF d, k, p

\* A handler that is called is accounted for.
LEMMA CallSplit ==
  ASSUME NEW w, NEW q, NEW rest, NEW d \in [Requests -> Statuses], NEW x \in Requests,
         Split(w, q, rest, d, {x}), NEW o \in Statuses, o # "asked"
  PROVE  /\ [d EXCEPT ![x] = o] \in [Requests -> Statuses]
         /\ Split(w, q, rest, [d EXCEPT ![x] = o], {})
<1>1. {r \in Requests : [d EXCEPT ![x] = o][r] = "asked"}
        = {r \in Requests : d[r] = "asked"} \ {x}
  OBVIOUS
<1> QED  BY <1>1 DEF Split

\* What is left in the buffer after its first answer.
LEMMA BufferRest ==
  ASSUME buffer \in Seq(Answers), buffer # << >>
  PROVE  LET a == Head(buffer)
             b == Rest(a)
         IN  /\ a \in Answers /\ a = buffer[1] /\ 1 \in 1..Len(buffer)
             /\ a.id \in Requests /\ a.cseq \in Nat /\ a.kind \in Kinds
             /\ b \in Seq(Answers) /\ b \in {<< >>, Tail(buffer)}
             /\ Len(buffer) = 1 => b = << >>
             /\ \A i \in 1..Len(b) : i + 1 \in 1..Len(buffer) /\ b[i] = buffer[i + 1]
             /\ b # << >> => Len(buffer) = Len(b) + 1
<1> DEFINE a == Head(buffer)
<1>1. PICK l \in Nat : l = Len(buffer) /\ l >= 1
  BY EmptySeq
<1>2. a \in Answers /\ a = buffer[1] /\ 1 \in 1..Len(buffer)
  BY <1>1
<1>3. a.id \in Requests /\ a.cseq \in Nat /\ a.kind \in Kinds
  BY <1>2 DEF Answers
<1>4. /\ Tail(buffer) \in Seq(Answers) /\ Len(Tail(buffer)) = l - 1
      /\ \A i \in 1..(l - 1) : Tail(buffer)[i] = buffer[i + 1]
  BY <1>1, HeadTailProperties
<1>5. CASE a.kind = "malformed"
  <2>1. Rest(a) = << >>
    BY <1>5 DEF Rest
  <2>2. << >> \in Seq(Answers) /\ \A i \in 1..Len(<< >>) : FALSE
    OBVIOUS
  <2> QED  BY <1>2, <1>3, <2>1, <2>2
<1>6. CASE a.kind # "malformed"
  <2>1. Rest(a) = Tail(buffer)
    BY <1>6 DEF Rest
  <2>2. l = 1 => Tail(buffer) = << >>
    <3>1. Tail(buffer) \in Seq(Answers) /\ (l = 1 => Len(Tail(buffer)) = 0)
      BY <1>4
    <3> QED  BY <3>1, EmptySeq
  <2> DEFINE b == Tail(buffer)
  <2>3. /\ b \in Seq(Answers) /\ Len(b) = l - 1
        /\ \A i \in 1..(l - 1) : b[i] = buffer[i + 1]
    BY <1>4
  <2> HIDE DEF b
  <2>4. \A i \in 1..Len(b) : i + 1 \in 1..Len(buffer) /\ b[i] = buffer[i + 1]
    BY <1>1, <2>3
  <2>5. Len(buffer) = Len(b) + 1
    BY <1>1, <2>3
  <2> QED  BY <1>1, <1>2, <1>3, <2>1, <2>2, <2>3, <2>4, <2>5 DEF b
<1> QED  BY <1>5, <1>6

\* After an answer that does not close the connection, and after one that does.
LEMMA CloseStaysLast ==
  ASSUME Inv, buffer # << >>, NextAnswer, buffer' = Rest(Head(buffer)),
         UNCHANGED mode,
         CloseFor(Head(buffer))
  PROVE  /\ conn' \in {"none", "open"} /\ conn = "open"
         /\ up' \in {up, << >>} /\ down' \in {down, << >>}
         /\ LinkEmpty' /\ CloseIsLast'
<1> DEFINE a == Head(buffer)
<1>1. conn = "open"
  BY DEF Inv, LinkEmpty
<1>2. buffer \in Seq(Answers)
  BY DEF Inv, TypeOK
<1>3. /\ a = buffer[1] /\ 1 \in 1..Len(buffer)
      /\ Len(buffer) = 1 => buffer' = << >>
      /\ \A i \in 1..Len(buffer') : i + 1 \in 1..Len(buffer) /\ buffer'[i] = buffer[i + 1]
      /\ buffer' # << >> => Len(buffer) = Len(buffer') + 1
      /\ buffer' \in Seq(Answers)
  BY <1>2, BufferRest
<1>4. CASE a.kind = "close"
  <2>1. Len(buffer) = 1
    BY <1>3, <1>4 DEF Inv, CloseIsLast
  <2>2. conn' = "none" /\ up' = << >> /\ down' = << >> /\ buffer' = << >>
    BY <1>3, <1>4, <2>1 DEF CloseFor, Link
  <2> QED  BY <1>1, <2>2 DEF LinkEmpty, CloseIsLast
<1>5. CASE a.kind # "close"
  <2>1. conn' = "open" /\ up' = up /\ down' = down
    BY <1>1, <1>5 DEF CloseFor, Link, linkVars
  <2>2. ASSUME NEW i \in 1..Len(buffer'), buffer'[i].kind = "close"
        PROVE  i = Len(buffer') /\ down # << >> /\ down[1].kind = "eof"
    <3>1. buffer' # << >> /\ Len(buffer') \in Nat
      BY <1>3, EmptySeq
    <3>2. PICK j \in 1..Len(buffer) : j = i + 1
      BY <1>3
    <3>3. j = Len(buffer) /\ down # << >> /\ down[1].kind = "eof"
      BY <1>3, <2>2, <3>2 DEF Inv, CloseIsLast
    <3> QED  BY <1>3, <3>1, <3>2, <3>3
  <2> QED  BY <1>1, <2>1, <2>2 DEF LinkEmpty, CloseIsLast, Inv
<1> QED  BY <1>4, <1>5

LEMMA InvIgnoreAnswer ==
  ASSUME Inv, IgnoreAnswer
  PROVE  Inv'
<1> DEFINE a == Head(buffer)
<1>1. /\ NextAnswer /\ buffer # << >> /\ mode = "answers"
      /\ Found(awaiting, a) > Len(awaiting)
      /\ told' = Drop(told, awaiting, a) /\ CloseFor(a) /\ buffer' = Rest(a)
      /\ awaiting' = << >> /\ inHandler' = FALSE
      /\ UNCHANGED <<waiting, todo, cseq, mode, received, faults>>
  BY DEF IgnoreAnswer, NextAnswer
<1>2. a.cseq \in Nat /\ buffer' \in Seq(Answers)
  BY <1>1, BufferRest DEF Inv, TypeOK
<1>3. /\ conn' \in {"none", "open"} /\ conn = "open"
      /\ up' \in {up, << >>} /\ down' \in {down, << >>}
      /\ LinkEmpty' /\ CloseIsLast'
  BY <1>1, CloseStaysLast
<1>4. told' \in [Requests -> Statuses] /\ Split(waiting, << >>, todo, told', {})
  BY <1>1, <1>2, SearchSplit DEF Inv, TypeOK, Statuses
<1>5. << >> \in Seq(Record) /\ << >> \in Seq(Answers \cup {Eof})
  OBVIOUS
<1> HIDE DEF a
<1>6. TypeOK'
  BY <1>1, <1>2, <1>3, <1>4, <1>5 DEF Inv, TypeOK, Statuses
<1>7. Split(waiting, awaiting, todo, told, {})'
  BY <1>1, <1>4 DEF Split
<1>8. SocketPending' /\ Loops'
  BY <1>1, <1>3 DEF Inv, SocketPending, Loops
<1> QED  BY <1>3, <1>6, <1>7, <1>8 DEF Inv

LEMMA InvCallHandler ==
  ASSUME Inv, CallHandler
  PROVE  Inv'
<1> DEFINE a == Head(buffer)
           k == Found(awaiting, a)
           x == awaiting[k].id
           d == Drop(told, awaiting, a)
           o == IF d[x] = "asked" /\ x = a.id THEN "answered" ELSE "mistaken"
<1>1. /\ NextAnswer /\ buffer # << >> /\ mode = "answers" /\ k <= Len(awaiting)
      /\ told' = [d EXCEPT ![x] = IF @ = "asked" /\ x = a.id THEN "answered" ELSE "mistaken"]
      /\ CloseFor(a) /\ buffer' = Rest(a)
      /\ awaiting' = After(awaiting, a) /\ inHandler' = TRUE
      /\ UNCHANGED <<waiting, todo, cseq, mode, received, faults>>
  BY DEF CallHandler, NextAnswer
<1>2. a.cseq \in Nat /\ buffer' \in Seq(Answers)
  BY <1>1, BufferRest DEF Inv, TypeOK
<1>3. /\ conn' \in {"none", "open"} /\ conn = "open"
      /\ up' \in {up, << >>} /\ down' \in {down, << >>}
      /\ LinkEmpty' /\ CloseIsLast'
  BY <1>1, CloseStaysLast
<1>4. /\ d \in [Requests -> Statuses] /\ awaiting[k] \in Record
      /\ Split(waiting, awaiting', todo, d, {x})
  BY <1>1, <1>2, SearchSplit DEF Inv, TypeOK, Statuses
<1>5. x \in Requests
  BY <1>4 DEF Record
<1>6. awaiting' \in Seq(Record)
  BY <1>1, <1>2, TakenOut DEF Inv, TypeOK, Split
<1>7. << >> \in Seq(Record) /\ << >> \in Seq(Answers \cup {Eof})
  OBVIOUS
<1>8. told' = [d EXCEPT ![x] = o] /\ o \in Statuses /\ o # "asked"
  BY <1>1, <1>4, <1>5 DEF Statuses
<1> HIDE DEF a, k, x, d, o
<1>9. told' \in [Requests -> Statuses] /\ Split(waiting, awaiting', todo, told', {})
  BY <1>4, <1>5, <1>8, CallSplit
<1>10. TypeOK'
  BY <1>1, <1>2, <1>3, <1>6, <1>7, <1>9 DEF Inv, TypeOK, Statuses
<1>11. Split(waiting, awaiting, todo, told, {})'
  BY <1>1, <1>9 DEF Split
<1>12. SocketPending' /\ Loops'
  BY <1>1, <1>3 DEF Inv, SocketPending, Loops
<1> QED  BY <1>3, <1>10, <1>11, <1>12 DEF Inv

LEMMA InvCallHandlerWithError ==
  ASSUME Inv, CallHandlerWithError
  PROVE  Inv'
<1> DEFINE a == Head(buffer)
           k == Found(awaiting, a)
           x == awaiting[k].id
           d == Drop(told, awaiting, a)
<1>1. /\ NextAnswer /\ buffer # << >> /\ mode = "answers" /\ k <= Len(awaiting)
      /\ a.kind \in {"unusable", "malformed"}
      /\ told' = [d EXCEPT ![x] = "error"]
      /\ buffer' = Rest(a) /\ awaiting' = After(awaiting, a)
      /\ mode' = "idle" /\ inHandler' = FALSE
      /\ UNCHANGED <<conn, waiting, todo, cseq, up, down, received, faults>>
  BY DEF CallHandlerWithError, NextAnswer, linkVars
<1>2. /\ a.cseq \in Nat /\ buffer' \in Seq(Answers)
      /\ \A i \in 1..Len(buffer') : i + 1 \in 1..Len(buffer) /\ buffer'[i] = buffer[i + 1]
      /\ buffer' # << >> => Len(buffer) = Len(buffer') + 1
  BY <1>1, BufferRest DEF Inv, TypeOK
<1>3. conn = "open" /\ todo = << >>
  BY <1>1 DEF Inv, LinkEmpty, Loops
<1>4. /\ d \in [Requests -> Statuses] /\ awaiting[k] \in Record
      /\ Split(waiting, awaiting', todo, d, {x})
  BY <1>1, <1>2, SearchSplit DEF Inv, TypeOK, Statuses
<1>5. x \in Requests
  BY <1>4 DEF Record
<1>6. awaiting' \in Seq(Record)
  BY <1>1, <1>2, TakenOut DEF Inv, TypeOK, Split
<1> HIDE DEF a, k, x, d
<1>7. told' \in [Requests -> Statuses] /\ Split(waiting, awaiting', todo, told', {})
  BY <1>1, <1>4, <1>5, CallSplit DEF Statuses
<1>8. TypeOK'
  BY <1>1, <1>2, <1>6, <1>7 DEF Inv, TypeOK, Statuses
<1>9. Split(waiting, awaiting, todo, told, {})'
  BY <1>1, <1>7 DEF Split
<1>10. SocketPending' /\ Loops' /\ LinkEmpty'
  BY <1>1, <1>3 DEF Inv, SocketPending, Loops, LinkEmpty
<1>11. CloseIsLast'
  <2>1. ASSUME NEW i \in 1..Len(buffer'), buffer'[i].kind = "close"
        PROVE  i = Len(buffer') /\ down # << >> /\ down[1].kind = "eof"
    <3>1. buffer' # << >> /\ Len(buffer') \in Nat
      BY <1>2, EmptySeq
    <3>2. PICK j \in 1..Len(buffer) : j = i + 1
      BY <1>2
    <3>3. j = Len(buffer) /\ down # << >> /\ down[1].kind = "eof"
      BY <1>2, <2>1, <3>2 DEF Inv, CloseIsLast
    <3> QED  BY <1>2, <3>1, <3>2, <3>3
  <2> QED  BY <1>1, <2>1 DEF CloseIsLast, Inv
<1> QED  BY <1>8, <1>9, <1>10, <1>11 DEF Inv

LEMMA ResendCommandSends ==
  ASSUME Inv, ResendCommand
  PROVE  \E a \in Answers, c \in Socket, r \in Record, q \in Seq(Record),
            d \in [Requests -> Statuses] :
           /\ a = Head(buffer) /\ a.kind \in {"auth", "redirect"}
           /\ c = IF a.kind = "redirect" THEN "none" ELSE conn
           /\ Found(awaiting, a) <= Len(awaiting)
           /\ r.cseq = cseq + 1 /\ r.id = awaiting[Found(awaiting, a)].id
           /\ d[r.id] = "asked"
           /\ q = After(awaiting, a) /\ d = Drop(told, awaiting, a)
           /\ conn = "open" /\ todo = << >> /\ waiting = << >>
           /\ cseq' = cseq + 1 /\ cseq \in Nat
           /\ buffer' = << >> /\ mode' = "idle" /\ inHandler' = FALSE
           /\ UNCHANGED <<todo, received>>
           /\ SendRequest(r, c, q, d)
           /\ Sent(r, c, q, d)
<1> DEFINE a == Head(buffer)
           k == Found(awaiting, a)
           r == [awaiting[k] EXCEPT !.cseq = cseq + 1]
           c == IF a.kind = "redirect" THEN "none" ELSE conn
           q == After(awaiting, a)
           d == Drop(told, awaiting, a)
<1>1. /\ NextAnswer /\ buffer # << >> /\ mode = "answers" /\ k <= Len(awaiting)
      /\ SendRequest(r, c, q, d)
      /\ a.kind \in {"auth", "redirect"}
      /\ cseq' = cseq + 1 /\ cseq \in Nat
      /\ buffer' = << >> /\ mode' = "idle" /\ inHandler' = FALSE
      /\ UNCHANGED <<todo, received>>
  BY DEF ResendCommand, NextAnswer, Inv, TypeOK
<1>2. a \in Answers /\ a.cseq \in Nat
  BY <1>1, BufferRest DEF Inv, TypeOK
<1>3. /\ conn = "open" /\ todo = << >> /\ waiting = << >>
      /\ c \in Socket /\ (waiting # << >> <=> c = "pending")
  BY <1>1 DEF Inv, LinkEmpty, Loops, SocketPending, Socket
<1>4. /\ d \in [Requests -> Statuses] /\ awaiting[k] \in Record
      /\ Split(waiting, q, todo, d, {awaiting[k].id})
  BY <1>1, <1>2, SearchSplit DEF Inv, TypeOK, Statuses
<1>5. r \in Record /\ r.id = awaiting[k].id /\ r.cseq = cseq + 1
  BY <1>1, <1>4 DEF Record
<1>6. q \in Seq(Record)
  BY <1>1, <1>2, TakenOut DEF Inv, TypeOK, Split
<1>7. /\ waiting \in Seq(Record) /\ up \in Seq(Record) /\ todo' \in Seq(Record)
      /\ down \in Seq(Answers \cup {Eof}) /\ faults \in 0..MaxFaults
  BY <1>1 DEF Inv, TypeOK
<1>8. /\ a = Head(buffer) /\ k = Found(awaiting, a)
      /\ c = IF a.kind = "redirect" THEN "none" ELSE conn
      /\ q = After(awaiting, a) /\ d = Drop(told, awaiting, a)
  OBVIOUS
<1> HIDE DEF a, k, r, c, q, d
<1>9. Split(waiting, q, todo', d, {r.id}) /\ d[r.id] = "asked"
  <2>1. todo' = todo
    BY <1>1
  <2>2. Split(waiting, q, todo', d, {r.id})
    BY <1>4, <1>5, <2>1
  <2> QED  BY <2>2 DEF Split
<1>10. Sent(r, c, q, d)
  BY ONLY <1>1, <1>3, <1>4, <1>5, <1>6, <1>7, <1>9, SendKeeps
<1>11. r.id = awaiting[Found(awaiting, a)].id /\ Found(awaiting, a) <= Len(awaiting)
  BY <1>1, <1>5, <1>8
<1> QED  BY <1>1, <1>2, <1>3, <1>4, <1>5, <1>6, <1>8, <1>9, <1>10, <1>11, Zenon

LEMMA InvResendCommand ==
  ASSUME Inv, ResendCommand
  PROVE  Inv'
<1>1. PICK a \in Answers, c \in Socket, r \in Record, q \in Seq(Record),
           d \in [Requests -> Statuses] :
        /\ conn = "open" /\ todo = << >>
        /\ cseq' = cseq + 1 /\ cseq \in Nat
        /\ buffer' = << >> /\ mode' = "idle" /\ inHandler' = FALSE
        /\ UNCHANGED <<todo, received>>
        /\ Sent(r, c, q, d)
  BY ResendCommandSends, Zenon
<1>2. << >> \in Seq(Answers)
  OBVIOUS
<1>3. TypeOK'
  <2>1. << >> \in Seq(Answers \cup {Eof})
    OBVIOUS
  <2>2. down' \in Seq(Answers \cup {Eof})
    BY <1>1, <2>1 DEF Inv, TypeOK, Sent
  <2>3. todo' \in Seq(Record) /\ received' \subseteq Requests /\ cseq' \in Nat
    BY <1>1 DEF Inv, TypeOK
  <2> QED  BY <1>1, <1>2, <2>2, <2>3 DEF TypeOK, Statuses, Socket, Sent
<1>4. Split(waiting, awaiting, todo, told, {})'
  BY <1>1 DEF Split, Sent
<1>5. SocketPending' /\ Loops' /\ LinkEmpty'
  BY <1>1 DEF SocketPending, Loops, LinkEmpty, Sent
<1>6. CloseIsLast'
  <2>1. \A i \in 1..Len(buffer') : FALSE
    BY <1>1
  <2>2. CASE down' = down
    BY <2>1, <2>2 DEF CloseIsLast, Inv
  <2>3. CASE down' = << >>
    BY <2>1, <2>3 DEF CloseIsLast
  <2> QED  BY <1>1, <2>2, <2>3 DEF Sent
<1> QED  BY <1>3, <1>4, <1>5, <1>6 DEF Inv

LEMMA InvReadHeaders ==
  ASSUME Inv, ReadHeaders
  PROVE  Inv'
<1> DEFINE a == Head(down)
           k == Found(awaiting, a)
           p == SubSeq(awaiting, k, Len(awaiting))
<1>1. /\ down # << >> /\ a.kind # "eof"
      /\ awaiting' = p /\ told' = Drop(told, awaiting, a)
      /\ UNCHANGED <<conn, waiting, todo, cseq, mode, inHandler, buffer, up, down,
                     received, faults>>
  BY DEF ReadHeaders, linkVars
<1>2. a.cseq \in Nat
  <2>1. a \in Answers \cup {Eof}
    BY <1>1, HeadTailProperties DEF Inv, TypeOK
  <2> QED  BY <1>1, <2>1 DEF Answers, Eof
<1>3. told' \in [Requests -> Statuses] /\ Split(waiting, p, todo, told', {})
  BY <1>1, <1>2, SearchSplit DEF Inv, TypeOK, Statuses
<1>4. p \in Seq(Record)
  BY <1>2, PutBack DEF Inv, TypeOK, Split
<1> HIDE DEF a, k, p
<1>5. TypeOK'
  BY <1>1, <1>3, <1>4 DEF Inv, TypeOK, Statuses
<1>6. Split(waiting, awaiting, todo, told, {})'
  BY <1>1, <1>3 DEF Split
<1>7. SocketPending' /\ Loops' /\ LinkEmpty' /\ CloseIsLast'
  BY <1>1 DEF Inv, SocketPending, Loops, LinkEmpty, CloseIsLast
<1> QED  BY <1>5, <1>6, <1>7 DEF Inv

\* What a read moves from the connection to the buffer.
LEMMA ReadMoves ==
  ASSUME buffer \in Seq(Answers), down \in Seq(Answers \cup {Eof}),
         NEW n \in 1..Len(down), \A i \in 1..n : down[i].kind # "eof",
         buffer' = buffer \o SubSeq(down, 1, n),
         down' = SubSeq(down, n + 1, Len(down))
  PROVE  /\ buffer' \in Seq(Answers) /\ down' \in Seq(Answers \cup {Eof})
         /\ Len(buffer') = Len(buffer) + n /\ Len(down') = Len(down) - n
         /\ \A i \in 1..Len(buffer) : buffer'[i] = buffer[i]
         /\ \A i \in 1..n : buffer'[Len(buffer) + i] = down[i]
         /\ \A i \in 1..Len(down') : n + i \in 1..Len(down) /\ down'[i] = down[n + i]
<1>1. PICK b, l \in Nat : b = Len(buffer) /\ l = Len(down)
  OBVIOUS
<1>2. n \in Nat /\ 1 <= n /\ n <= l
  BY <1>1
<1>3. \A i \in 1..n : down[i] \in Answers
  <2>1. \A i \in 1..l : down[i] \in Answers \cup {Eof}
    BY <1>1
  <2> QED  BY <1>2, <2>1 DEF Eof
<1> DEFINE m == SubSeq(down, 1, n)
<1>4. m \in Seq(Answers) /\ Len(m) = n /\ \A i \in 1..n : m[i] = down[i]
  <2>1. 1 \in Int /\ n \in Int /\ 1 <= n /\ n - 1 + 1 = n
    BY <1>2
  <2>2. /\ m \in Seq(Answers) /\ Len(m) = n - 1 + 1
        /\ \A i \in 1..(n - 1 + 1) : m[i] = down[1 + i - 1]
    BY ONLY <1>3, <2>1, SubSeqProperties
  <2> HIDE DEF m
  <2>3. \A i \in 1..n : 1 + i - 1 = i
    BY <1>2
  <2> QED  BY <2>1, <2>2, <2>3
<1> HIDE DEF m
<1>5. /\ buffer' \in Seq(Answers) /\ Len(buffer') = b + n
      /\ \A i \in 1..(b + n) : buffer'[i] = IF i <= b THEN buffer[i] ELSE m[i - b]
  BY <1>1, <1>4, ConcatProperties DEF m
<1>6. /\ \A i \in 1..b : buffer'[i] = buffer[i]
      /\ \A i \in 1..n : buffer'[b + i] = down[i]
  <2>1. ASSUME NEW i \in 1..b
        PROVE  buffer'[i] = buffer[i]
    <3>1. i \in 1..(b + n) /\ i <= b
      BY <1>2
    <3> QED  BY <1>5, <3>1
  <2>2. ASSUME NEW i \in 1..n
        PROVE  buffer'[b + i] = down[i]
    <3>1. b + i \in 1..(b + n) /\ ~(b + i <= b) /\ (b + i) - b = i
      BY <1>2
    <3> QED  BY <1>4, <1>5, <3>1
  <2> QED  BY <2>1, <2>2
<1>7. /\ down' \in Seq(Answers \cup {Eof}) /\ Len(down') = l - n
      /\ \A i \in 1..Len(down') : n + i \in 1..Len(down) /\ down'[i] = down[n + i]
  BY <1>1, <1>2, QueueRest
<1> QED  BY <1>1, <1>5, <1>6, <1>7

LEMMA InvRead ==
  ASSUME Inv, Read
  PROVE  Inv'
<1> DEFINE News(m) == {down[i].id : i \in {j \in 1..m :
                         down[j].kind \notin {"auth", "redirect", "misnumbered"}}}
<1>1. PICK n \in 1..Len(down) :
        /\ \A i \in 1..n : down[i].kind # "eof"
        /\ buffer' = buffer \o SubSeq(down, 1, n)
        /\ down' = SubSeq(down, n + 1, Len(down))
        /\ received' = received \cup News(n)
  BY DEF Read
<1>2. /\ mode = "idle" /\ conn = "open" /\ mode' = "answers"
      /\ UNCHANGED <<conn, waiting, awaiting, todo, cseq, inHandler, up, told, faults>>
  BY DEF Read, queueVars
<1>3. PICK b, l \in Nat : b = Len(buffer) /\ l = Len(down) /\ n <= l
  OBVIOUS
<1>4. /\ buffer' \in Seq(Answers) /\ down' \in Seq(Answers \cup {Eof})
      /\ Len(buffer') = b + n /\ Len(down') = l - n
      /\ \A i \in 1..b : buffer'[i] = buffer[i]
      /\ \A i \in 1..n : buffer'[b + i] = down[i]
      /\ \A i \in 1..Len(down') : n + i \in 1..l /\ down'[i] = down[n + i]
  BY <1>1, <1>3, ReadMoves DEF Inv, TypeOK
<1>5. todo = << >>
  BY <1>2 DEF Inv, Loops
<1>6. News(n) \subseteq Requests
  <2>1. ASSUME NEW i \in 1..n
        PROVE  down[i].id \in Requests
    <3>1. i \in 1..l /\ down[i] \in Answers \cup {Eof} /\ down[i].kind # "eof"
      BY <1>1, <1>3 DEF Inv, TypeOK
    <3> QED  BY <3>1 DEF Answers, Eof
  <2> QED  BY <2>1
<1> HIDE DEF News
<1>7. TypeOK'
  BY <1>1, <1>2, <1>4, <1>6 DEF Inv, TypeOK
<1>8. Split(waiting, awaiting, todo, told, {})'
  BY <1>2 DEF Inv, Split
<1>9. SocketPending' /\ Loops' /\ LinkEmpty'
  BY <1>2, <1>5 DEF Inv, SocketPending, Loops, LinkEmpty
<1>10. CloseIsLast'
  <2>1. ASSUME NEW i \in 1..Len(buffer'), buffer'[i].kind = "close"
        PROVE  i = Len(buffer') /\ down' # << >> /\ down'[1].kind = "eof"
    <3>1. CASE i <= b
      <4>1. i \in 1..b /\ 1 \in 1..n
        BY <1>3, <3>1
      <4>2. down[1].kind = "eof"
        BY <1>3, <1>4, <2>1, <4>1 DEF Inv, CloseIsLast
      <4> QED  BY <1>1, <4>1, <4>2
    <3>2. CASE ~(i <= b)
      <4>1. PICK j \in 1..n : i = b + j
        <5>1. i - b \in 1..n /\ i = b + (i - b)
          BY <1>3, <1>4, <3>2
        <5> QED  BY <5>1
      <4>2. j \in 1..l /\ down[j].kind = "close"
        BY <1>3, <1>4, <2>1, <4>1
      <4>3. j < l /\ down[j + 1].kind = "eof"
        BY <1>3, <4>2 DEF Inv, CloseIsLast
      <4>4. j = n
        <5>1. j + 1 \notin 1..n
          BY <1>1, <4>3
        <5> QED  BY <4>1, <5>1
      <4>5. 1 \in 1..Len(down') /\ down'[1] = down[n + 1]
        BY <1>3, <1>4, <4>3, <4>4
      <4>6. down' # << >>
        BY <4>5
      <4> QED  BY <1>3, <1>4, <4>1, <4>3, <4>4, <4>5, <4>6
    <3> QED  BY <3>1, <3>2
  <2>2. ASSUME NEW i \in 1..Len(down'), down'[i].kind = "close"
        PROVE  i < Len(down') /\ down'[i + 1].kind = "eof"
    <3>1. PICK j \in 1..l : j = n + i
      BY <1>4
    <3>2. j < l /\ down[j + 1].kind = "eof"
      BY <1>3, <1>4, <2>2, <3>1 DEF Inv, CloseIsLast
    <3>3. i + 1 \in 1..Len(down') /\ n + (i + 1) = j + 1
      BY <1>3, <1>4, <3>1, <3>2
    <3> QED  BY <1>3, <1>4, <3>1, <3>2, <3>3
  <2> QED  BY <2>1, <2>2 DEF CloseIsLast
<1> QED  BY <1>7, <1>8, <1>9, <1>10 DEF Inv

\* What the server says to the request that has come first: its answer, once
\* or twice, or its answer and the end of the connection.
LEMMA AnswerMoves ==
  ASSUME Inv, Answer
  PROVE  \E a \in Answers, s \in Seq(Answers \cup {Eof}) :
           /\ up # << >> /\ up' = Tail(up) /\ a.id = Head(up).id
           /\ a.kind = "misnumbered" \/ a.cseq = Head(up).cseq
           /\ \/ s = <<a, Eof>> /\ a.kind = "close"
              \/ s = <<a, a>> /\ a.kind = "twice"
              \/ s = <<a>> /\ a.kind \notin {"close", "twice"}
           /\ down' = down \o s
           /\ \A i \in 1..Len(down) : down[i].kind # "eof"
           /\ faults' \in 0..MaxFaults
           /\ UNCHANGED <<conn, waiting, awaiting, todo, cseq, mode, inHandler, buffer,
                          told, received>>
<1>1. /\ up # << >> /\ up' = Tail(up)
      /\ \A i \in 1..Len(down) : down[i].kind # "eof"
      /\ UNCHANGED <<conn, waiting, awaiting, todo, cseq, mode, inHandler, buffer,
                     told, received>>
  BY DEF Answer, ServerListens, queueVars
<1> DEFINE An(kind) == [id   |-> Head(up).id,
                        cseq |-> IF kind = "misnumbered" THEN Unused ELSE Head(up).cseq,
                        kind |-> kind]
<1>2. PICK kind \in Kinds :
        /\ IF kind = "final" THEN NoFault ELSE Fault
        /\ down' = down \o (CASE kind = "close" -> <<An(kind), Eof>>
                              [] kind = "twice" -> <<An(kind), An(kind)>>
                              [] OTHER          -> <<An(kind)>>)
  BY DEF Answer
<1> DEFINE a == An(kind)
<1>3. faults' \in 0..MaxFaults
  BY <1>2, RequestsAssumption DEF Fault, NoFault, Inv, TypeOK
<1>4. Head(up) \in Record
  BY <1>1, HeadTailProperties DEF Inv, TypeOK
<1>5. a.id = Head(up).id /\ a.kind = kind /\ (kind = "misnumbered" \/ a.cseq = Head(up).cseq)
  OBVIOUS
<1>6. a \in Answers
  BY <1>4 DEF Answers, Record, Unused
<1> HIDE DEF a
<1>7. /\ <<a, Eof>> \in Seq(Answers \cup {Eof}) /\ <<a, a>> \in Seq(Answers \cup {Eof})
      /\ <<a>> \in Seq(Answers \cup {Eof})
  BY <1>6
<1>8. PICK s \in Seq(Answers \cup {Eof}) :
        /\ down' = down \o s
        /\ \/ s = <<a, Eof>> /\ kind = "close"
           \/ s = <<a, a>> /\ kind = "twice"
           \/ s = <<a>> /\ kind \notin {"close", "twice"}
  <2>1. CASE kind = "close"
    <3>1. down' = down \o <<a, Eof>>
      BY <1>2, <2>1 DEF a
    <3> QED  BY <1>7, <2>1, <3>1
  <2>2. CASE kind = "twice"
    <3>1. down' = down \o <<a, a>>
      BY <1>2, <2>2 DEF a
    <3> QED  BY <1>7, <2>2, <3>1
  <2>3. CASE kind \notin {"close", "twice"}
    <3>1. down' = down \o <<a>>
      BY <1>2, <2>3 DEF a
    <3> QED  BY <1>7, <2>3, <3>1
  <2> QED  BY <2>1, <2>2, <2>3
<1>9. /\ \/ s = <<a, Eof>> /\ a.kind = "close"
         \/ s = <<a, a>> /\ a.kind = "twice"
         \/ s = <<a>> /\ a.kind \notin {"close", "twice"}
      /\ a.kind = "misnumbered" \/ a.cseq = Head(up).cseq
  BY <1>5, <1>8
<1> QED  BY <1>1, <1>3, <1>5, <1>6, <1>8, <1>9, Zenon

LEMMA InvAnswer ==
  ASSUME Inv, Answer
  PROVE  Inv'
<1>1. PICK a \in Answers, s \in Seq(Answers \cup {Eof}) :
        /\ up # << >> /\ up' = Tail(up)
        /\ \/ s = <<a, Eof>> /\ a.kind = "close"
           \/ s = <<a, a>> /\ a.kind = "twice"
           \/ s = <<a>> /\ a.kind \notin {"close", "twice"}
        /\ down' = down \o s
        /\ \A i \in 1..Len(down) : down[i].kind # "eof"
        /\ faults' \in 0..MaxFaults
        /\ UNCHANGED <<conn, waiting, awaiting, todo, cseq, mode, inHandler, buffer,
                       told, received>>
  BY AnswerMoves
<1>2. PICK l \in Nat : l = Len(down)
  BY DEF Inv, TypeOK
<1>3. /\ down' \in Seq(Answers \cup {Eof}) /\ Len(down') = l + Len(s)
      /\ \A i \in 1..(l + Len(s)) : down'[i] = IF i <= l THEN down[i] ELSE s[i - l]
  BY <1>1, <1>2, ConcatProperties DEF Inv, TypeOK
<1>4. up' \in Seq(Record)
  BY <1>1, HeadTailProperties DEF Inv, TypeOK
<1>5. TypeOK'
  BY <1>1, <1>3, <1>4 DEF Inv, TypeOK
<1>6. Split(waiting, awaiting, todo, told, {})'
  BY <1>1 DEF Inv, Split
<1>7. conn = "open"
  BY <1>1 DEF Inv, LinkEmpty
<1>8. SocketPending' /\ Loops' /\ LinkEmpty'
  BY <1>1, <1>7 DEF Inv, SocketPending, Loops, LinkEmpty
<1>9. Len(s) \in {1, 2}
  BY <1>1
<1>10. CloseIsLast'
  <2>1. ASSUME NEW i \in 1..Len(buffer'), buffer'[i].kind = "close"
        PROVE  FALSE
    <3>1. down # << >> /\ down[1].kind = "eof"
      BY <1>1, <2>1 DEF Inv, CloseIsLast
    <3>2. 1 \in 1..Len(down)
      BY <3>1, EmptySeq DEF Inv, TypeOK
    <3> QED  BY <1>1, <3>1, <3>2
  <2>2. ASSUME NEW i \in 1..Len(down'), down'[i].kind = "close"
        PROVE  i < Len(down') /\ down'[i + 1].kind = "eof"
    <3>1. CASE i <= l
      <4>1. i \in 1..l /\ down'[i] = down[i]
        BY <1>2, <1>3, <1>9, <3>1
      <4>2. i + 1 \in 1..l /\ down[i + 1].kind = "eof"
        BY <1>2, <2>2, <4>1 DEF Inv, CloseIsLast
      <4> QED  BY <1>1, <1>2, <4>2
    <3>2. CASE ~(i <= l)
      <4>1. PICK j \in 1..Len(s) : j = i - l
        BY <1>2, <1>3, <1>9, <3>2
      <4>2. s[j].kind = "close"
        BY <1>3, <2>2, <3>2, <4>1
      <4>3. a.kind # "eof"
        BY RequestsAssumption DEF Answers
      <4>4. s = <<a, Eof>> /\ j = 1
        <5>1. ~(s = <<a, a>> /\ a.kind = "twice")
          <6>1. ASSUME s = <<a, a>>, a.kind = "twice" PROVE FALSE
            <7>1. j \in {1, 2} /\ s[1] = a /\ s[2] = a
              BY <4>1, <6>1
            <7> QED  BY <4>2, <6>1, <7>1
          <6> QED  BY <6>1
        <5>2. ~(s = <<a>> /\ a.kind \notin {"close", "twice"})
          <6>1. ASSUME s = <<a>>, a.kind # "close" PROVE FALSE
            <7>1. j = 1 /\ s[1] = a
              BY <4>1, <6>1
            <7> QED  BY <4>2, <6>1, <7>1
          <6> QED  BY <6>1
        <5>3. s = <<a, Eof>> /\ a.kind = "close"
          BY <1>1, <5>1, <5>2
        <5>4. j \in {1, 2} /\ s[2].kind # "close"
          BY <4>1, <5>3 DEF Eof
        <5> QED  BY <4>2, <5>3, <5>4
      <4>5. i + 1 \in 1..(l + Len(s)) /\ ~(i + 1 <= l) /\ (i + 1) - l = 2 /\ i < l + Len(s)
        BY <1>2, <1>3, <1>9, <3>2, <4>1, <4>4
      <4>6. down'[i + 1] = s[2]
        BY <1>3, <4>5
      <4> QED  BY <1>3, <4>4, <4>5, <4>6 DEF Eof
    <3> QED  BY <3>1, <3>2
  <2> QED  BY <2>1, <2>2 DEF CloseIsLast
<1> QED  BY <1>5, <1>6, <1>8, <1>10 DEF Inv

LEMMA InvBreak ==
  ASSUME Inv, Break
  PROVE  Inv'
<1>1. /\ conn = "open" /\ \A i \in 1..Len(down) : down[i].kind # "eof"
      /\ faults < MaxFaults /\ faults' = faults + 1
      /\ up' = << >> /\ down' = Append(down, Eof)
      /\ UNCHANGED <<conn, waiting, awaiting, todo, cseq, mode, inHandler, buffer,
                     told, received>>
  BY DEF Break, ServerListens, Fault, queueVars
<1>2. PICK l \in Nat : l = Len(down)
  BY DEF Inv, TypeOK
<1>3. /\ down' \in Seq(Answers \cup {Eof}) /\ Len(down') = l + 1
      /\ \A i \in 1..l : down'[i] = down[i]
      /\ down'[l + 1] = Eof
  <2>1. Eof \in Answers \cup {Eof} /\ down \in Seq(Answers \cup {Eof})
    BY DEF Inv, TypeOK
  <2> QED  BY ONLY <1>1, <1>2, <2>1, AppendProperties
<1>4. << >> \in Seq(Record)
  OBVIOUS
<1>5. faults' \in 0..MaxFaults
  BY <1>1, RequestsAssumption DEF Inv, TypeOK
<1>6. TypeOK'
  BY <1>1, <1>3, <1>4, <1>5 DEF Inv, TypeOK
<1>7. Split(waiting, awaiting, todo, told, {})'
  BY <1>1 DEF Inv, Split
<1>8. SocketPending' /\ Loops' /\ LinkEmpty'
  BY <1>1 DEF Inv, SocketPending, Loops, LinkEmpty
<1>9. CloseIsLast'
  <2>1. ASSUME NEW i \in 1..Len(buffer'), buffer'[i].kind = "close"
        PROVE  FALSE
    <3>1. down # << >> /\ down[1].kind = "eof"
      BY <1>1, <2>1 DEF Inv, CloseIsLast
    <3>2. 1 \in 1..Len(down)
      BY <3>1, EmptySeq DEF Inv, TypeOK
    <3> QED  BY <1>1, <3>1, <3>2
  <2>2. ASSUME NEW i \in 1..Len(down'), down'[i].kind = "close"
        PROVE  FALSE
    <3>1. i \in 1..l
      BY <1>3, <2>2 DEF Eof
    <3>2. i + 1 \in 1..l /\ down[i + 1].kind = "eof"
      BY <1>2, <1>3, <2>2, <3>1 DEF Inv, CloseIsLast
    <3> QED  BY <1>1, <1>2, <3>2
  <2> QED  BY <2>1, <2>2 DEF CloseIsLast
<1> QED  BY <1>6, <1>7, <1>8, <1>9 DEF Inv

LEMMA InvInit ==
  Init => Inv
<1> SUFFICES ASSUME Init
             PROVE  Inv
  OBVIOUS
<1>1. /\ << >> \in Seq(Record) /\ Distinct(<< >>) /\ Queued(<< >>) = {}
  BY EmptyQueue
<1>2. << >> \in Seq(Answers)
  OBVIOUS
<1>3. << >> \in Seq(Answers \cup {Eof})
  OBVIOUS
<1>4. \A i \in 1..Len(<< >>) : FALSE
  OBVIOUS
<1>5. TypeOK
  <2>1. faults \in 0..MaxFaults
    BY RequestsAssumption DEF Init
  <2>2. told \in [Requests -> Statuses]
    BY DEF Init, Statuses
  <2>3. buffer \in Seq(Answers) /\ down \in Seq(Answers \cup {Eof})
    BY <1>2, <1>3 DEF Init
  <2> QED  BY <1>1, <2>1, <2>2, <2>3 DEF Init, TypeOK, Statuses
<1>6. Split(waiting, awaiting, todo, told, {})
  BY <1>1 DEF Init, Split
<1>7. SocketPending /\ Loops /\ LinkEmpty /\ CloseIsLast
  BY <1>4 DEF Init, SocketPending, Loops, LinkEmpty, CloseIsLast
<1> QED  BY <1>5, <1>6, <1>7 DEF Inv

LEMMA InvStutter ==
  ASSUME Inv, UNCHANGED vars
  PROVE  Inv'
<1>1. UNCHANGED <<conn, waiting, awaiting, todo, cseq, mode, inHandler, buffer, up, down,
                  told, received, faults>>
  BY DEF vars, queueVars, linkVars
<1>2. TypeOK' /\ SocketPending' /\ Loops' /\ LinkEmpty' /\ CloseIsLast'
  BY <1>1 DEF Inv, TypeOK, SocketPending, Loops, LinkEmpty, CloseIsLast
<1>3. Split(waiting, awaiting, todo, told, {})'
  BY <1>1 DEF Inv, Split
<1> QED  BY <1>2, <1>3 DEF Inv

LEMMA InvNext ==
  Inv /\ [Next]_vars => Inv'
<1> SUFFICES ASSUME Inv, [Next]_vars
             PROVE  Inv'
  OBVIOUS
<1>1. ASSUME NEW id \in Requests, Submit(id) PROVE Inv'
  BY <1>1, InvSubmit
<1>2. CASE Step
  BY <1>2, InvConnectionHandler, InvResendNext, InvFailNext, InvLoopEnds, InvReadError,
     InvRead, InvIgnoreAnswer, InvCallHandler, InvCallHandlerWithError, InvResendCommand
     DEF Step
<1>3. CASE ReadHeaders
  BY <1>3, InvReadHeaders
<1>4. CASE Answer
  BY <1>4, InvAnswer
<1>5. CASE Break
  BY <1>5, InvBreak
<1>6. CASE UNCHANGED vars
  BY <1>6, InvStutter
<1> QED  BY <1>1, <1>2, <1>3, <1>4, <1>5, <1>6 DEF Next

LEMMA InvHolds == Spec => []Inv
<1>1. Init => Inv
  BY InvInit
<1>2. Inv /\ [Next]_vars => Inv'
  BY InvNext
<1> QED  BY <1>1, <1>2, PTL DEF Spec

\* Every variable has its type, for any requests, any kinds of answers and
\* any number of faults.
THEOREM TypeCorrect == Spec => []TypeOK
<1>1. Inv => TypeOK
  BY DEF Inv
<1> QED  BY <1>1, InvHolds, PTL

\* Requests wait for a connection only while one is being made.
THEOREM SocketStaysPending == Spec => []SocketPending
<1>1. Inv => SocketPending
  BY DEF Inv
<1> QED  BY <1>1, InvHolds, PTL

\* Three queues in a row hold each request once if each of them does and
\* nobody is in two of them.
LEMMA SplitConcat ==
  ASSUME NEW w \in Seq(Record), NEW a \in Seq(Record), NEW t \in Seq(Record),
         Split(w, a, t, told, {})
  PROVE  LET all == w \o a \o t
         IN  /\ Queued(all) = {r \in Requests : told[r] = "asked"}
             /\ \A i, j \in 1..Len(all) : all[i].id = all[j].id => i = j
<1>1. ASSUME NEW p \in Seq(Record), NEW q \in Seq(Record), Distinct(p), Distinct(q),
             Queued(p) \cap Queued(q) = {}
      PROVE  /\ p \o q \in Seq(Record) /\ Distinct(p \o q)
             /\ Queued(p \o q) = Queued(p) \cup Queued(q)
  <2>1. PICK l, m \in Nat : l = Len(p) /\ m = Len(q)
    OBVIOUS
  <2> DEFINE b == p \o q
  <2>2. /\ b \in Seq(Record) /\ Len(b) = l + m
        /\ \A i \in 1..(l + m) : b[i] = IF i <= l THEN p[i] ELSE q[i - l]
    BY <2>1, ConcatProperties
  <2> HIDE DEF b
  <2>3. ASSUME NEW i \in 1..(l + m)
        PROVE  \/ i \in 1..l /\ b[i] = p[i] /\ b[i].id \in Queued(p)
               \/ /\ ~(i <= l) /\ i - l \in 1..m /\ b[i] = q[i - l]
                  /\ b[i].id \in Queued(q)
    <3>1. CASE i <= l
      BY <2>1, <2>2, <3>1 DEF Queued
    <3>2. CASE ~(i <= l)
      <4>1. i - l \in 1..m /\ b[i] = q[i - l]
        BY <2>1, <2>2, <3>2
      <4> QED  BY <2>1, <3>2, <4>1 DEF Queued
    <3> QED  BY <3>1, <3>2
  <2>4. ASSUME NEW i \in 1..(l + m), NEW j \in 1..(l + m), b[i].id = b[j].id
        PROVE  i = j
    <3>1. CASE i \in 1..l
      <4>1. j \in 1..l /\ p[i].id = p[j].id
        BY <1>1, <2>3, <2>4, <3>1
      <4> QED  BY <1>1, <2>1, <3>1, <4>1 DEF Distinct
    <3>2. CASE ~(i \in 1..l)
      <4>1. /\ i - l \in 1..m /\ j - l \in 1..m /\ q[i - l].id = q[j - l].id
        BY <1>1, <2>3, <2>4, <3>2
      <4>2. i - l = j - l
        BY <1>1, <2>1, <4>1 DEF Distinct
      <4> QED  BY <4>2
    <3> QED  BY <3>1, <3>2
  <2>5. Distinct(b)
    BY <2>2, <2>4 DEF Distinct
  <2>6. Queued(b) \subseteq Queued(p) \cup Queued(q)
    BY <2>2, <2>3 DEF Queued
  <2>7. ASSUME NEW x \in Queued(p)
        PROVE  x \in Queued(b)
    <3>1. PICK i \in 1..l : x = p[i].id
      BY <2>1 DEF Queued
    <3>2. i \in 1..(l + m) /\ b[i] = p[i]
      BY <2>1, <2>2
    <3> QED  BY <2>2, <3>1, <3>2 DEF Queued
  <2>8. ASSUME NEW x \in Queued(q)
        PROVE  x \in Queued(b)
    <3>1. PICK i \in 1..m : x = q[i].id
      BY <2>1 DEF Queued
    <3>2. PICK j \in 1..(l + m) : j = l + i /\ ~(j <= l) /\ j - l = i
      <4>1. l + i \in 1..(l + m) /\ ~(l + i <= l) /\ (l + i) - l = i
        OBVIOUS
      <4> QED  BY <4>1
    <3>3. b[j] = q[i]
      BY <2>1, <2>2, <3>2
    <3> QED  BY <2>2, <3>1, <3>3 DEF Queued
  <2> QED  BY <2>2, <2>5, <2>6, <2>7, <2>8 DEF b
<1>2. /\ w \o a \in Seq(Record) /\ Distinct(w \o a)
      /\ Queued(w \o a) = Queued(w) \cup Queued(a)
  BY <1>1 DEF Split
<1>3. Queued(w \o a) \cap Queued(t) = {} /\ Distinct(t)
  BY <1>2 DEF Split
<1> DEFINE all == w \o a \o t
<1>4. Distinct(all) /\ Queued(all) = Queued(w \o a) \cup Queued(t)
  BY <1>1, <1>2, <1>3
<1> HIDE DEF all
<1>5. Queued(all) = {r \in Requests : told[r] = "asked"}
  BY <1>2, <1>4 DEF Split
<1> QED  BY <1>4, <1>5 DEF all, Distinct

\* A request whose handler has still to be called is in one of the queues,
\* once, and no other request is in any.
THEOREM RequestsAccounted == Spec => []Accounted
<1>1. ASSUME Inv
      PROVE  Accounted
  <2>1. /\ waiting \in Seq(Record) /\ awaiting \in Seq(Record) /\ todo \in Seq(Record)
        /\ Split(waiting, awaiting, todo, told, {})
    BY <1>1 DEF Inv, TypeOK
  <2> QED  BY <2>1, SplitConcat DEF Accounted
<1> QED  BY <1>1, InvHolds, PTL

(***************************************************************************)
(* The refinement: whose answer a handler is called with.                  *)
(***************************************************************************)

\* The numbered requests that the answers of q are to.
Numbered(q) ==
  {[id |-> q[i].id, cseq |-> q[i].cseq] :
     i \in {j \in 1..Len(q) : q[j].kind \notin {"eof", "misnumbered"}}}

\* Every numbered request that is somewhere.
Live == Members(waiting) \cup Members(awaiting) \cup Members(todo) \cup Members(up)
          \cup Numbered(down) \cup Numbered(buffer)

\* A number belongs to one request.
Numbers ==
  /\ \A p \in Live : p.cseq <= cseq
  /\ \A p, q \in Live : p.cseq = q.cseq => p = q

\* Nothing is known of a request that was not made; answers that were read,
\* and those that a handler was called with, have arrived.
Known ==
  /\ \A p \in Live : told[p.id] # "new"
  /\ \A r \in Requests : told[r] = "answered" => r \in received
  /\ \A i \in 1..Len(buffer) :
       buffer[i].kind \notin {"auth", "redirect", "misnumbered"} => buffer[i].id \in received

NInv == Inv /\ Numbers /\ Known

LEMMA LiveTyped ==
  ASSUME Inv
  PROVE  Live \subseteq Record
<1>1. ASSUME NEW q \in Seq(Record)
      PROVE  Members(q) \subseteq Record
  BY DEF Members
<1>2. ASSUME NEW q \in Seq(Answers \cup {Eof})
      PROVE  Numbered(q) \subseteq Record
  <2>1. ASSUME NEW i \in 1..Len(q), q[i].kind \notin {"eof", "misnumbered"}
        PROVE  [id |-> q[i].id, cseq |-> q[i].cseq] \in Record
    <3>1. q[i] \in Answers
      <4>1. q[i] \in Answers \cup {Eof}
        OBVIOUS
      <4> QED  BY <2>1, <4>1 DEF Eof
    <3> QED  BY <3>1 DEF Answers, Record
  <2> QED  BY <2>1 DEF Numbered
<1>3. buffer \in Seq(Answers \cup {Eof})
  <2>1. buffer \in Seq(Answers)
    BY DEF Inv, TypeOK
  <2> QED  BY <2>1
<1> QED  BY <1>1, <1>2, <1>3 DEF Live, Inv, TypeOK

\* No request gets a number, or one request gets the next one.
LEMMA NumbersStay ==
  ASSUME Inv, Numbers, Live' \subseteq Live, cseq' = cseq
  PROVE  Numbers'
  BY DEF Numbers

LEMMA NumbersGrow ==
  ASSUME Inv, Numbers, NEW r, r.cseq = cseq + 1, Live' \subseteq Live \cup {r},
         cseq' = cseq + 1
  PROVE  Numbers'
<1>1. cseq \in Nat /\ \A p \in Live : p.cseq \in Nat /\ p.cseq <= cseq
  BY LiveTyped DEF Inv, TypeOK, Record, Numbers
<1>2. \A p \in Live : p.cseq <= cseq + 1 /\ p.cseq # r.cseq
  BY <1>1
<1>3. \A p \in Live' : p.cseq <= cseq'
  BY <1>1, <1>2
<1>4. \A p, q \in Live' : p.cseq = q.cseq => p = q
  BY <1>2 DEF Numbers
<1> QED  BY <1>3, <1>4 DEF Numbers

\* What is not there any more is not numbered.
LEMMA NumberedNone == Numbered(<< >>) = {}
  BY DEF Numbered

LEMMA NumberedPart ==
  ASSUME NEW S, NEW q \in Seq(S), NEW p \in Seq(S), NEW n \in Nat,
         \A i \in 1..Len(p) : n + i \in 1..Len(q) /\ p[i] = q[n + i]
  PROVE  Numbered(p) \subseteq Numbered(q)
<1>1. ASSUME NEW i \in 1..Len(p), p[i].kind \notin {"eof", "misnumbered"}
      PROVE  [id |-> p[i].id, cseq |-> p[i].cseq] \in Numbered(q)
  <2>1. PICK j \in 1..Len(q) : j = n + i /\ p[i] = q[j]
    OBVIOUS
  <2> QED  BY <1>1, <2>1 DEF Numbered
<1> QED  BY <1>1 DEF Numbered

\* The parts of Known, when nobody new is told of and the buffer shrinks.
LEMMA KnownStays ==
  ASSUME NInv, Inv', Live' \subseteq Live,
         \A r \in Requests : told[r] # "new" => told'[r] # "new",
         \A r \in Requests : told'[r] = "answered" => told[r] = "answered" \/ r \in received,
         received \subseteq received',
         NEW n \in Nat,
         \A i \in 1..Len(buffer') : n + i \in 1..Len(buffer) /\ buffer'[i] = buffer[n + i]
  PROVE  Known'
<1>1. \A p \in Live' : told'[p.id] # "new"
  <2>1. \A p \in Live' : p \in Live /\ p.id \in Requests
    BY LiveTyped DEF NInv, Record
  <2> QED  BY <2>1 DEF NInv, Known
<1>2. \A r \in Requests : told'[r] = "answered" => r \in received'
  BY DEF NInv, Known
<1>3. ASSUME NEW i \in 1..Len(buffer'),
             buffer'[i].kind \notin {"auth", "redirect", "misnumbered"}
      PROVE  buffer'[i].id \in received'
  <2>1. PICK j \in 1..Len(buffer) : j = n + i /\ buffer'[i] = buffer[j]
    OBVIOUS
  <2> QED  BY <1>3, <2>1 DEF NInv, Known
<1> QED  BY <1>1, <1>2, <1>3 DEF Known

LEMMA NSubmit ==
  ASSUME NInv, NEW id \in Requests, Submit(id)
  PROVE  Numbers' /\ Known' /\ Handlers!Ask(id)
<1>1. PICK r \in Record, t \in [Requests -> Statuses] :
        /\ r.id = id /\ r.cseq = cseq + 1 /\ t = [told EXCEPT ![id] = "asked"]
        /\ told[id] = "new" /\ cseq' = cseq + 1
        /\ UNCHANGED <<todo, buffer, received>>
        /\ Sent(r, conn, awaiting, t)
  BY SubmitSends, Zenon DEF NInv
<1>2. told \in [Requests -> Statuses]
  BY DEF NInv, Inv, TypeOK, Statuses
<1>3. Live' \subseteq Live \cup {r}
  <2>1. Numbered(down') \subseteq Numbered(down)
    BY <1>1, NumberedNone DEF Sent
  <2>2. Members(todo') = Members(todo) /\ Numbered(buffer') = Numbered(buffer)
    BY <1>1
  <2>3. Members(waiting') \cup Members(awaiting') \cup Members(up')
          \subseteq Members(waiting) \cup Members(awaiting) \cup Members(up) \cup {r}
    BY <1>1 DEF Sent
  <2> QED  BY <2>1, <2>2, <2>3 DEF Live
<1>4. Numbers'
  BY <1>1, <1>3, NumbersGrow DEF NInv
<1>5. /\ told'[id] \in {"asked", "error"}
      /\ \A x \in Requests : x # id => told'[x] = told[x]
      /\ told' = [told EXCEPT ![id] = "asked"] \/ told' = [told EXCEPT ![id] = "error"]
  BY <1>1, <1>2 DEF Sent
<1>6. Known'
  <2>1. \A p \in Live : p.id \in Requests /\ told[p.id] # "new"
    BY LiveTyped DEF NInv, Known, Record
  <2>2. \A p \in Live' : told'[p.id] # "new"
    BY <1>1, <1>3, <1>5, <2>1
  <2> QED  BY <1>1, <1>5, <2>2 DEF NInv, Known
<1>7. Handlers!Ask(id)
  BY <1>1, <1>5 DEF Handlers!Ask
<1> QED  BY <1>4, <1>6, <1>7

\* A step by which no request is added or told of, and nothing read.
LEMMA NQuiet ==
  ASSUME NInv, Inv', Live' \subseteq Live, UNCHANGED <<cseq, told, received>>,
         buffer' = buffer \/ buffer' = << >>
  PROVE  Numbers' /\ Known' /\ UNCHANGED Handlers!vars
<1>1. Numbers'
  BY NumbersStay DEF NInv
<1>2. Known'
  <2>1. CASE buffer' = buffer
    <3>1. \A i \in 1..Len(buffer') : 0 + i \in 1..Len(buffer) /\ buffer'[i] = buffer[0 + i]
      BY <2>1
    <3> QED  BY <3>1, KnownStays DEF NInv, Known
  <2>2. CASE buffer' = << >>
    <3>1. \A i \in 1..Len(buffer') : 0 + i \in 1..Len(buffer) /\ buffer'[i] = buffer[0 + i]
      BY <2>2
    <3> QED  BY <3>1, KnownStays DEF NInv, Known
  <2> QED  BY <2>1, <2>2
<1> QED  BY <1>1, <1>2 DEF Handlers!vars

LEMMA NConnectionHandler ==
  ASSUME NInv, Inv', ConnectionHandler
  PROVE  Numbers' /\ Known' /\ UNCHANGED Handlers!vars
<1>1. /\ todo' = waiting /\ waiting' = << >>
      /\ UNCHANGED <<awaiting, cseq, buffer, up, down, told, received>>
  BY DEF ConnectionHandler, linkVars
<1>2. Live' \subseteq Live
  BY <1>1, EmptyQueue DEF Live
<1> QED  BY <1>1, <1>2, NQuiet

LEMMA NLoopEnds ==
  ASSUME NInv, Inv', LoopEnds
  PROVE  Numbers' /\ Known' /\ UNCHANGED Handlers!vars
<1>1. UNCHANGED <<waiting, awaiting, todo, cseq, buffer, up, down, told, received>>
  BY DEF LoopEnds, queueVars, linkVars
<1>2. Live' = Live
  BY <1>1 DEF Live
<1> QED  BY <1>1, <1>2, NQuiet

LEMMA NReadError ==
  ASSUME NInv, Inv', ReadError
  PROVE  Numbers' /\ Known' /\ UNCHANGED Handlers!vars
<1>1. /\ todo' = awaiting /\ awaiting' = << >> /\ up' = << >> /\ down' = << >>
      /\ buffer' = << >>
      /\ UNCHANGED <<waiting, cseq, told, received>>
  BY DEF ReadError, Link
<1>2. Live' \subseteq Live
  BY <1>1, EmptyQueue, NumberedNone DEF Live
<1> QED  BY <1>1, <1>2, NQuiet

LEMMA NBreak ==
  ASSUME NInv, Inv', Break
  PROVE  Numbers' /\ Known' /\ UNCHANGED Handlers!vars
<1>1. /\ up' = << >> /\ down' = Append(down, Eof)
      /\ UNCHANGED <<waiting, awaiting, todo, cseq, buffer, told, received>>
  BY DEF Break, queueVars
<1>2. PICK l \in Nat : l = Len(down)
  BY DEF NInv, Inv, TypeOK
<1>3. Len(down') = l + 1 /\ down'[l + 1] = Eof /\ \A i \in 1..l : down'[i] = down[i]
  <2>1. Eof \in Answers \cup {Eof} /\ down \in Seq(Answers \cup {Eof})
    BY DEF NInv, Inv, TypeOK
  <2> QED  BY ONLY <1>1, <1>2, <2>1, AppendProperties
<1>4. Numbered(down') \subseteq Numbered(down)
  <2>1. ASSUME NEW i \in 1..(l + 1), down'[i].kind \notin {"eof", "misnumbered"}
        PROVE  i \in 1..l /\ down'[i] = down[i]
    BY <1>3, <2>1 DEF Eof
  <2> QED  BY <1>2, <1>3, <2>1 DEF Numbered
<1>5. Live' \subseteq Live
  BY <1>1, <1>4, EmptyQueue DEF Live
<1> QED  BY <1>1, <1>5, NQuiet

LEMMA NAnswer ==
  ASSUME NInv, Inv', Answer
  PROVE  Numbers' /\ Known' /\ UNCHANGED Handlers!vars
<1>1. PICK a \in Answers, s \in Seq(Answers \cup {Eof}) :
        /\ up # << >> /\ up' = Tail(up) /\ a.id = Head(up).id
        /\ a.kind = "misnumbered" \/ a.cseq = Head(up).cseq
        /\ \/ s = <<a, Eof>> /\ a.kind = "close"
           \/ s = <<a, a>> /\ a.kind = "twice"
           \/ s = <<a>> /\ a.kind \notin {"close", "twice"}
        /\ down' = down \o s
        /\ UNCHANGED <<waiting, awaiting, todo, cseq, buffer, told, received>>
  BY AnswerMoves DEF NInv
<1>2. PICK l \in Nat : l = Len(down)
  BY DEF NInv, Inv, TypeOK
<1>3. /\ Len(down') = l + Len(s)
      /\ \A i \in 1..(l + Len(s)) : down'[i] = IF i <= l THEN down[i] ELSE s[i - l]
  BY <1>1, <1>2, ConcatProperties DEF NInv, Inv, TypeOK
<1>4. Len(s) \in Nat /\ \A j \in 1..Len(s) : s[j] \in {a, Eof}
  <2>1. Len(s) \in {1, 2}
    BY <1>1
  <2>2. ASSUME NEW j \in 1..Len(s)
        PROVE  j = 1 \/ (j = 2 /\ Len(s) = 2)
    <3>1. CASE Len(s) = 1
      BY <3>1
    <3>2. CASE Len(s) = 2
      BY <3>2
    <3> QED  BY <2>1, <3>1, <3>2
  <2>3. s[1] = a /\ (Len(s) = 2 => s[2] \in {a, Eof})
    <3>1. CASE s = <<a, Eof>>
      BY <3>1
    <3>2. CASE s = <<a, a>>
      BY <3>2
    <3>3. CASE s = <<a>>
      BY <3>3
    <3> QED  BY <1>1, <3>1, <3>2, <3>3
  <2> QED  BY <2>1, <2>2, <2>3
<1>5. up \in Seq(Record)
  BY DEF NInv, Inv, TypeOK
<1>6. /\ Head(up) \in Record /\ Head(up) \in Members(up)
      /\ Members(up') \subseteq Members(up)
  <2>1. PICK m \in Nat : m = Len(up) /\ m >= 1
    BY <1>1, <1>5, EmptySeq
  <2>2. Head(up) = up[1] /\ 1 \in 1..m
    BY <1>5, <2>1
  <2>3. Len(up') = m - 1 /\ \A i \in 1..(m - 1) : up'[i] = up[i + 1]
    BY <1>1, <1>5, <2>1, HeadTailProperties
  <2>4. ASSUME NEW i \in 1..(m - 1)
        PROVE  up'[i] \in Members(up)
    <3>1. i + 1 \in 1..m
      BY <2>1
    <3> QED  BY <2>1, <2>3, <3>1 DEF Members
  <2>5. Members(up') \subseteq Members(up)
    BY <2>3, <2>4 DEF Members
  <2> QED  BY <1>5, <2>1, <2>2, <2>5 DEF Members
<1>7. a.kind # "misnumbered" => [id |-> a.id, cseq |-> a.cseq] = Head(up)
  BY <1>1, <1>6 DEF Record
<1>8. Numbered(down') \subseteq Numbered(down) \cup Members(up)
  <2>1. ASSUME NEW i \in 1..(l + Len(s)), down'[i].kind \notin {"eof", "misnumbered"}
        PROVE  [id |-> down'[i].id, cseq |-> down'[i].cseq] \in Numbered(down) \cup Members(up)
    <3>1. CASE i <= l
      <4>1. i \in 1..l /\ down'[i] = down[i]
        BY <1>2, <1>3, <3>1
      <4> QED  BY <1>2, <2>1, <4>1 DEF Numbered
    <3>2. CASE ~(i <= l)
      <4>1. i - l \in 1..Len(s) /\ down'[i] = s[i - l]
        BY <1>2, <1>3, <1>4, <3>2
      <4>2. down'[i] = a
        BY <1>4, <2>1, <4>1 DEF Eof
      <4> QED  BY <1>6, <1>7, <2>1, <4>2
    <3> QED  BY <3>1, <3>2
  <2> QED  BY <1>3, <2>1 DEF Numbered
<1>9. Live' \subseteq Live
  BY <1>1, <1>6, <1>8 DEF Live
<1> QED  BY <1>1, <1>9, NQuiet

LEMMA NRead ==
  ASSUME NInv, Inv', Read
  PROVE  Numbers' /\ Known' /\ Handlers!Arrive
<1> DEFINE Last(m) == {j \in 1..m : down[j].kind \notin {"auth", "redirect", "misnumbered"}}
           News(m) == {down[i].id : i \in Last(m)}
<1>1. PICK n \in 1..Len(down) :
        /\ \A i \in 1..n : down[i].kind # "eof"
        /\ buffer' = buffer \o SubSeq(down, 1, n)
        /\ down' = SubSeq(down, n + 1, Len(down))
        /\ received' = received \cup News(n)
  BY DEF Read
<1>2. UNCHANGED <<waiting, awaiting, todo, cseq, up, told>>
  BY DEF Read, queueVars
<1>3. PICK b, l \in Nat : b = Len(buffer) /\ l = Len(down) /\ n <= l
  BY DEF NInv, Inv, TypeOK
<1>4. /\ Len(buffer') = b + n
      /\ \A i \in 1..b : buffer'[i] = buffer[i]
      /\ \A i \in 1..n : buffer'[b + i] = down[i]
      /\ \A i \in 1..Len(down') : n + i \in 1..l /\ down'[i] = down[n + i]
      /\ down' \in Seq(Answers \cup {Eof})
  BY <1>1, <1>3, ReadMoves DEF NInv, Inv, TypeOK
<1>5. ASSUME NEW i \in 1..(b + n)
      PROVE  \/ i \in 1..b /\ buffer'[i] = buffer[i]
             \/ \E j \in 1..n : j \in 1..l /\ buffer'[i] = down[j]
  <2>1. CASE i <= b
    BY <1>3, <1>4, <2>1
  <2>2. CASE ~(i <= b)
    <3>1. PICK j \in 1..n : b + j = i
      <4>1. i - b \in 1..n /\ b + (i - b) = i
        BY <1>3, <2>2
      <4> QED  BY <4>1
    <3>2. j \in 1..l
      BY <1>3
    <3> QED  BY <1>4, <3>1, <3>2
  <2> QED  BY <2>1, <2>2
<1>6. Numbered(buffer') \subseteq Numbered(buffer) \cup Numbered(down)
  <2>1. ASSUME NEW i \in 1..(b + n), buffer'[i].kind \notin {"eof", "misnumbered"}
        PROVE  [id |-> buffer'[i].id, cseq |-> buffer'[i].cseq]
                 \in Numbered(buffer) \cup Numbered(down)
    <3>1. CASE i \in 1..b /\ buffer'[i] = buffer[i]
      BY <1>3, <2>1, <3>1 DEF Numbered
    <3>2. CASE \E j \in 1..n : j \in 1..l /\ buffer'[i] = down[j]
      BY <1>3, <2>1, <3>2 DEF Numbered
    <3> QED  BY <1>5, <3>1, <3>2
  <2> QED  BY <1>4, <2>1 DEF Numbered
<1>7. Numbered(down') \subseteq Numbered(down)
  <2>1. down \in Seq(Answers \cup {Eof}) /\ n \in Nat
    BY DEF NInv, Inv, TypeOK
  <2>2. \A i \in 1..Len(down') : n + i \in 1..Len(down) /\ down'[i] = down[n + i]
    BY <1>3, <1>4
  <2> QED  BY ONLY <1>4, <2>1, <2>2, NumberedPart
<1>8. Live' \subseteq Live
  BY <1>2, <1>6, <1>7 DEF Live
<1>9. Numbers'
  BY <1>2, <1>8, NumbersStay DEF NInv
<1>10. Known'
  <2>1. \A p \in Live' : told'[p.id] # "new"
    BY <1>2, <1>8 DEF NInv, Known
  <2>2. \A r \in Requests : told'[r] = "answered" => r \in received'
    BY <1>1, <1>2 DEF NInv, Known
  <2>3. ASSUME NEW i \in 1..(b + n),
               buffer'[i].kind \notin {"auth", "redirect", "misnumbered"}
        PROVE  buffer'[i].id \in received'
    <3>1. CASE i \in 1..b /\ buffer'[i] = buffer[i]
      BY <1>1, <1>3, <2>3, <3>1 DEF NInv, Known
    <3>2. CASE \E j \in 1..n : j \in 1..l /\ buffer'[i] = down[j]
      <4>1. PICK j \in 1..n : buffer'[i] = down[j]
        BY <3>2
      <4>2. down[j].id \in News(n)
        BY <2>3, <4>1
      <4> QED  BY <1>1, <4>1, <4>2
    <3> QED  BY <1>5, <3>1, <3>2
  <2> QED  BY <1>4, <2>1, <2>2, <2>3 DEF Known
<1>11. News(n) \subseteq {r \in Requests : told[r] # "new"}
  <2>1. ASSUME NEW i \in Last(n)
        PROVE  down[i].id \in Requests /\ told[down[i].id] # "new"
    <3>1. i \in 1..l /\ down[i].kind \notin {"eof", "misnumbered"}
      BY <1>1, <1>3
    <3>2. [id |-> down[i].id, cseq |-> down[i].cseq] \in Live
      BY <1>3, <3>1 DEF Numbered, Live
    <3>3. [id |-> down[i].id, cseq |-> down[i].cseq] \in Record
      BY <3>2, LiveTyped DEF NInv
    <3> QED  BY <3>2, <3>3 DEF NInv, Known, Record
  <2> QED  BY <2>1
<1> HIDE DEF News
<1>12. Handlers!Arrive
  <2> DEFINE new == News(n) \ received
  <2>1. new \in SUBSET {r \in Requests : told[r] \notin {"new", "answered"}}
    BY <1>11 DEF NInv, Known
  <2>2. received' = received \cup new
    BY <1>1
  <2> HIDE DEF new
  <2> QED  BY <1>2, <2>1, <2>2 DEF Handlers!Arrive
<1> QED  BY <1>9, <1>10, <1>12

\* A step that calls at most one handler, those in called, with outcome o,
\* drops those in gone, numbers at most one request anew, and leaves of the
\* buffer what is behind its first n answers.
Settles(gone, called, o, n) ==
  /\ \/ Live' \subseteq Live /\ cseq' = cseq
     \/ /\ \E r \in Record : /\ r.cseq = cseq + 1 /\ told[r.id] # "new"
                             /\ Live' \subseteq Live \cup {r}
        /\ cseq' = cseq + 1
  /\ gone \subseteq {r \in Requests : told[r] = "asked"}
  /\ called \subseteq {r \in Requests : told[r] = "asked"}
  /\ gone \cap called = {}
  /\ \A r, s \in called : r = s
  /\ o \in {"answered", "error", "mistaken"}
  /\ told' = [r \in Requests |-> IF r \in gone THEN "dropped"
                                 ELSE IF r \in called THEN o ELSE told[r]]
  /\ o = "answered" => called \subseteq received
  /\ o = "mistaken" => gone # {}
  /\ UNCHANGED received
  /\ \A i \in 1..Len(buffer') : n + i \in 1..Len(buffer) /\ buffer'[i] = buffer[n + i]

LEMMA NSettle ==
  ASSUME NInv, Inv', NEW gone, NEW called, NEW o, NEW n \in Nat,
         Settles(gone, called, o, n)
  PROVE  Numbers' /\ Known' /\ Handlers!Settle
<1> USE DEF Settles
<1>1. told \in [Requests -> Statuses]
  BY DEF NInv, Inv, TypeOK, Statuses
<1>2. /\ Handlers!Settle
      /\ \A r \in Requests : told[r] # "new" => told'[r] # "new"
      /\ \A r \in Requests : told'[r] = "answered" => told[r] = "answered" \/ r \in received
  <2>1. told' \in [Requests -> Handlers!Outcomes \cup {"new", "asked"}]
    BY <1>1 DEF Statuses, Handlers!Outcomes
  <2>2. \A r \in Requests : told'[r] # told[r] =>
          told[r] = "asked" /\ told'[r] \in Handlers!Outcomes
    BY DEF Handlers!Outcomes
  <2>3. /\ Handlers!Called \subseteq called
        /\ Handlers!Becomes("dropped") = gone
        /\ o = "answered" \/ Handlers!Becomes("answered") = {}
        /\ Handlers!Becomes("answered") \subseteq called
        /\ o = "mistaken" \/ Handlers!Becomes("mistaken") = {}
    BY DEF Handlers!Called, Handlers!Becomes
  <2>4. Handlers!Settle
    BY <2>1, <2>2, <2>3 DEF Handlers!Settle
  <2>5. \A r \in Requests : told[r] # "new" => told'[r] # "new"
    OBVIOUS
  <2>6. \A r \in Requests : told'[r] = "answered" => told[r] = "answered" \/ r \in received
    OBVIOUS
  <2> QED  BY <2>4, <2>5, <2>6
<1>3. Numbers'
  <2>1. CASE Live' \subseteq Live /\ cseq' = cseq
    BY <2>1, NumbersStay DEF NInv
  <2>2. CASE ~(Live' \subseteq Live /\ cseq' = cseq)
    <3>1. PICK r \in Record : /\ r.cseq = cseq + 1
                              /\ Live' \subseteq Live \cup {r} /\ cseq' = cseq + 1
      BY <2>2
    <3> QED  BY <3>1, NumbersGrow DEF NInv
  <2> QED  BY <2>1, <2>2
<1>4. \A p \in Live' : told'[p.id] # "new"
  <2>1. \A p \in Live : p.id \in Requests /\ told[p.id] # "new"
    BY LiveTyped DEF NInv, Known, Record
  <2>2. \A p \in Live' : p.id \in Requests /\ told[p.id] # "new"
    BY <2>1 DEF Record
  <2> QED  BY <1>2, <2>2
<1>5. \A r \in Requests : told'[r] = "answered" => r \in received'
  BY <1>2 DEF NInv, Known
<1>6. ASSUME NEW i \in 1..Len(buffer'),
             buffer'[i].kind \notin {"auth", "redirect", "misnumbered"}
      PROVE  buffer'[i].id \in received'
  <2>1. PICK j \in 1..Len(buffer) : j = n + i /\ buffer'[i] = buffer[j]
    OBVIOUS
  <2> QED  BY <1>6, <2>1 DEF NInv, Known
<1> QED  BY <1>2, <1>3, <1>4, <1>5, <1>6 DEF Known

\* Whom the search for an answer passes and finds, all wait for an answer.
LEMMA SearchAsked ==
  ASSUME Inv, NEW a, a.cseq \in Nat
  PROVE  /\ Passed(awaiting, a) \in SUBSET {r \in Requests : told[r] = "asked"}
         /\ Drop(told, awaiting, a) =
              [r \in Requests |-> IF r \in Passed(awaiting, a) THEN "dropped" ELSE told[r]]
         /\ Found(awaiting, a) <= Len(awaiting) =>
              LET x == awaiting[Found(awaiting, a)].id
              IN  /\ x \in Requests /\ told[x] = "asked"
                  /\ x \notin Passed(awaiting, a)
                  /\ Drop(told, awaiting, a)[x] = "asked"
<1>1. awaiting \in Seq(Record) /\ Distinct(awaiting)
      /\ Queued(awaiting) \subseteq {r \in Requests : told[r] = "asked"}
  BY DEF Inv, TypeOK, Split
<1>2. /\ Passed(awaiting, a) \subseteq Queued(awaiting)
      /\ Drop(told, awaiting, a) =
           [r \in Requests |-> IF r \in Passed(awaiting, a) THEN "dropped" ELSE told[r]]
  BY <1>1, DropPassed
<1>3. Found(awaiting, a) <= Len(awaiting) =>
        awaiting[Found(awaiting, a)].id \in Queued(awaiting) \ Passed(awaiting, a)
  BY <1>1, TakenOut
<1> QED  BY <1>1, <1>2, <1>3

\* Requests leave the queue that waits for answers, and answers the buffer.
LEMMA SearchLive ==
  ASSUME Inv, NextAnswer, buffer' = Rest(Head(buffer)),
         awaiting' = After(awaiting, Head(buffer)),
         UNCHANGED <<waiting, todo>>, up' \in {up, << >>}, down' \in {down, << >>}
  PROVE  /\ Live' \subseteq Live
         /\ \A i \in 1..Len(buffer') : 1 + i \in 1..Len(buffer) /\ buffer'[i] = buffer[1 + i]
         /\ Head(buffer).cseq \in Nat /\ Head(buffer) = buffer[1] /\ 1 \in 1..Len(buffer)
<1> DEFINE a == Head(buffer)
<1>1. /\ buffer \in Seq(Answers) /\ buffer # << >> /\ awaiting \in Seq(Record)
      /\ Distinct(awaiting)
  BY DEF Inv, TypeOK, Split, NextAnswer
<1>2. /\ a.cseq \in Nat /\ a = buffer[1] /\ 1 \in 1..Len(buffer)
      /\ buffer' \in Seq(Answers)
      /\ \A i \in 1..Len(buffer') : i + 1 \in 1..Len(buffer) /\ buffer'[i] = buffer[i + 1]
  BY <1>1, BufferRest
<1>3. Members(awaiting') \subseteq Members(awaiting)
  BY <1>1, <1>2, TakenOut
<1>4. \A i \in 1..Len(buffer') : 1 + i \in 1..Len(buffer) /\ buffer'[i] = buffer[1 + i]
  <2>1. ASSUME NEW i \in 1..Len(buffer')
        PROVE  1 + i = i + 1
    BY <1>2
  <2> QED  BY <1>2, <2>1
<1>5. Numbered(buffer') \subseteq Numbered(buffer)
  BY ONLY <1>1, <1>2, <1>4, 1 \in Nat, NumberedPart
<1>6. Members(up') \subseteq Members(up) /\ Numbered(down') \subseteq Numbered(down)
  BY EmptyQueue, NumberedNone
<1>7. Live' \subseteq Live
  BY <1>3, <1>5, <1>6 DEF Live
<1> QED  BY <1>2, <1>4, <1>7

LEMMA NIgnoreAnswer ==
  ASSUME NInv, Inv', IgnoreAnswer
  PROVE  Numbers' /\ Known' /\ Handlers!Settle
<1> DEFINE a == Head(buffer)
           gone == Passed(awaiting, a)
           called == {}
<1>1. /\ NextAnswer /\ Found(awaiting, a) > Len(awaiting)
      /\ told' = Drop(told, awaiting, a) /\ CloseFor(a) /\ buffer' = Rest(a)
      /\ awaiting' = << >>
      /\ UNCHANGED <<waiting, todo, cseq, mode, received>>
  BY DEF IgnoreAnswer
<1>2. up' \in {up, << >>} /\ down' \in {down, << >>}
  BY <1>1, CloseStaysLast DEF NInv, NextAnswer
<1>3. a.cseq \in Nat
  BY <1>1, BufferRest DEF NInv, Inv, TypeOK, NextAnswer
<1>4. awaiting' = After(awaiting, a)
  BY <1>1, <1>3, TakenOut DEF NInv, Inv, TypeOK, Split
<1>5. /\ Live' \subseteq Live
      /\ \A i \in 1..Len(buffer') : 1 + i \in 1..Len(buffer) /\ buffer'[i] = buffer[1 + i]
  BY <1>1, <1>2, <1>4, SearchLive DEF NInv
<1>6. /\ gone \in SUBSET {r \in Requests : told[r] = "asked"}
      /\ told' = [r \in Requests |-> IF r \in gone THEN "dropped" ELSE told[r]]
  BY <1>1, <1>3, SearchAsked DEF NInv
<1> HIDE DEF a, gone
<1>7. /\ told' = [r \in Requests |-> IF r \in gone THEN "dropped"
                                     ELSE IF r \in called THEN "error" ELSE told[r]]
      /\ called \subseteq {r \in Requests : told[r] = "asked"}
      /\ \A r, s \in called : r = s
      /\ gone \cap called = {}
  BY <1>6
<1> HIDE DEF called
<1>8. Settles(gone, called, "error", 1)
  BY <1>1, <1>5, <1>6, <1>7 DEF Settles
<1> QED  BY <1>8, NSettle

LEMMA NCallHandler ==
  ASSUME NInv, Inv', CallHandler
  PROVE  Numbers' /\ Known' /\ Handlers!Settle
<1> DEFINE a == Head(buffer)
           k == Found(awaiting, a)
           x == awaiting[k].id
           d == Drop(told, awaiting, a)
           gone == Passed(awaiting, a)
           called == {x}
           o == IF x = a.id THEN "answered" ELSE "mistaken"
<1>1. /\ NextAnswer /\ k <= Len(awaiting) /\ a.kind \in {"final", "close", "twice"}
      /\ told' = [d EXCEPT ![x] = IF @ = "asked" /\ x = a.id THEN "answered" ELSE "mistaken"]
      /\ CloseFor(a) /\ buffer' = Rest(a)
      /\ awaiting' = After(awaiting, a)
      /\ UNCHANGED <<waiting, todo, cseq, mode, received>>
  BY DEF CallHandler
<1>2. up' \in {up, << >>} /\ down' \in {down, << >>}
  BY <1>1, CloseStaysLast DEF NInv, NextAnswer
<1>3. /\ Live' \subseteq Live
      /\ \A i \in 1..Len(buffer') : 1 + i \in 1..Len(buffer) /\ buffer'[i] = buffer[1 + i]
      /\ a.cseq \in Nat /\ a = buffer[1] /\ 1 \in 1..Len(buffer)
  BY <1>1, <1>2, SearchLive DEF NInv
<1>4. /\ gone \in SUBSET {r \in Requests : told[r] = "asked"}
      /\ d = [r \in Requests |-> IF r \in gone THEN "dropped" ELSE told[r]]
      /\ x \in Requests /\ told[x] = "asked" /\ x \notin gone /\ d[x] = "asked"
  BY <1>1, <1>3, SearchAsked DEF NInv
<1>5. told' = [d EXCEPT ![x] = o]
  BY <1>1, <1>4
<1>6. o \in {"answered", "error", "mistaken"}
  OBVIOUS
<1>7. o = "answered" => called \subseteq received
  <2>1. a.id \in received
    BY <1>1, <1>3 DEF NInv, Known
  <2> QED  BY <2>1
<1>8. o = "mistaken" => gone # {}
  <2>1. SUFFICES ASSUME x # a.id PROVE gone # {}
    OBVIOUS
  <2>2. /\ k \in Nat /\ 1 <= k
        /\ awaiting[k].cseq = a.cseq \/ 1 < k
        /\ awaiting \in Seq(Record)
    BY <1>1, <1>3, FoundWhere DEF NInv, Inv, TypeOK
  <2>3. awaiting[k].cseq # a.cseq
    <3>1. awaiting[k] \in Live
      BY <1>1, <2>2 DEF Live, Members
    <3>2. [id |-> a.id, cseq |-> a.cseq] \in Live
      BY <1>1, <1>3 DEF Live, Numbered
    <3>3. awaiting[k].cseq = a.cseq => awaiting[k] = [id |-> a.id, cseq |-> a.cseq]
      BY <3>1, <3>2 DEF NInv, Numbers
    <3> QED  BY <2>1, <3>3
  <2>4. 1 \in 1..Len(awaiting) /\ 1 < k
    BY <1>1, <2>2, <2>3
  <2> QED  BY <2>4 DEF Passed
<1>9. UNCHANGED <<cseq, received>>
  BY <1>1
<1> HIDE DEF a, k, x, d, gone, o
<1>10. told' = [r \in Requests |-> IF r \in gone THEN "dropped"
                                   ELSE IF r \in called THEN o ELSE told[r]]
  BY <1>4, <1>5
<1>11. /\ called \subseteq {r \in Requests : told[r] = "asked"}
       /\ \A r, s \in called : r = s
       /\ gone \cap called = {}
  BY <1>4
<1> HIDE DEF called
<1>12. Settles(gone, called, o, 1)
  BY <1>3, <1>4, <1>6, <1>7, <1>8, <1>9, <1>10, <1>11 DEF Settles
<1> QED  BY <1>12, NSettle

LEMMA NCallHandlerWithError ==
  ASSUME NInv, Inv', CallHandlerWithError
  PROVE  Numbers' /\ Known' /\ Handlers!Settle
<1> DEFINE a == Head(buffer)
           k == Found(awaiting, a)
           x == awaiting[k].id
           d == Drop(told, awaiting, a)
           gone == Passed(awaiting, a)
           called == {x}
<1>1. /\ NextAnswer /\ k <= Len(awaiting)
      /\ told' = [d EXCEPT ![x] = "error"]
      /\ buffer' = Rest(a) /\ awaiting' = After(awaiting, a)
      /\ UNCHANGED <<waiting, todo, cseq, up, down, received>>
  BY DEF CallHandlerWithError, linkVars
<1>2. /\ Live' \subseteq Live
      /\ \A i \in 1..Len(buffer') : 1 + i \in 1..Len(buffer) /\ buffer'[i] = buffer[1 + i]
      /\ a.cseq \in Nat
  BY <1>1, SearchLive DEF NInv
<1>3. /\ gone \in SUBSET {r \in Requests : told[r] = "asked"}
      /\ d = [r \in Requests |-> IF r \in gone THEN "dropped" ELSE told[r]]
      /\ x \in Requests /\ told[x] = "asked" /\ x \notin gone
  BY <1>1, <1>2, SearchAsked DEF NInv
<1> HIDE DEF a, k, x, d, gone
<1>4. told' = [r \in Requests |-> IF r \in gone THEN "dropped"
                                  ELSE IF r \in called THEN "error" ELSE told[r]]
  BY <1>1, <1>3
<1>5. /\ called \subseteq {r \in Requests : told[r] = "asked"}
      /\ \A r, s \in called : r = s
      /\ gone \cap called = {}
  BY <1>3
<1> HIDE DEF called
<1>6. Settles(gone, called, "error", 1)
  BY <1>1, <1>2, <1>3, <1>4, <1>5 DEF Settles
<1> QED  BY <1>6, NSettle

LEMMA NFailNext ==
  ASSUME NInv, Inv', FailNext
  PROVE  Numbers' /\ Known' /\ Handlers!Settle
<1> DEFINE r == Head(todo)
           gone == {}
           called == {r.id}
<1>1. /\ todo # << >> /\ todo' = Tail(todo)
      /\ told' = [told EXCEPT ![r.id] = "error"]
      /\ UNCHANGED <<waiting, awaiting, cseq, buffer, up, down, received>>
  BY DEF FailNext, linkVars
<1>2. /\ r \in Record /\ r.id \in Queued(todo) /\ Members(todo') \subseteq Members(todo)
  BY <1>1, QueueTail DEF NInv, Inv, TypeOK, Split
<1>3. r.id \in Requests /\ told[r.id] = "asked"
  BY <1>2 DEF NInv, Inv, Split, Record
<1>4. Live' \subseteq Live
  BY <1>1, <1>2 DEF Live
<1>5. \A i \in 1..Len(buffer') : 0 + i \in 1..Len(buffer) /\ buffer'[i] = buffer[0 + i]
  BY <1>1
<1> HIDE DEF r
<1>6. told' = [s \in Requests |-> IF s \in gone THEN "dropped"
                                  ELSE IF s \in called THEN "error" ELSE told[s]]
  BY <1>1, <1>3 DEF NInv, Inv, TypeOK
<1>7. /\ called \subseteq {s \in Requests : told[s] = "asked"}
      /\ \A s, t \in called : s = t
      /\ gone \cap called = {}
  BY <1>3
<1> HIDE DEF called
<1>8. Settles(gone, called, "error", 0)
  BY <1>1, <1>4, <1>5, <1>6, <1>7 DEF Settles
<1> QED  BY <1>8, NSettle

LEMMA NReadHeaders ==
  ASSUME NInv, Inv', ReadHeaders
  PROVE  Numbers' /\ Known' /\ Handlers!Settle
<1> DEFINE a == Head(down)
           gone == Passed(awaiting, a)
           called == {}
<1>1. /\ down # << >> /\ a.kind # "eof"
      /\ awaiting' = SubSeq(awaiting, Found(awaiting, a), Len(awaiting))
      /\ told' = Drop(told, awaiting, a)
      /\ UNCHANGED <<waiting, todo, cseq, buffer, up, down, received>>
  BY DEF ReadHeaders, linkVars
<1>2. a.cseq \in Nat
  <2>1. a \in Answers \cup {Eof}
    BY <1>1, HeadTailProperties DEF NInv, Inv, TypeOK
  <2> QED  BY <1>1, <2>1 DEF Answers, Eof
<1>3. Members(awaiting') \subseteq Members(awaiting)
  BY <1>1, <1>2, PutBack DEF NInv, Inv, TypeOK, Split
<1>4. Live' \subseteq Live
  BY <1>1, <1>3 DEF Live
<1>5. /\ gone \in SUBSET {r \in Requests : told[r] = "asked"}
      /\ told' = [r \in Requests |-> IF r \in gone THEN "dropped" ELSE told[r]]
  BY <1>1, <1>2, SearchAsked DEF NInv
<1>6. \A i \in 1..Len(buffer') : 0 + i \in 1..Len(buffer) /\ buffer'[i] = buffer[0 + i]
  BY <1>1
<1> HIDE DEF a, gone
<1>7. /\ told' = [r \in Requests |-> IF r \in gone THEN "dropped"
                                     ELSE IF r \in called THEN "error" ELSE told[r]]
      /\ called \subseteq {r \in Requests : told[r] = "asked"}
      /\ \A r, s \in called : r = s
      /\ gone \cap called = {}
  BY <1>5
<1> HIDE DEF called
<1>8. Settles(gone, called, "error", 0)
  BY <1>1, <1>4, <1>5, <1>6, <1>7 DEF Settles
<1> QED  BY <1>8, NSettle

LEMMA NResendNext ==
  ASSUME NInv, Inv', ResendNext
  PROVE  Numbers' /\ Known' /\ Handlers!Settle
<1>1. PICK r \in Record :
        /\ r \in Members(todo) /\ told[r.id] = "asked" /\ conn = "open"
        /\ Members(todo') \subseteq Members(todo)
        /\ UNCHANGED <<cseq, buffer, received>>
        /\ Sent(r, conn, awaiting, told)
  BY ResendNextSends, Zenon DEF NInv
<1> DEFINE gone == {}
           called == {s \in Requests : told'[s] # told[s]}
<1>2. r.id \in Requests
  BY DEF Record
<1>3. told \in [Requests -> Statuses]
  BY DEF NInv, Inv, TypeOK, Statuses
<1>4. told' = told \/ told' = [told EXCEPT ![r.id] = "error"]
  BY <1>1 DEF Sent
<1>5. Live' \subseteq Live
  <2>1. down' = down
    BY <1>1 DEF Sent
  <2>2. r \in Live
    BY <1>1 DEF Live
  <2>3. Members(waiting') \cup Members(awaiting') \cup Members(up')
          \subseteq Members(waiting) \cup Members(awaiting) \cup Members(up) \cup {r}
    BY <1>1 DEF Sent
  <2> QED  BY <1>1, <2>1, <2>2, <2>3 DEF Live
<1>6. \A i \in 1..Len(buffer') : 0 + i \in 1..Len(buffer) /\ buffer'[i] = buffer[0 + i]
  BY <1>1
<1>7. /\ called \subseteq {r.id}
      /\ told' = [s \in Requests |-> IF s \in gone THEN "dropped"
                                     ELSE IF s \in called THEN "error" ELSE told[s]]
  BY <1>2, <1>3, <1>4
<1> HIDE DEF called
<1>8. /\ called \subseteq {s \in Requests : told[s] = "asked"}
      /\ \A s, t \in called : s = t
      /\ gone \cap called = {}
  BY <1>1, <1>2, <1>7
<1>9. Settles(gone, called, "error", 0)
  BY <1>1, <1>5, <1>6, <1>7, <1>8 DEF Settles
<1> QED  BY <1>9, NSettle

LEMMA NResendCommand ==
  ASSUME NInv, Inv', ResendCommand
  PROVE  Numbers' /\ Known' /\ Handlers!Settle
<1>1. PICK a \in Answers, c \in Socket, r \in Record, q \in Seq(Record),
           d \in [Requests -> Statuses] :
        /\ a = Head(buffer) /\ a.kind \in {"auth", "redirect"}
        /\ c = IF a.kind = "redirect" THEN "none" ELSE conn
        /\ Found(awaiting, a) <= Len(awaiting)
        /\ r.cseq = cseq + 1 /\ r.id = awaiting[Found(awaiting, a)].id
        /\ d[r.id] = "asked"
        /\ q = After(awaiting, a) /\ d = Drop(told, awaiting, a)
        /\ conn = "open" /\ todo = << >> /\ waiting = << >>
        /\ cseq' = cseq + 1 /\ cseq \in Nat
        /\ buffer' = << >> /\ mode' = "idle" /\ inHandler' = FALSE
        /\ UNCHANGED <<todo, received>>
        /\ SendRequest(r, c, q, d)
        /\ Sent(r, c, q, d)
  <2>1. Inv
    BY DEF NInv
  <2> QED  BY ONLY <2>1, ResendCommand, ResendCommandSends
<1>2. a.cseq \in Nat
  BY DEF Answers
<1> DEFINE gone == Passed(awaiting, a)
           called == {s \in Requests : told'[s] # d[s]}
<1>3. /\ gone \in SUBSET {s \in Requests : told[s] = "asked"}
      /\ d = [s \in Requests |-> IF s \in gone THEN "dropped" ELSE told[s]]
      /\ r.id \in Requests /\ told[r.id] = "asked" /\ r.id \notin gone /\ d[r.id] = "asked"
  BY <1>1, <1>2, SearchAsked DEF NInv
<1>4. told' = d \/ told' = [d EXCEPT ![r.id] = "error"]
  BY <1>1 DEF Sent
<1>5. Live' \subseteq Live \cup {r}
  <2>1. Members(q) \subseteq Members(awaiting)
    BY <1>1, <1>2, TakenOut DEF NInv, Inv, TypeOK, Split
  <2>2. Members(waiting') \cup Members(awaiting') \cup Members(up')
          \subseteq Members(waiting) \cup Members(awaiting) \cup Members(up) \cup {r}
    BY <1>1, <2>1 DEF Sent
  <2>3. Numbered(down') \subseteq Numbered(down) /\ Numbered(buffer') = {}
    BY <1>1, NumberedNone DEF Sent
  <2>4. Members(todo') = Members(todo)
    BY <1>1
  <2> QED  BY <2>2, <2>3, <2>4 DEF Live
<1>6. \A i \in 1..Len(buffer') : 0 + i \in 1..Len(buffer) /\ buffer'[i] = buffer[0 + i]
  BY <1>1
<1> HIDE DEF gone
<1>7. /\ called \subseteq {r.id}
      /\ told' = [s \in Requests |-> IF s \in gone THEN "dropped"
                                     ELSE IF s \in called THEN "error" ELSE told[s]]
  BY <1>3, <1>4
<1> HIDE DEF called
<1>8. /\ called \subseteq {s \in Requests : told[s] = "asked"}
      /\ \A s, t \in called : s = t
      /\ gone \cap called = {}
  BY <1>3, <1>7
<1>9. told[r.id] # "new"
  BY <1>3
<1>10. Settles(gone, called, "error", 0)
  BY <1>1, <1>3, <1>5, <1>6, <1>7, <1>8, <1>9 DEF Settles
<1> QED  BY <1>10, NSettle

LEMMA NInvInit == Init => NInv
<1> SUFFICES ASSUME Init
             PROVE  NInv
  OBVIOUS
<1>1. Live = {}
  BY EmptyQueue, NumberedNone DEF Init, Live
<1>2. \A i \in 1..Len(<< >>) : FALSE
  OBVIOUS
<1>3. Numbers /\ Known
  BY <1>1, <1>2 DEF Init, Numbers, Known
<1> QED  BY <1>3, InvInit DEF NInv

LEMMA NInvNext ==
  ASSUME NInv, [Next]_vars
  PROVE  NInv' /\ [Handlers!Next]_(Handlers!vars)
<1>1. Inv'
  BY InvNext DEF NInv
<1>2. ASSUME NEW id \in Requests, Submit(id)
      PROVE  Numbers' /\ Known' /\ Handlers!Next
  BY <1>2, NSubmit DEF Handlers!Next
<1>3. CASE Step
  <2>1. CASE ConnectionHandler
    BY <1>1, <2>1, NConnectionHandler DEF NInv
  <2>2. CASE ResendNext
    BY <1>1, <2>2, NResendNext DEF NInv, Handlers!Next
  <2>3. CASE FailNext
    BY <1>1, <2>3, NFailNext DEF NInv, Handlers!Next
  <2>4. CASE LoopEnds
    BY <1>1, <2>4, NLoopEnds DEF NInv
  <2>5. CASE ReadError
    BY <1>1, <2>5, NReadError DEF NInv
  <2>6. CASE Read
    BY <1>1, <2>6, NRead DEF NInv, Handlers!Next
  <2>7. CASE IgnoreAnswer
    BY <1>1, <2>7, NIgnoreAnswer DEF NInv, Handlers!Next
  <2>8. CASE CallHandler
    BY <1>1, <2>8, NCallHandler DEF NInv, Handlers!Next
  <2>9. CASE CallHandlerWithError
    BY <1>1, <2>9, NCallHandlerWithError DEF NInv, Handlers!Next
  <2>10. CASE ResendCommand
    BY <1>1, <2>10, NResendCommand DEF NInv, Handlers!Next
  <2> QED  BY <1>3, <2>1, <2>2, <2>3, <2>4, <2>5, <2>6, <2>7, <2>8, <2>9, <2>10 DEF Step
<1>4. CASE ReadHeaders
  BY <1>1, <1>4, NReadHeaders DEF NInv, Handlers!Next
<1>5. CASE Answer
  BY <1>1, <1>5, NAnswer DEF NInv
<1>6. CASE Break
  BY <1>1, <1>6, NBreak DEF NInv
<1>7. CASE UNCHANGED vars
  <2>1. UNCHANGED <<waiting, awaiting, todo, cseq, buffer, up, down, told, received>>
    BY <1>7 DEF vars, queueVars, linkVars
  <2>2. Live' = Live
    BY <2>1 DEF Live
  <2> QED  BY <1>1, <2>1, <2>2, NQuiet DEF NInv
<1> QED  BY <1>1, <1>2, <1>3, <1>4, <1>5, <1>6, <1>7 DEF Next, NInv

\* A response handler is called at most once, with the answer to its own
\* request when that has arrived or with an error; it is called with another
\* answer only by a search that passes, and drops, some other request.
THEOREM RefinesHandlers == Spec => ImplementsHandlers
<1>1. Init => NInv
  BY NInvInit
<1>2. NInv /\ [Next]_vars => NInv' /\ [Handlers!Next]_(Handlers!vars)
  BY NInvNext
<1>3. Init => Handlers!Init
  BY DEF Init, Handlers!Init
<1> QED  BY <1>1, <1>2, <1>3, PTL DEF Spec, ImplementsHandlers, Handlers!Spec
=============================================================================
