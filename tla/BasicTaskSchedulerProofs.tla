---------------------- MODULE BasicTaskSchedulerProofs ----------------------
(***************************************************************************)
(* Theorems of BasicTaskScheduler, for any number of tasks and sockets and *)
(* any bounds: the relative delays of the queue stay what they stand for,  *)
(* deadlines, so that tasks run in time and in order; the loop sleeps no   *)
(* longer than it may; and select() sees every socket that has a handler.  *)
(***************************************************************************)
EXTENDS BasicTaskScheduler, LeastElements, FiniteSetTheorems, SequenceTheorems

Entry == [task : Tasks, delay : Nat]

(***************************************************************************)
(* The sums of delays.                                                     *)
(***************************************************************************)

\* f[n] is the sum of the first n delays of q.
Sums(f, q, m) ==
  /\ f \in [0..m -> Nat] /\ f[0] = 0
  /\ \A n \in 1..m : f[n] = f[n - 1] + q[n].delay

LEMMA SumsExist ==
  ASSUME NEW q \in Seq(Entry), NEW m \in 0..Len(q)
  PROVE  \E f : Sums(f, q, m)
<1> DEFINE T == {n \in 0..Len(q) : \E f : Sums(f, q, n)}
<1>1. PICK l \in Nat : l = Len(q)
  BY LenProperties
<1>2. 0 \in T
  <2>1. Sums([k \in 0..0 |-> 0], q, 0)
    BY DEF Sums
  <2> QED  BY <1>1, <2>1
<1>3. ASSUME NEW n \in 1..l, n - 1 \in T
      PROVE  n \in T
  <2>1. PICK f : Sums(f, q, n - 1)
    BY <1>3
  <2> DEFINE g == [k \in 0..n |-> IF k = n THEN f[n - 1] + q[n].delay ELSE f[k]]
  <2>2. q[n].delay \in Nat
    <3>1. q[n] \in Entry
      BY <1>1, ElementOfSeq
    <3> QED  BY <3>1 DEF Entry
  <2>3. f \in [0..(n - 1) -> Nat] /\ f[0] = 0 /\ n \in Nat /\ n - 1 \in Nat
    BY <2>1 DEF Sums
  <2>4. g[0] = 0 /\ g \in [0..n -> Nat]
    BY <2>2, <2>3
  <2>5. ASSUME NEW k \in 1..n
        PROVE  g[k] = g[k - 1] + q[k].delay
    BY <2>1, <2>3 DEF Sums
  <2>6. Sums(g, q, n)
    BY <2>4, <2>5 DEF Sums
  <2> QED  BY <1>1, <2>6
<1> HIDE DEF T
<1>4. \A n \in 0..l : n \in T
  BY <1>2, <1>3, UpTo
<1> QED  BY <1>1, <1>4 DEF T

\* What Until computes, one entry after the other.
LEMMA UntilSums ==
  ASSUME NEW q \in Seq(Entry)
  PROVE  Sums([i \in 0..Len(q) |-> Until(q, i)], q, Len(q))
<1> DEFINE Sum(f) == [n \in 0..Len(q) |-> IF n = 0 THEN 0 ELSE f[n - 1] + q[n].delay]
           F == CHOOSE f : f = Sum(f)
<1>1. PICK l \in Nat : l = Len(q)
  BY LenProperties
<1>2. PICK f : Sums(f, q, l)
  BY <1>1, SumsExist
<1>3. f = Sum(f)
  BY <1>1, <1>2 DEF Sums
<1>4. F = Sum(F)
  BY <1>3
<1>5. \A i \in 0..l : Until(q, i) = F[i]
  BY <1>1 DEF Until
<1> HIDE DEF F
<1>6. \A n \in 0..l : F[n] = IF n = 0 THEN 0 ELSE F[n - 1] + q[n].delay
  BY <1>1, <1>4
<1> DEFINE T == {n \in 0..l : F[n] = f[n]}
<1>7. 0 \in T
  BY <1>2, <1>6 DEF Sums
<1>8. ASSUME NEW n \in 1..l, n - 1 \in T
      PROVE  n \in T
  <2>1. F[n] = F[n - 1] + q[n].delay
    BY <1>6
  <2> QED  BY <1>2, <1>8, <2>1 DEF Sums
<1> HIDE DEF T
<1>9. \A n \in 0..l : n \in T
  BY <1>7, <1>8, UpTo
<1>10. [i \in 0..l |-> Until(q, i)] = f
  BY <1>2, <1>5, <1>9 DEF Sums, T
<1> QED  BY <1>1, <1>2, <1>10

LEMMA UntilStep ==
  ASSUME NEW q \in Seq(Entry)
  PROVE  /\ Until(q, 0) = 0
         /\ \A i \in 0..Len(q) : Until(q, i) \in Nat
         /\ \A i \in 1..Len(q) : /\ q[i].delay \in Nat /\ q[i].task \in Tasks
                                 /\ Until(q, i) = Until(q, i - 1) + q[i].delay
<1>1. PICK l \in Nat : l = Len(q)
  BY LenProperties
<1> DEFINE f == [i \in 0..l |-> Until(q, i)]
<1>2. Sums(f, q, l)
  BY <1>1, UntilSums
<1>3. \A i \in 1..l : q[i] \in Entry
  BY <1>1, ElementOfSeq
<1>4. \A i \in 0..l : f[i] = Until(q, i)
  OBVIOUS
<1> HIDE DEF f
<1>5. /\ Until(q, 0) = 0
      /\ \A i \in 0..l : Until(q, i) \in Nat
  BY <1>2, <1>4 DEF Sums
<1>6. \A i \in 1..l : Until(q, i) = Until(q, i - 1) + q[i].delay
  <2> SUFFICES ASSUME NEW i \in 1..l
               PROVE  Until(q, i) = Until(q, i - 1) + q[i].delay
    OBVIOUS
  <2>1. i \in 0..l /\ i - 1 \in 0..l
    OBVIOUS
  <2>2. f[i] = Until(q, i) /\ f[i - 1] = Until(q, i - 1)
    BY <1>4, <2>1
  <2> QED  BY <1>2, <2>2 DEF Sums
<1> QED  BY <1>1, <1>3, <1>5, <1>6 DEF Entry

\* Only one function adds up like this.
LEMMA UntilIs ==
  ASSUME NEW q \in Seq(Entry), NEW f, f[0] = 0,
         \A i \in 1..Len(q) : f[i] = f[i - 1] + q[i].delay
  PROVE  \A i \in 0..Len(q) : Until(q, i) = f[i]
<1>1. PICK l \in Nat : l = Len(q)
  BY LenProperties
<1> DEFINE T == {n \in 0..l : Until(q, n) = f[n]}
<1>2. 0 \in T
  BY UntilStep
<1>3. ASSUME NEW n \in 1..l, n - 1 \in T
      PROVE  n \in T
  <2>1. Until(q, n) = Until(q, n - 1) + q[n].delay
    BY <1>1, UntilStep
  <2> QED  BY <1>1, <1>3, <2>1
<1> HIDE DEF T
<1>4. \A n \in 0..l : n \in T
  BY <1>2, <1>3, UpTo
<1> QED  BY <1>1, <1>4 DEF T

\* Who stands further behind is not due earlier.
LEMMA UntilGrows ==
  ASSUME NEW q \in Seq(Entry), NEW j \in 0..Len(q), NEW i \in 0..j
  PROVE  Until(q, i) <= Until(q, j)
<1>1. PICK l \in Nat : l = Len(q)
  BY LenProperties
<1> DEFINE T == {n \in 0..l : n >= i => Until(q, i) <= Until(q, n)}
<1>2. \A n \in 0..l : Until(q, n) \in Nat
  BY <1>1, UntilStep
<1>3. 0 \in T
  BY <1>1, <1>2
<1>4. ASSUME NEW n \in 1..l, n - 1 \in T
      PROVE  n \in T
  <2>1. Until(q, n) = Until(q, n - 1) + q[n].delay /\ q[n].delay \in Nat
    BY <1>1, UntilStep
  <2> QED  BY <1>1, <1>2, <1>4, <2>1
<1> HIDE DEF T
<1>5. \A n \in 0..l : n \in T
  BY <1>3, <1>4, UpTo
<1> QED  BY <1>1, <1>5 DEF T

LEMMA MaxOfTwo ==
  ASSUME NEW a \in Int, NEW b \in Int
  PROVE  Max({a, b}) = IF a >= b THEN a ELSE b
<1>1. \E x \in {a, b} : \A y \in {a, b} : x >= y
  OBVIOUS
<1> QED  BY <1>1 DEF Max

LEMMA MinOfTwo ==
  ASSUME NEW a \in Int, NEW b \in Int
  PROVE  Min({a, b}) = IF a <= b THEN a ELSE b
<1>1. \E x \in {a, b} : \A y \in {a, b} : x <= y
  OBVIOUS
<1> QED  BY <1>1 DEF Min

(***************************************************************************)
(* Entries inserted into a sequence, and removed.                          *)
(***************************************************************************)

LEMMA InsertedAt ==
  ASSUME NEW S, NEW s \in Seq(S), NEW n \in 1..(Len(s) + 1), NEW e \in S
  PROVE  /\ InsertAt(s, n, e) \in Seq(S)
         /\ Len(InsertAt(s, n, e)) = Len(s) + 1
         /\ \A i \in 1..(n - 1) : InsertAt(s, n, e)[i] = s[i]
         /\ InsertAt(s, n, e)[n] = e
         /\ \A i \in n..Len(s) : InsertAt(s, n, e)[i + 1] = s[i]
<1>1. PICK l \in Nat : l = Len(s)
  BY LenProperties
<1>0. PICK k \in 0..l : n = k + 1 /\ k = n - 1
  BY <1>1
<1> DEFINE a == SubSeq(s, 1, k)
           b == SubSeq(s, k + 1, l)
<1>2. \A i \in 1..l : s[i] \in S
  BY <1>1, ElementOfSeq
<1>3. a \in Seq(S) /\ Len(a) = k /\ \A i \in 1..k : a[i] = s[i]
  <2>1. \A i \in 1..k : s[i] \in S
    BY <1>1, <1>2
  <2>2. k \in Int /\ 1 \in Int
    BY <1>1
  <2>3. /\ a \in Seq(S)
        /\ Len(a) = IF 1 <= k THEN k - 1 + 1 ELSE 0
        /\ \A i \in 1..(k - 1 + 1) : a[i] = s[1 + i - 1]
    BY ONLY <2>1, <2>2, SubSeqProperties
  <2> QED  BY <1>1, <2>3
<1>4. b \in Seq(S) /\ Len(b) = l - k /\ \A i \in 1..(l - k) : b[i] = s[k + i]
  <2>1. \A i \in (k + 1)..l : s[i] \in S
    BY <1>1, <1>2
  <2>2. k + 1 \in Int /\ l \in Int
    BY <1>1
  <2>3. /\ b \in Seq(S)
        /\ Len(b) = IF k + 1 <= l THEN l - (k + 1) + 1 ELSE 0
        /\ \A i \in 1..(l - (k + 1) + 1) : b[i] = s[k + 1 + i - 1]
    BY ONLY <2>1, <2>2, SubSeqProperties
  <2> QED  BY <1>1, <2>3
<1> DEFINE m == <<e>>
           r0 == a \o m \o b
<1>5. InsertAt(s, n, e) = r0
  <2>1. InsertAt(s, n, e) = SubSeq(s, 1, n - 1) \o <<e>> \o SubSeq(s, n, Len(s))
    BY Zenon DEF InsertAt
  <2> QED  BY <1>0, <1>1, <2>1, Zenon
<1>6. m \in Seq(S) /\ Len(m) = 1 /\ m[1] = e
  <2>1. m \in [1..1 -> S]
    OBVIOUS
  <2> QED  BY <2>1
<1> HIDE DEF a, b, m
<1> DEFINE am == a \o m
<1>7. /\ am \in Seq(S) /\ Len(am) = k + 1
      /\ \A i \in 1..(k + 1) : am[i] = IF i <= k THEN a[i] ELSE m[i - k]
  <2>1. /\ am \in Seq(S) /\ Len(am) = Len(a) + Len(m)
        /\ \A i \in 1..(Len(a) + Len(m)) :
             am[i] = IF i <= Len(a) THEN a[i] ELSE m[i - Len(a)]
    BY ONLY <1>3, <1>6, ConcatProperties
  <2> QED  BY <1>1, <1>3, <1>6, <2>1
<1> HIDE DEF am
<1> DEFINE r == am \o b
<1>8. /\ r \in Seq(S) /\ Len(r) = k + 1 + (l - k)
      /\ \A i \in 1..(k + 1 + (l - k)) :
           r[i] = IF i <= k + 1 THEN am[i] ELSE b[i - (k + 1)]
  <2>1. /\ r \in Seq(S) /\ Len(r) = Len(am) + Len(b)
        /\ \A i \in 1..(Len(am) + Len(b)) :
             r[i] = IF i <= Len(am) THEN am[i] ELSE b[i - Len(am)]
    BY ONLY <1>4, <1>7, ConcatProperties
  <2> QED  BY <1>1, <1>4, <1>7, <2>1
<1>9. InsertAt(s, n, e) = r
  BY <1>5 DEF am
<1> HIDE DEF r
<1>10. ASSUME NEW i \in 1..k
       PROVE  r[i] = s[i]
  <2>1. i \in 1..(k + 1) /\ i \in 1..(k + 1 + (l - k)) /\ i <= k /\ i <= k + 1
    BY <1>1
  <2>2. r[i] = am[i]
    BY <1>8, <2>1
  <2> QED  BY <1>3, <1>7, <2>1, <2>2
<1>11. r[k + 1] = e
  <2>1. /\ (k + 1) - k = 1 /\ k + 1 \in 1..(k + 1) /\ ~(k + 1 <= k)
        /\ k + 1 \in 1..(k + 1 + (l - k))
    BY <1>1
  <2>2. am[k + 1] = m[(k + 1) - k]
    BY <1>7, <2>1
  <2>3. r[k + 1] = am[k + 1]
    BY <1>1, <1>8, <2>1
  <2> QED  BY <1>6, <2>1, <2>2, <2>3
<1>12. ASSUME NEW i \in (k + 1)..l
       PROVE  r[i + 1] = s[i]
  <2>1. PICK j \in 1..(l - k) : i = k + j /\ j = (i + 1) - (k + 1)
    BY <1>1
  <2>2. ~(i + 1 <= k + 1) /\ i + 1 \in 1..(k + 1 + (l - k))
    BY <1>1
  <2>3. r[i + 1] = b[(i + 1) - (k + 1)]
    BY <1>8, <2>2
  <2> QED  BY <1>4, <2>1, <2>3
<1>13. r \in Seq(S) /\ Len(r) = l + 1
  BY <1>1, <1>8
<1> QED  BY <1>0, <1>1, <1>9, <1>10, <1>11, <1>12, <1>13

LEMMA RemovedAt ==
  ASSUME NEW S, NEW s \in Seq(S), NEW k \in 1..Len(s)
  PROVE  /\ RemoveAt(s, k) \in Seq(S)
         /\ Len(RemoveAt(s, k)) = Len(s) - 1
         /\ \A i \in 1..(k - 1) : RemoveAt(s, k)[i] = s[i]
         /\ \A i \in k..(Len(s) - 1) : RemoveAt(s, k)[i] = s[i + 1]
<1>1. PICK l \in Nat : l = Len(s)
  BY LenProperties
<1> DEFINE a == SubSeq(s, 1, k - 1)
           b == SubSeq(s, k + 1, l)
<1>2. \A i \in 1..l : s[i] \in S
  BY <1>1, ElementOfSeq
<1>3. a \in Seq(S) /\ Len(a) = k - 1 /\ \A i \in 1..(k - 1) : a[i] = s[i]
  <2>1. \A i \in 1..(k - 1) : s[i] \in S
    BY <1>1, <1>2
  <2>2. k - 1 \in Int /\ 1 \in Int
    BY <1>1
  <2>3. /\ a \in Seq(S)
        /\ Len(a) = IF 1 <= k - 1 THEN k - 1 - 1 + 1 ELSE 0
        /\ \A i \in 1..(k - 1 - 1 + 1) : a[i] = s[1 + i - 1]
    BY ONLY <2>1, <2>2, SubSeqProperties
  <2> QED  BY <1>1, <2>3
<1>4. b \in Seq(S) /\ Len(b) = l - k /\ \A i \in 1..(l - k) : b[i] = s[k + i]
  <2>1. \A i \in (k + 1)..l : s[i] \in S
    BY <1>1, <1>2
  <2>2. k + 1 \in Int /\ l \in Int
    BY <1>1
  <2>3. /\ b \in Seq(S)
        /\ Len(b) = IF k + 1 <= l THEN l - (k + 1) + 1 ELSE 0
        /\ \A i \in 1..(l - (k + 1) + 1) : b[i] = s[k + 1 + i - 1]
    BY ONLY <2>1, <2>2, SubSeqProperties
  <2>4. k \in Int /\ l \in Int /\ k <= l
    BY <1>1
  <2>5. l - (k + 1) + 1 = l - k /\ Len(b) = l - k
    <3> HIDE DEF b
    <3> QED  BY <2>3, <2>4
  <2>6. \A i \in 1..(l - k) : k + 1 + i - 1 = k + i
    BY <2>4
  <2>7. \A i \in 1..(l - k) : b[i] = s[k + i]
    <3> HIDE DEF b
    <3> QED  BY <2>3, <2>5, <2>6
  <2> QED  BY <2>3, <2>5, <2>7
<1> DEFINE r == a \o b
<1>5. RemoveAt(s, k) = r
  BY <1>1 DEF RemoveAt
<1> HIDE DEF a, b
<1>6. /\ r \in Seq(S) /\ Len(r) = k - 1 + (l - k)
      /\ \A i \in 1..(k - 1 + (l - k)) : r[i] = IF i <= k - 1 THEN a[i] ELSE b[i - (k - 1)]
  <2>1. a \in Seq(S) /\ b \in Seq(S)
    BY <1>3, <1>4
  <2>2. /\ a \o b \in Seq(S) /\ Len(a \o b) = Len(a) + Len(b)
        /\ \A i \in 1..(Len(a) + Len(b)) :
             (a \o b)[i] = IF i <= Len(a) THEN a[i] ELSE b[i - Len(a)]
    BY ONLY <2>1, ConcatProperties
  <2>3. Len(a) = k - 1 /\ Len(b) = l - k
    BY <1>3, <1>4
  <2> QED  BY <2>2, <2>3
<1> HIDE DEF r
<1>7. \A i \in 1..(k - 1) : r[i] = s[i]
  BY <1>1, <1>3, <1>6
<1>8. ASSUME NEW i \in k..(l - 1)
      PROVE  r[i] = s[i + 1]
  <2>1. r[i] = b[i - (k - 1)]
    BY <1>1, <1>6
  <2>2. i - (k - 1) \in 1..(l - k) /\ k + (i - (k - 1)) = i + 1
    BY <1>1
  <2> QED  BY <1>4, <2>1, <2>2
<1>9. r \in Seq(S) /\ Len(r) = l - 1
  BY <1>1, <1>6
<1> QED  BY <1>1, <1>5, <1>7, <1>8, <1>9

(***************************************************************************)
(* The operations of the queue: what they do to the sums of delays, that   *)
(* is, to the times until the tasks are due.                               *)
(***************************************************************************)

\* The time that synchronize() takes off.
Elapsed == IF TimeNow < lastSync THEN 0 ELSE TimeNow - lastSync

LEMMA SynchronizedIs ==
  ASSUME queue \in Seq(Entry), now \in Nat, jumped \in Nat, lastSync \in Int
  PROVE  /\ Synchronized \in Seq(Entry) /\ Len(Synchronized) = Len(queue)
         /\ \A i \in 1..Len(queue) :
              /\ Synchronized[i].task = queue[i].task
              /\ Until(Synchronized, i) =
                   IF Until(queue, i) <= Elapsed THEN 0 ELSE Until(queue, i) - Elapsed
<1>1. PICK l \in Nat : l = Len(queue)
  BY LenProperties
<1>2. Elapsed \in Nat
  BY DEF Elapsed, TimeNow
<1> DEFINE Left(i) == Max({0, Until(queue, i) - Elapsed})
           S == [i \in DOMAIN queue |-> [queue[i] EXCEPT !.delay = Left(i) - Left(i - 1)]]
<1>3. Synchronized = S
  BY DEF Synchronized, Elapsed
<1>4. ASSUME NEW i \in 0..l
      PROVE  /\ Until(queue, i) \in Nat /\ Left(i) \in Nat
             /\ Left(i) = IF Until(queue, i) <= Elapsed THEN 0 ELSE Until(queue, i) - Elapsed
  <2>1. Until(queue, i) \in Nat
    BY <1>1, UntilStep
  <2> QED  BY <1>2, <2>1, MaxOfTwo
<1>5. Left(0) = 0
  BY <1>2, <1>4, UntilStep
<1> HIDE DEF Left
<1>6. ASSUME NEW i \in 1..l
      PROVE  /\ S[i] \in Entry /\ S[i].task = queue[i].task
             /\ S[i].delay = Left(i) - Left(i - 1)
  <2>1. i \in 0..l /\ i - 1 \in 0..l /\ i \in DOMAIN queue /\ queue[i] \in Entry
    BY <1>1, LenProperties, ElementOfSeq
  <2>2. Until(queue, i) = Until(queue, i - 1) + queue[i].delay /\ queue[i].delay \in Nat
    BY <1>1, UntilStep
  <2>3. Left(i) - Left(i - 1) \in Nat
    <3>1. /\ Until(queue, i) \in Nat
          /\ Left(i) = IF Until(queue, i) <= Elapsed THEN 0 ELSE Until(queue, i) - Elapsed
      BY <1>4, <2>1
    <3>2. /\ Until(queue, i - 1) \in Nat
          /\ Left(i - 1) = IF Until(queue, i - 1) <= Elapsed THEN 0
                          ELSE Until(queue, i - 1) - Elapsed
      BY <1>4, <2>1
    <3> QED  BY <1>2, <2>2, <3>1, <3>2
  <2>4. S[i] = [queue[i] EXCEPT !.delay = Left(i) - Left(i - 1)]
    BY <2>1
  <2> QED  BY <2>1, <2>3, <2>4 DEF Entry
<1>7. S \in Seq(Entry) /\ Len(S) = l
  <2>1. DOMAIN S = 1..l
    BY <1>1, LenProperties
  <2>2. S \in [1..l -> Entry]
    BY <1>6, <2>1
  <2> QED  BY <2>2
<1> HIDE DEF S
<1> DEFINE L == [i \in 0..l |-> Left(i)]
<1>8. \A i \in 0..l : L[i] = Left(i)
  OBVIOUS
<1> HIDE DEF L
<1>9. \A i \in 1..l : L[i] = L[i - 1] + S[i].delay
  <2> SUFFICES ASSUME NEW i \in 1..l
               PROVE  L[i] = L[i - 1] + S[i].delay
    OBVIOUS
  <2>1. i \in 0..l /\ i - 1 \in 0..l
    OBVIOUS
  <2> QED  BY <1>4, <1>6, <1>8, <2>1
<1>10. \A i \in 0..Len(S) : Until(S, i) = L[i]
  <2>1. L[0] = 0 /\ \A i \in 1..Len(S) : L[i] = L[i - 1] + S[i].delay
    BY <1>5, <1>7, <1>8, <1>9
  <2>2. S \in Seq(Entry)
    BY <1>7
  <2> QED  BY ONLY <2>1, <2>2, UntilIs
<1>11. \A i \in 1..l : Until(S, i) = Left(i)
  BY <1>7, <1>8, <1>10
<1> QED  BY <1>1, <1>3, <1>4, <1>6, <1>7, <1>11

\* r is q with an entry for t behind the first k.
OneMore(r, q, t, delay, k) ==
  /\ r \in Seq(Entry) /\ Len(r) = Len(q) + 1
  /\ \A i \in 1..k : r[i].task = q[i].task /\ Until(r, i) = Until(q, i)
  /\ r[k + 1].task = t /\ Until(r, k + 1) = delay
  /\ \A i \in (k + 1)..Len(q) : r[i + 1].task = q[i].task /\ Until(r, i + 1) = Until(q, i)

\* The entries that stay where they are are those that are due no later.
LEMMA InsertedIs ==
  ASSUME NEW q \in Seq(Entry), NEW t \in Tasks, NEW delay \in Nat
  PROVE  \E k \in 0..Len(q) :
           /\ \A i \in 1..Len(q) : Until(q, i) <= delay <=> i <= k
           /\ OneMore(Inserted(q, t, delay), q, t, delay, k)
<1>1. PICK l \in Nat : l = Len(q)
  BY LenProperties
<1>2. PICK k \in 0..l : \A i \in 1..l : Until(q, i) <= delay <=> i <= k
  <2> DEFINE B == {i \in 0..l : Until(q, i) <= delay}
  <2>1. 0 \in B /\ B \subseteq 0..l
    BY UntilStep
  <2>2. PICK k \in B : \A i \in B : i <= k
    BY <2>1, GreatestExists
  <2>3. ASSUME NEW i \in 1..l, i <= k
        PROVE  Until(q, i) <= delay
    <3>1. i \in 0..k /\ k \in 0..Len(q) /\ i \in 0..Len(q)
      BY <1>1, <2>3
    <3>2. Until(q, i) <= Until(q, k)
      BY <3>1, UntilGrows
    <3>3. Until(q, i) \in Nat /\ Until(q, k) \in Nat /\ Until(q, k) <= delay
      BY <3>1, UntilStep
    <3> QED  BY <3>2, <3>3
  <2>4. \A i \in 1..l : Until(q, i) <= delay => i <= k
    BY <2>2
  <2> QED  BY <2>3, <2>4
<1> DEFINE own  == delay - Until(q, k)
           rest == IF k < Len(q) THEN [q EXCEPT ![k + 1].delay = @ - own] ELSE q
           e    == [task |-> t, delay |-> own]
           r    == InsertAt(rest, k + 1, e)
<1>3. Inserted(q, t, delay) = r
  <2>1. {i \in DOMAIN q : Until(q, i) <= delay} = 1..k
    BY <1>1, <1>2, LenProperties
  <2>2. Cardinality(1..k) = k
    BY FS_Interval
  <2> QED  BY <2>1, <2>2 DEF Inserted
<1>4. ASSUME NEW i \in 1..l
      PROVE  /\ Until(q, i) \in Nat /\ Until(q, i - 1) \in Nat
             /\ q[i] \in Entry /\ q[i].delay \in Nat
             /\ Until(q, i) = Until(q, i - 1) + q[i].delay
  <2>1. i \in 0..Len(q) /\ i - 1 \in 0..Len(q) /\ i \in 1..Len(q)
    BY <1>1
  <2>2. /\ Until(q, i) \in Nat /\ Until(q, i - 1) \in Nat
        /\ q[i].delay \in Nat /\ Until(q, i) = Until(q, i - 1) + q[i].delay
    BY <2>1, UntilStep
  <2>3. q[i] \in Entry
    BY <2>1, ElementOfSeq
  <2> QED  BY <2>2, <2>3
<1>5. Until(q, k) \in Nat /\ Until(q, k) <= delay /\ own \in Nat
  <2>1. CASE k = 0
    BY <2>1, UntilStep
  <2>2. CASE k # 0
    BY <1>1, <1>2, <1>4, <2>2
  <2> QED  BY <2>1, <2>2
<1>6. k < l => q[k + 1].delay - own = Until(q, k + 1) - delay /\ q[k + 1].delay - own \in Nat
  <2> SUFFICES ASSUME k < l
               PROVE  /\ q[k + 1].delay - own = Until(q, k + 1) - delay
                      /\ q[k + 1].delay - own \in Nat
    OBVIOUS
  <2>1. k + 1 \in 1..l /\ (k + 1) - 1 = k /\ ~(k + 1 <= k)
    BY <1>1
  <2>2. /\ Until(q, k + 1) \in Nat /\ q[k + 1].delay \in Nat
        /\ Until(q, k + 1) = Until(q, k) + q[k + 1].delay
    BY <1>4, <2>1
  <2>3. ~(Until(q, k + 1) <= delay)
    BY <1>2, <2>1
  <2> QED  BY <1>5, <2>2, <2>3
<1> HIDE DEF own
<1>7. /\ rest \in Seq(Entry) /\ Len(rest) = l
      /\ \A i \in 1..l : /\ rest[i].task = q[i].task
                         /\ rest[i].delay = IF i = k + 1 THEN q[i].delay - own ELSE q[i].delay
  <2>1. CASE k < l
    <3> DEFINE c == [q[k + 1] EXCEPT !.delay = @ - own]
    <3>1. k + 1 \in 1..Len(q) /\ q[k + 1] \in Entry
      BY <1>1, <1>4, <2>1
    <3>2. c \in Entry /\ c.task = q[k + 1].task /\ c.delay = q[k + 1].delay - own
      BY <1>6, <2>1, <3>1 DEF Entry
    <3>3. rest = [q EXCEPT ![k + 1] = c]
      BY <1>1, <2>1
    <3> HIDE DEF c, rest
    <3>4. /\ rest \in Seq(Entry) /\ Len(rest) = Len(q)
          /\ \A j \in 1..Len(q) : rest[j] = IF j = k + 1 THEN c ELSE q[j]
      BY ONLY <3>1, <3>2, <3>3, ExceptSeq
    <3> QED  BY <1>1, <3>2, <3>4
  <2>2. CASE ~(k < l)
    <3>1. rest = q /\ \A i \in 1..l : i # k + 1
      BY <1>1, <2>2
    <3> QED  BY <1>1, <3>1
  <2> QED  BY <2>1, <2>2
<1>8. e \in Entry /\ e.task = t /\ e.delay = own
  BY <1>5 DEF Entry
<1> HIDE DEF rest, e
<1>9. /\ r \in Seq(Entry) /\ Len(r) = l + 1
      /\ \A i \in 1..k : r[i] = rest[i]
      /\ r[k + 1] = e
      /\ \A i \in (k + 1)..l : r[i + 1] = rest[i]
  <2>1. PICK n \in 1..(Len(rest) + 1) : n = k + 1 /\ k = n - 1
    BY <1>1, <1>7
  <2> DEFINE rn == InsertAt(rest, n, e)
  <2>4. rest \in Seq(Entry) /\ e \in Entry
    BY <1>7, <1>8
  <2>2. /\ rn \in Seq(Entry) /\ Len(rn) = Len(rest) + 1
        /\ \A i \in 1..(n - 1) : rn[i] = rest[i]
        /\ rn[n] = e
        /\ \A i \in n..Len(rest) : rn[i + 1] = rest[i]
    BY ONLY <2>1, <2>4, InsertedAt
  <2>3. r = rn
    BY <2>1
  <2> HIDE DEF rn, r
  <2> QED  BY <1>7, <2>1, <2>2, <2>3
<1> HIDE DEF r
<1> DEFINE f == [i \in 0..(l + 1) |-> IF i <= k THEN Until(q, i)
                                      ELSE IF i = k + 1 THEN delay ELSE Until(q, i - 1)]
<1>10. \A i \in 0..(l + 1) : f[i] = IF i <= k THEN Until(q, i)
                                   ELSE IF i = k + 1 THEN delay ELSE Until(q, i - 1)
  OBVIOUS
<1> HIDE DEF f
<1>11. f[0] = 0
  BY <1>1, <1>10, UntilStep
<1>12. ASSUME NEW i \in 1..(l + 1)
       PROVE  f[i] = f[i - 1] + r[i].delay
  <2>1. i \in 0..(l + 1) /\ i - 1 \in 0..(l + 1)
    BY <1>1
  <2>2. CASE i <= k
    <3>1. i \in 1..k /\ i \in 1..l /\ i - 1 <= k /\ i # k + 1
      BY <1>1, <2>2
    <3>2. f[i] = Until(q, i) /\ f[i - 1] = Until(q, i - 1)
      BY <1>10, <2>1, <2>2, <3>1
    <3>3. r[i].delay = q[i].delay
      BY <1>7, <1>9, <3>1
    <3> QED  BY <1>4, <3>1, <3>2, <3>3
  <2>3. CASE i = k + 1
    <3>1. ~(i <= k) /\ i - 1 = k
      BY <1>1, <2>3
    <3>2. f[i] = delay /\ f[i - 1] = Until(q, k)
      BY <1>10, <2>1, <2>3, <3>1
    <3> QED  BY <1>5, <1>8, <1>9, <2>3, <3>2 DEF own
  <2>4. CASE i = k + 2
    <3>1. ~(i <= k) /\ i # k + 1 /\ i - 1 = k + 1 /\ ~(i - 1 <= k)
      BY <1>1, <2>4
    <3>2. f[i] = Until(q, k + 1) /\ f[i - 1] = delay
      BY <1>10, <2>1, <3>1
    <3>3. k < l /\ k + 1 \in (k + 1)..l /\ k + 1 \in 1..l /\ i = (k + 1) + 1
      BY <1>1, <2>4
    <3>4. r[i].delay = q[k + 1].delay - own
      BY <1>7, <1>9, <3>3
    <3>5. Until(q, k + 1) \in Nat
      BY <1>4, <3>3
    <3> QED  BY <1>6, <3>2, <3>3, <3>4, <3>5
  <2>5. CASE i > k + 2
    <3>1. ~(i <= k) /\ i # k + 1 /\ i - 1 # k + 1 /\ ~(i - 1 <= k)
      BY <1>1, <2>5
    <3> DEFINE j == i - 1
    <3>2. j \in (k + 1)..l /\ j \in 1..l /\ i = j + 1 /\ j # k + 1
      BY <1>1, <2>5
    <3>3. f[i] = Until(q, j) /\ f[i - 1] = Until(q, j - 1)
      BY <1>10, <2>1, <3>1
    <3>4. r[i].delay = q[j].delay
      BY <1>7, <1>9, <3>2
    <3> QED  BY <1>4, <3>2, <3>3, <3>4
  <2> QED  BY <1>1, <2>2, <2>3, <2>4, <2>5
<1>13. \A i \in 0..(l + 1) : Until(r, i) = f[i]
  <2>1. \A i \in 1..Len(r) : f[i] = f[i - 1] + r[i].delay
    BY <1>9, <1>12
  <2>2. r \in Seq(Entry)
    BY <1>9
  <2>3. \A i \in 0..Len(r) : Until(r, i) = f[i]
    BY ONLY <1>11, <2>1, <2>2, UntilIs
  <2> QED  BY <1>9, <2>3
<1>14. ASSUME NEW i \in 1..k
       PROVE  r[i].task = q[i].task /\ Until(r, i) = Until(q, i)
  <2>1. i \in 0..(l + 1) /\ i <= k /\ i \in 1..l
    BY <1>1
  <2> QED  BY <1>7, <1>9, <1>10, <1>13, <2>1
<1>15. r[k + 1].task = t /\ Until(r, k + 1) = delay
  BY <1>1, <1>8, <1>9, <1>10, <1>13
<1>16. ASSUME NEW i \in (k + 1)..l
       PROVE  r[i + 1].task = q[i].task /\ Until(r, i + 1) = Until(q, i)
  <2>1. i + 1 \in 0..(l + 1) /\ ~(i + 1 <= k) /\ i + 1 # k + 1 /\ (i + 1) - 1 = i
        /\ i \in 1..l
    BY <1>1
  <2> QED  BY <1>7, <1>9, <1>10, <1>13, <2>1
<1>17. OneMore(r, q, t, delay, k)
  BY <1>1, <1>9, <1>14, <1>15, <1>16 DEF OneMore
<1> QED  BY <1>1, <1>2, <1>3, <1>17

\* r is q without its entry n.
OneLess(r, q, n) ==
  /\ r \in Seq(Entry) /\ Len(r) = Len(q) - 1
  /\ \A i \in 1..(n - 1) : r[i].task = q[i].task /\ Until(r, i) = Until(q, i)
  /\ \A i \in n..(Len(q) - 1) :
       r[i].task = q[i + 1].task /\ Until(r, i) = Until(q, i + 1)

LEMMA RemovedIs ==
  ASSUME NEW q \in Seq(Entry), NEW n \in 1..Len(q)
  PROVE  OneLess(Removed(q, n), q, n)
<1>1. PICK l \in Nat : l = Len(q)
  BY LenProperties
<1> DEFINE c    == [q[n + 1] EXCEPT !.delay = @ + q[n].delay]
           rest == IF n < Len(q) THEN [q EXCEPT ![n + 1].delay = @ + q[n].delay] ELSE q
           r    == RemoveAt(rest, n)
<1>2. Removed(q, n) = r
  BY DEF Removed
<1>3. ASSUME NEW i \in 1..l
      PROVE  /\ Until(q, i) \in Nat /\ Until(q, i - 1) \in Nat
             /\ q[i] \in Entry /\ q[i].delay \in Nat
             /\ Until(q, i) = Until(q, i - 1) + q[i].delay
  <2>1. i \in 0..Len(q) /\ i - 1 \in 0..Len(q) /\ i \in 1..Len(q)
    BY <1>1
  <2>2. /\ Until(q, i) \in Nat /\ Until(q, i - 1) \in Nat
        /\ q[i].delay \in Nat /\ Until(q, i) = Until(q, i - 1) + q[i].delay
    BY <2>1, UntilStep
  <2>3. q[i] \in Entry
    BY <2>1, ElementOfSeq
  <2> QED  BY <2>2, <2>3
<1>4. /\ rest \in Seq(Entry) /\ Len(rest) = l
      /\ \A i \in 1..l : /\ rest[i].task = q[i].task
                         /\ rest[i].delay = IF i = n + 1 THEN q[i].delay + q[n].delay
                                            ELSE q[i].delay
  <2>1. CASE n < l
    <3>1. n + 1 \in 1..Len(q) /\ q[n + 1] \in Entry /\ q[n].delay \in Nat
      BY <1>1, <1>3, <2>1
    <3>2. c \in Entry /\ c.task = q[n + 1].task /\ c.delay = q[n + 1].delay + q[n].delay
      BY <3>1 DEF Entry
    <3>3. rest = [q EXCEPT ![n + 1] = c]
      BY <1>1, <2>1
    <3> HIDE DEF c, rest
    <3>4. /\ rest \in Seq(Entry) /\ Len(rest) = Len(q)
          /\ \A j \in 1..Len(q) : rest[j] = IF j = n + 1 THEN c ELSE q[j]
      BY ONLY <3>1, <3>2, <3>3, ExceptSeq
    <3> QED  BY <1>1, <3>2, <3>4
  <2>2. CASE ~(n < l)
    <3>1. rest = q /\ \A i \in 1..l : i # n + 1
      BY <1>1, <2>2
    <3> QED  BY <1>1, <3>1
  <2> QED  BY <2>1, <2>2
<1> HIDE DEF rest
<1>5. /\ r \in Seq(Entry) /\ Len(r) = l - 1
      /\ \A i \in 1..(n - 1) : r[i] = rest[i]
      /\ \A i \in n..(l - 1) : r[i] = rest[i + 1]
  <2>1. n \in 1..Len(rest)
    BY <1>1, <1>4
  <2>2. /\ r \in Seq(Entry) /\ Len(r) = Len(rest) - 1
        /\ \A i \in 1..(n - 1) : r[i] = rest[i]
        /\ \A i \in n..(Len(rest) - 1) : r[i] = rest[i + 1]
    BY ONLY <1>4, <2>1, RemovedAt
  <2> QED  BY <1>4, <2>2
<1> HIDE DEF r
<1> DEFINE f == [i \in 0..(l - 1) |-> IF i < n THEN Until(q, i) ELSE Until(q, i + 1)]
<1>6. \A i \in 0..(l - 1) : f[i] = IF i < n THEN Until(q, i) ELSE Until(q, i + 1)
  OBVIOUS
<1> HIDE DEF f
<1>7. f[0] = 0
  BY <1>1, <1>6, UntilStep
<1>8. ASSUME NEW i \in 1..(l - 1)
      PROVE  f[i] = f[i - 1] + r[i].delay
  <2>1. i \in 0..(l - 1) /\ i - 1 \in 0..(l - 1) /\ i \in 1..l /\ i + 1 \in 1..l
    BY <1>1
  <2>2. CASE i < n
    <3>1. i \in 1..(n - 1) /\ i - 1 < n /\ i # n + 1
      BY <1>1, <2>2
    <3>2. f[i] = Until(q, i) /\ f[i - 1] = Until(q, i - 1)
      BY <1>6, <2>1, <2>2, <3>1
    <3>3. r[i].delay = q[i].delay
      BY <1>4, <1>5, <2>1, <3>1
    <3> QED  BY <1>3, <2>1, <3>2, <3>3
  <2>3. CASE i = n
    <3>1. ~(i < n) /\ i - 1 < n /\ i \in n..(l - 1)
      BY <1>1, <2>3
    <3>2. f[i] = Until(q, i + 1) /\ f[i - 1] = Until(q, i - 1)
      BY <1>6, <2>1, <3>1
    <3>3. r[i].delay = q[i + 1].delay + q[i].delay
      BY <1>4, <1>5, <2>1, <2>3, <3>1
    <3>4. /\ Until(q, i) = Until(q, i - 1) + q[i].delay
          /\ Until(q, i - 1) \in Nat /\ q[i].delay \in Nat
      BY <1>3, <2>1
    <3>5. Until(q, i + 1) = Until(q, (i + 1) - 1) + q[i + 1].delay /\ q[i + 1].delay \in Nat
      BY <1>3, <2>1
    <3>6. (i + 1) - 1 = i
      BY <1>1
    <3> QED  BY <3>2, <3>3, <3>4, <3>5, <3>6
  <2>4. CASE i > n
    <3>1. ~(i < n) /\ ~(i - 1 < n) /\ i \in n..(l - 1) /\ i + 1 # n + 1 /\ (i - 1) + 1 = i
          /\ (i + 1) - 1 = i
      BY <1>1, <2>4
    <3>2. f[i] = Until(q, i + 1) /\ f[i - 1] = Until(q, i)
      BY <1>6, <2>1, <3>1
    <3>3. r[i].delay = q[i + 1].delay
      BY <1>4, <1>5, <2>1, <3>1
    <3>4. Until(q, i + 1) = Until(q, (i + 1) - 1) + q[i + 1].delay
      BY <1>3, <2>1
    <3> QED  BY <3>1, <3>2, <3>3, <3>4
  <2> QED  BY <1>1, <2>2, <2>3, <2>4
<1>9. \A i \in 0..(l - 1) : Until(r, i) = f[i]
  <2>1. \A i \in 1..Len(r) : f[i] = f[i - 1] + r[i].delay
    BY <1>5, <1>8
  <2>2. r \in Seq(Entry)
    BY <1>5
  <2>3. \A i \in 0..Len(r) : Until(r, i) = f[i]
    BY ONLY <1>7, <2>1, <2>2, UntilIs
  <2> QED  BY <1>5, <2>3
<1>10. ASSUME NEW i \in 1..(n - 1)
       PROVE  r[i].task = q[i].task /\ Until(r, i) = Until(q, i)
  <2>1. i \in 0..(l - 1) /\ i < n /\ i \in 1..l
    BY <1>1
  <2> QED  BY <1>4, <1>5, <1>6, <1>9, <2>1
<1>11. ASSUME NEW i \in n..(l - 1)
       PROVE  r[i].task = q[i + 1].task /\ Until(r, i) = Until(q, i + 1)
  <2>1. i \in 0..(l - 1) /\ ~(i < n) /\ i + 1 \in 1..l
    BY <1>1
  <2> QED  BY <1>4, <1>5, <1>6, <1>9, <2>1
<1> QED  BY <1>1, <1>2, <1>5, <1>10, <1>11 DEF OneLess

(***************************************************************************)
(* What holds of the queue: there is one entry for each pending task, and  *)
(* the entry comes up when the task is due.                                *)
(***************************************************************************)

Dues == [Tasks -> Nat \cup {NotPending}]
Awaited(d) == {t \in Tasks : d[t] # NotPending}

\* The entries of q are the tasks that are pending, with deadlines d.
Entries(q, d) ==
  /\ q \in Seq(Entry) /\ d \in Dues
  /\ \A i, j \in 1..Len(q) : q[i].task = q[j].task => i = j
  /\ \A i \in 1..Len(q) : q[i].task \in Awaited(d)
  /\ \A t \in Awaited(d) : \E i \in 1..Len(q) : q[i].task = t
  /\ IsFiniteSet(Awaited(d)) /\ Len(q) = Cardinality(Awaited(d))

\* Entry i of a queue that was synchronized at s comes up no earlier than its
\* task is due.  While there is time left, it comes up no later, either: only
\* a clock that is set back delays it.
InTime(q, d, s) ==
  \A i \in 1..Len(q) :
    /\ d[q[i].task] <= now + Until(q, i)
    /\ d[q[i].task] <= s + jumped + Until(q, i)
    /\ Until(q, i) > 0 => s + Until(q, i) <= d[q[i].task]

\* No task stands before one that was due earlier, as far as the clock goes.
InOrder(q, d) ==
  \A i, j \in 1..Len(q) : i < j => d[q[i].task] <= d[q[j].task] + jumped

Right(q, d, s) == Entries(q, d) /\ InTime(q, d, s) /\ InOrder(q, d)

Clocks == now \in Nat /\ jumped \in Nat /\ lastSync \in Int

\* The deadline of an entry.
LEMMA DueIs ==
  ASSUME NEW q, NEW d, Entries(q, d), NEW i \in 1..Len(q)
  PROVE  /\ q[i].task \in Tasks /\ d[q[i].task] \in Nat
         /\ Until(q, i) \in Nat
<1>1. Until(q, i) \in Nat
  BY UntilStep DEF Entries
<1>2. q[i].task \in Awaited(d)
  BY DEF Entries
<1> QED  BY <1>1, <1>2 DEF Entries, Awaited, Dues

LEMMA SynchronizedRight ==
  ASSUME Clocks, Right(queue, due, lastSync)
  PROVE  Right(Synchronized, due, TimeNow)
<1> DEFINE S == Synchronized
<1>1. PICK l \in Nat : l = Len(queue)
  BY LenProperties DEF Right, Entries
<1>2. /\ S \in Seq(Entry) /\ Len(S) = l
      /\ \A i \in 1..l :
           /\ S[i].task = queue[i].task
           /\ Until(S, i) = IF Until(queue, i) <= Elapsed THEN 0 ELSE Until(queue, i) - Elapsed
  BY <1>1, SynchronizedIs DEF Clocks, Right, Entries
<1> HIDE DEF S
<1>3. Entries(S, due)
  BY <1>1, <1>2 DEF Right, Entries
<1>4. ASSUME NEW i \in 1..l
      PROVE  /\ due[S[i].task] <= now + Until(S, i)
             /\ due[S[i].task] <= TimeNow + jumped + Until(S, i)
             /\ Until(S, i) > 0 => TimeNow + Until(S, i) <= due[S[i].task]
  <2> DEFINE d == due[S[i].task]
             u == Until(queue, i)
  <2>1. /\ S[i].task = queue[i].task
        /\ Until(S, i) = IF u <= Elapsed THEN 0 ELSE u - Elapsed
    BY <1>2
  <2>2. d \in Nat /\ u \in Nat
    BY <1>1, <2>1, DueIs DEF Right
  <2>3. d <= now + u /\ d <= lastSync + jumped + u /\ (u > 0 => lastSync + u <= d)
    BY <1>1, <2>1 DEF Right, InTime
  <2> HIDE DEF d, u
  <2>4. Elapsed \in Nat /\ TimeNow \in Int /\ TimeNow + jumped = now
    BY DEF Elapsed, TimeNow, Clocks
  <2>5. CASE TimeNow < lastSync
    <3>1. Elapsed = 0
      BY <2>5 DEF Elapsed
    <3>2. Until(S, i) = u
      BY <2>1, <2>2, <3>1
    <3> QED  BY <2>2, <2>3, <2>4, <2>5, <3>2 DEF Clocks, d
  <2>6. CASE ~(TimeNow < lastSync)
    <3>1. Elapsed = TimeNow - lastSync
      BY <2>6 DEF Elapsed
    <3>2. CASE u <= Elapsed
      BY <2>1, <2>2, <2>3, <2>4, <3>1, <3>2 DEF Clocks, d
    <3>3. CASE ~(u <= Elapsed)
      BY <2>1, <2>2, <2>3, <2>4, <3>1, <3>3 DEF Clocks, d
    <3> QED  BY <3>2, <3>3
  <2> QED  BY <2>5, <2>6
<1>5. InTime(S, due, TimeNow)
  BY <1>2, <1>4 DEF InTime
<1>6. InOrder(S, due)
  <2> SUFFICES ASSUME NEW i \in 1..l, NEW j \in 1..l, i < j
               PROVE  due[S[i].task] <= due[S[j].task] + jumped
    BY <1>2 DEF InOrder
  <2>1. due[queue[i].task] <= due[queue[j].task] + jumped
    BY <1>1 DEF Right, InOrder
  <2> QED  BY <1>2, <2>1
<1> QED  BY <1>3, <1>5, <1>6 DEF Right, S

LEMMA RefreshedRight ==
  ASSUME Clocks, Right(queue, due, lastSync)
  PROVE  Right(Refreshed, due, IF Overdue THEN lastSync ELSE TimeNow)
<1>1. CASE Overdue
  BY <1>1 DEF Refreshed
<1>2. CASE ~Overdue
  BY <1>2, SynchronizedRight DEF Refreshed
<1> QED  BY <1>1, <1>2

LEMMA InsertedRight ==
  ASSUME Clocks, NEW q, NEW d, NEW t \in Tasks, NEW delay \in Nat,
         Right(q, d, TimeNow), d[t] = NotPending
  PROVE  Right(Inserted(q, t, delay), [d EXCEPT ![t] = now + delay], TimeNow)
<1> DEFINE r == Inserted(q, t, delay)
           e == [d EXCEPT ![t] = now + delay]
<1>1. PICK l \in Nat : l = Len(q)
  BY LenProperties DEF Right, Entries
<1>2. PICK k \in 0..l :
        /\ \A i \in 1..l : Until(q, i) <= delay <=> i <= k
        /\ OneMore(r, q, t, delay, k)
  BY <1>1, InsertedIs DEF Right, Entries
<1> HIDE DEF r
<1>3. ASSUME NEW i \in 1..l
      PROVE  /\ q[i].task \in Tasks /\ d[q[i].task] \in Nat /\ Until(q, i) \in Nat
             /\ q[i].task # t /\ e[q[i].task] = d[q[i].task]
  <2>1. q[i].task \in Tasks /\ d[q[i].task] \in Nat /\ Until(q, i) \in Nat
    BY <1>1, DueIs DEF Right
  <2>2. q[i].task # t
    BY <2>1 DEF NotPending
  <2> QED  BY <2>1, <2>2 DEF Right, Entries, Dues
<1>4. e \in Dues /\ e[t] = now + delay /\ now + delay \in Nat
  BY DEF Right, Entries, Dues, Clocks
<1>5. \A u \in Tasks : u # t => e[u] = d[u]
  BY DEF Right, Entries, Dues
<1> HIDE DEF e
<1> DEFINE old(i) == IF i <= k THEN i ELSE i - 1
<1>6. ASSUME NEW i \in 1..(l + 1), i # k + 1
      PROVE  /\ old(i) \in 1..l /\ (old(i) <= k <=> i <= k)
             /\ r[i].task = q[old(i)].task /\ Until(r, i) = Until(q, old(i))
  <2>1. CASE i <= k
    BY <1>1, <1>2, <2>1 DEF OneMore
  <2>2. CASE ~(i <= k)
    <3>1. PICK j \in (k + 1)..l : i = j + 1 /\ j = i - 1
      BY <1>1, <1>6, <2>2
    <3>2. r[j + 1].task = q[j].task /\ Until(r, j + 1) = Until(q, j)
      BY <1>1, <1>2 DEF OneMore
    <3> QED  BY <1>1, <2>2, <3>1, <3>2
  <2> QED  BY <2>1, <2>2
<1>7. /\ r \in Seq(Entry) /\ Len(r) = l + 1
      /\ r[k + 1].task = t /\ Until(r, k + 1) = delay /\ k + 1 \in 1..(l + 1)
  BY <1>1, <1>2 DEF OneMore
<1>8. ASSUME NEW i \in 1..(l + 1), NEW j \in 1..(l + 1), i < j, i # k + 1, j # k + 1
      PROVE  old(i) < old(j)
  BY <1>1, <1>8
<1>9. Entries(r, e)
  <2>1. Awaited(e) = Awaited(d) \cup {t} /\ t \notin Awaited(d)
    BY <1>4, <1>5 DEF Awaited, NotPending
  <2>2. IsFiniteSet(Awaited(e)) /\ l + 1 = Cardinality(Awaited(e))
    BY <1>1, <2>1, FS_AddElement DEF Right, Entries
  <2>3. ASSUME NEW i \in 1..(l + 1), NEW j \in 1..(l + 1), r[i].task = r[j].task
        PROVE  i = j
    <3>3. \A n \in 1..(l + 1) : n # k + 1 => r[n].task # t
      BY <1>3, <1>6
    <3>1. CASE i = k + 1 \/ j = k + 1
      BY <1>7, <2>3, <3>1, <3>3
    <3>2. CASE i # k + 1 /\ j # k + 1
      <4>1. old(i) = old(j)
        BY <1>1, <1>6, <2>3, <3>2 DEF Right, Entries
      <4>2. ~(i < j)
        BY <1>1, <1>8, <3>2, <4>1, <1>6
      <4>3. ~(j < i)
        BY <1>1, <1>8, <3>2, <4>1, <1>6
      <4> QED  BY <4>2, <4>3
    <3> QED  BY <3>1, <3>2
  <2>4. ASSUME NEW i \in 1..(l + 1)
        PROVE  r[i].task \in Awaited(e)
    <3>1. CASE i = k + 1
      BY <1>7, <2>1, <3>1
    <3>2. CASE i # k + 1
      BY <1>1, <1>6, <2>1, <3>2 DEF Right, Entries
    <3> QED  BY <3>1, <3>2
  <2>5. ASSUME NEW u \in Awaited(e)
        PROVE  \E i \in 1..(l + 1) : r[i].task = u
    <3>1. CASE u = t
      BY <1>7, <3>1
    <3>2. CASE u # t
      <4>1. PICK j \in 1..l : q[j].task = u
        BY <1>1, <2>1, <3>2 DEF Right, Entries
      <4>2. CASE j <= k
        <5>1. j \in 1..k /\ j \in 1..(l + 1)
          BY <1>1, <4>2
        <5>2. r[j].task = u
          BY <1>2, <4>1, <5>1 DEF OneMore
        <5> QED  BY <5>1, <5>2
      <4>3. CASE ~(j <= k)
        <5>1. j \in (k + 1)..l /\ j + 1 \in 1..(l + 1)
          BY <1>1, <4>3
        <5>2. r[j + 1].task = u
          BY <1>1, <1>2, <4>1, <5>1 DEF OneMore
        <5> QED  BY <5>1, <5>2
      <4> QED  BY <4>2, <4>3
    <3> QED  BY <3>1, <3>2
  <2> QED  BY <1>4, <1>7, <2>2, <2>3, <2>4, <2>5 DEF Entries
<1>10. InTime(r, e, TimeNow)
  <2> SUFFICES ASSUME NEW i \in 1..(l + 1)
               PROVE  /\ e[r[i].task] <= now + Until(r, i)
                      /\ e[r[i].task] <= TimeNow + jumped + Until(r, i)
                      /\ Until(r, i) > 0 => TimeNow + Until(r, i) <= e[r[i].task]
    BY <1>7 DEF InTime
  <2>1. CASE i = k + 1
    BY <1>4, <1>7, <2>1 DEF Clocks, TimeNow
  <2>2. CASE i # k + 1
    <3>1. PICK m \in 1..l : r[i].task = q[m].task /\ Until(r, i) = Until(q, m)
      BY <1>6, <2>2
    <3>2. /\ d[q[m].task] <= now + Until(q, m)
          /\ d[q[m].task] <= TimeNow + jumped + Until(q, m)
          /\ Until(q, m) > 0 => TimeNow + Until(q, m) <= d[q[m].task]
      BY <1>1 DEF Right, InTime
    <3>3. e[r[i].task] = d[q[m].task]
      BY <1>3, <3>1
    <3> QED  BY <3>1, <3>2, <3>3
  <2> QED  BY <2>1, <2>2
<1>11. InOrder(r, e)
  <2> SUFFICES ASSUME NEW i \in 1..(l + 1), NEW j \in 1..(l + 1), i < j
               PROVE  e[r[i].task] <= e[r[j].task] + jumped
    BY <1>7 DEF InOrder
  <2>1. CASE i # k + 1 /\ j # k + 1
    <3>1. old(i) \in 1..l /\ old(j) \in 1..l /\ old(i) < old(j)
      BY <1>6, <1>8, <2>1
    <3>2. d[q[old(i)].task] <= d[q[old(j)].task] + jumped
      BY <1>1, <3>1 DEF Right, InOrder
    <3> QED  BY <1>3, <1>6, <2>1, <3>1, <3>2
  <2>2. CASE j = k + 1
    <3>1. i # k + 1 /\ i <= k
      BY <1>1, <2>2
    <3>2. /\ old(i) \in 1..l /\ old(i) <= k /\ r[i].task = q[old(i)].task
      BY <1>6, <3>1
    <3> DEFINE m == old(i)
    <3> HIDE DEF old
    <3>3. Until(q, m) <= delay
      BY <1>2, <3>2
    <3>4. d[q[m].task] <= now + Until(q, m)
      BY <1>1, <3>2 DEF Right, InTime
    <3>5. e[r[i].task] = d[q[m].task] /\ e[r[i].task] \in Nat /\ Until(q, m) \in Nat
      BY <1>3, <3>2
    <3>6. e[r[j].task] = now + delay
      BY <1>4, <1>7, <2>2
    <3> QED  BY <3>3, <3>4, <3>5, <3>6 DEF Clocks
  <2>3. CASE i = k + 1
    <3>1. j # k + 1 /\ ~(j <= k)
      BY <1>1, <2>3
    <3>2. /\ old(j) \in 1..l /\ ~(old(j) <= k) /\ r[j].task = q[old(j)].task
      BY <1>6, <3>1
    <3> DEFINE m == old(j)
    <3> HIDE DEF old
    <3>3. ~(Until(q, m) <= delay) /\ Until(q, m) \in Nat
      BY <1>2, <1>3, <3>2
    <3>4. TimeNow + Until(q, m) <= d[q[m].task]
      BY <1>1, <3>2, <3>3 DEF Right, InTime
    <3>5. e[r[j].task] = d[q[m].task] /\ e[r[j].task] \in Nat
      BY <1>3, <3>2
    <3>6. e[r[i].task] = now + delay
      BY <1>4, <1>7, <2>3
    <3> QED  BY <3>3, <3>4, <3>5, <3>6 DEF Clocks, TimeNow
  <2> QED  BY <2>1, <2>2, <2>3
<1> QED  BY <1>9, <1>10, <1>11 DEF Right, e, r

LEMMA RemovedRight ==
  ASSUME NEW q, NEW d, NEW s \in Int, Clocks, Right(q, d, s), NEW n \in 1..Len(q)
  PROVE  Right(Removed(q, n), [d EXCEPT ![q[n].task] = NotPending], s)
<1> DEFINE r == Removed(q, n)
           t == q[n].task
           e == [d EXCEPT ![t] = NotPending]
           old(i) == IF i < n THEN i ELSE i + 1
<1>1. PICK l \in Nat : l = Len(q)
  BY LenProperties DEF Right, Entries
<1>2. OneLess(r, q, n)
  BY RemovedIs DEF Right, Entries
<1> HIDE DEF r
<1>3. t \in Tasks /\ t \in Awaited(d) /\ d \in Dues
  BY DEF Right, Entries, Awaited
<1>4. ASSUME NEW i \in 1..l, i # n
      PROVE  /\ q[i].task \in Tasks /\ q[i].task \in Awaited(d)
             /\ q[i].task # t /\ e[q[i].task] = d[q[i].task]
  <2>1. q[i].task \in Awaited(d) /\ q[i].task # t
    BY <1>1, <1>4 DEF Right, Entries
  <2> QED  BY <1>3, <2>1 DEF Awaited, Dues
<1>5. e \in Dues /\ e[t] = NotPending /\ \A u \in Tasks : u # t => e[u] = d[u]
  BY <1>3 DEF Dues
<1> HIDE DEF e, t
<1>6. ASSUME NEW i \in 1..(l - 1)
      PROVE  /\ old(i) \in 1..l /\ old(i) # n
             /\ r[i].task = q[old(i)].task /\ Until(r, i) = Until(q, old(i))
             /\ e[r[i].task] = d[q[old(i)].task]
  <2>1. old(i) \in 1..l /\ old(i) # n
    BY <1>1
  <2>2. r[i].task = q[old(i)].task /\ Until(r, i) = Until(q, old(i))
    <3>1. CASE i < n
      <4>1. i \in 1..(n - 1)
        BY <1>1, <3>1
      <4> QED  BY <1>2, <3>1, <4>1 DEF OneLess
    <3>2. CASE ~(i < n)
      <4>1. i \in n..(l - 1)
        BY <1>1, <3>2
      <4> QED  BY <1>1, <1>2, <3>2, <4>1 DEF OneLess
    <3> QED  BY <3>1, <3>2
  <2> QED  BY <1>4, <2>1, <2>2
<1>7. ASSUME NEW i \in 1..(l - 1), NEW j \in 1..(l - 1), i < j
      PROVE  old(i) < old(j)
  BY <1>1, <1>7
<1>8. r \in Seq(Entry) /\ Len(r) = l - 1
  BY <1>1, <1>2 DEF OneLess
<1>9. Entries(r, e)
  <2>1. Awaited(e) = Awaited(d) \ {t}
    BY <1>5 DEF Awaited
  <2>2. IsFiniteSet(Awaited(e)) /\ l - 1 = Cardinality(Awaited(e))
    BY <1>1, <1>3, <2>1, FS_RemoveElement DEF Right, Entries
  <2>3. ASSUME NEW i \in 1..(l - 1), NEW j \in 1..(l - 1), r[i].task = r[j].task
        PROVE  i = j
    <3>1. /\ old(i) \in 1..l /\ r[i].task = q[old(i)].task
          /\ old(j) \in 1..l /\ r[j].task = q[old(j)].task
      BY <1>6
    <3>2. old(i) = old(j)
      BY <1>1, <2>3, <3>1 DEF Right, Entries
    <3> QED  BY <1>1, <3>2
  <2>4. ASSUME NEW i \in 1..(l - 1)
        PROVE  r[i].task \in Awaited(e)
    <3>1. PICK m \in 1..l : m # n /\ r[i].task = q[m].task
      BY <1>6
    <3> QED  BY <1>4, <2>1, <3>1
  <2>5. ASSUME NEW u \in Awaited(e)
        PROVE  \E i \in 1..(l - 1) : r[i].task = u
    <3>1. PICK m \in 1..l : q[m].task = u
      BY <1>1, <2>1 DEF Right, Entries
    <3>2. m # n
      BY <2>1, <3>1 DEF t
    <3>3. CASE m < n
      <4>1. m \in 1..(l - 1) /\ old(m) = m
        BY <1>1, <3>3
      <4> QED  BY <1>6, <3>1, <4>1
    <3>4. CASE m > n
      <4>1. PICK i \in 1..(l - 1) : i + 1 = m /\ ~(i < n)
        BY <1>1, <3>4
      <4>2. old(i) = m
        BY <4>1
      <4> QED  BY <1>6, <3>1, <4>2
    <3> QED  BY <1>1, <3>2, <3>3, <3>4
  <2> QED  BY <1>5, <1>8, <2>2, <2>3, <2>4, <2>5 DEF Entries
<1>10. InTime(r, e, s)
  <2> SUFFICES ASSUME NEW i \in 1..(l - 1)
               PROVE  /\ e[r[i].task] <= now + Until(r, i)
                      /\ e[r[i].task] <= s + jumped + Until(r, i)
                      /\ Until(r, i) > 0 => s + Until(r, i) <= e[r[i].task]
    BY <1>8 DEF InTime
  <2>1. PICK m \in 1..l : Until(r, i) = Until(q, m) /\ e[r[i].task] = d[q[m].task]
    BY <1>6
  <2>2. /\ d[q[m].task] <= now + Until(q, m)
        /\ d[q[m].task] <= s + jumped + Until(q, m)
        /\ Until(q, m) > 0 => s + Until(q, m) <= d[q[m].task]
    BY <1>1 DEF Right, InTime
  <2> QED  BY <2>1, <2>2
<1>11. InOrder(r, e)
  <2> SUFFICES ASSUME NEW i \in 1..(l - 1), NEW j \in 1..(l - 1), i < j
               PROVE  e[r[i].task] <= e[r[j].task] + jumped
    BY <1>8 DEF InOrder
  <2>1. /\ old(i) \in 1..l /\ e[r[i].task] = d[q[old(i)].task]
        /\ old(j) \in 1..l /\ e[r[j].task] = d[q[old(j)].task]
        /\ old(i) < old(j)
    BY <1>6, <1>7
  <2>2. d[q[old(i)].task] <= d[q[old(j)].task] + jumped
    BY <1>1, <2>1 DEF Right, InOrder
  <2> QED  BY <2>1, <2>2
<1> QED  BY <1>9, <1>10, <1>11 DEF Right, e, r, t

(***************************************************************************)
(* The first entry, which the loop waits for and which it runs.            *)
(***************************************************************************)

LEMMA FirstIs ==
  ASSUME Clocks, NEW q, NEW d, NEW s \in Int, Right(q, d, s), q # << >>
  PROVE  /\ 1 \in 1..Len(q) /\ q[1].task \in Awaited(d)
         /\ q[1].delay \in Nat /\ Until(q, 1) = q[1].delay
         /\ \A i \in 1..Len(q) : Until(q, 1) <= Until(q, i)
<1>1. PICK l \in Nat : l = Len(q)
  BY LenProperties DEF Right, Entries
<1>2. q \in Seq(Entry)
  BY DEF Right, Entries
<1>3. 1 \in 1..l
  BY <1>1, <1>2, EmptySeq
<1>4. q[1].delay \in Nat /\ Until(q, 1) = q[1].delay
  <2>1. /\ Until(q, 0) = 0 /\ q[1].delay \in Nat
        /\ Until(q, 1) = Until(q, 1 - 1) + q[1].delay
    BY <1>1, <1>2, <1>3, UntilStep
  <2> QED  BY <2>1
<1>5. ASSUME NEW i \in 1..l
      PROVE  Until(q, 1) <= Until(q, i)
  <2>1. i \in 0..Len(q) /\ 1 \in 0..i
    BY <1>1
  <2> QED  BY <1>2, <2>1, UntilGrows
<1> QED  BY <1>1, <1>3, <1>4, <1>5 DEF Right, Entries

\* An entry that has come up is that of a task that is due, and as far as the
\* clock goes no other was due before.
LEMMA FirstRuns ==
  ASSUME Clocks, Right(queue, due, lastSync), Refreshed # << >>, Refreshed[1].delay = 0
  PROVE  LET t == Refreshed[1].task
         IN  /\ t \in Awaited(due) /\ due[t] <= now
             /\ \A u \in Awaited(due) : due[t] <= due[u] + jumped
<1> DEFINE q == Refreshed
           s == IF Overdue THEN lastSync ELSE TimeNow
           t == q[1].task
<1>1. Right(q, due, s) /\ s \in Int
  BY RefreshedRight DEF Clocks, TimeNow
<1> HIDE DEF q, s
<1>2. /\ 1 \in 1..Len(q) /\ t \in Awaited(due) /\ Until(q, 1) = 0
  BY <1>1, FirstIs DEF q
<1>3. due[t] \in Nat /\ due[t] <= now + 0
  BY <1>1, <1>2, DueIs DEF Right, InTime
<1>4. ASSUME NEW u \in Awaited(due)
      PROVE  due[t] <= due[u] + jumped
  <2>1. PICK i \in 1..Len(q) : q[i].task = u
    BY <1>1 DEF Right, Entries
  <2>2. CASE i = 1
    BY <1>3, <2>1, <2>2 DEF Clocks
  <2>3. CASE i # 1
    <3>1. Len(q) \in Nat
      BY <1>1, LenProperties DEF Right, Entries
    <3>2. 1 < i
      BY <2>3, <3>1
    <3> QED  BY <1>1, <1>2, <2>1, <3>2 DEF Right, InOrder
  <2> QED  BY <2>2, <2>3
<1> QED  BY <1>2, <1>3, <1>4 DEF q, Clocks

\* How long the loop may sleep.
LEMMA SleepIs ==
  ASSUME Clocks, Right(queue, due, lastSync)
  PROVE  /\ TimeToDelay \in Nat
         /\ \A t \in Awaited(due) : now + TimeToDelay <= Max({now, due[t] + jumped})
<1> DEFINE q == Refreshed
           s == IF Overdue THEN lastSync ELSE TimeNow
<1>1. Right(q, due, s) /\ s \in Int /\ MaxSleep \in Nat
  BY RefreshedRight, SchedulerAssumption DEF Clocks, TimeNow
<1>2. CASE q = << >>
  <2>1. Awaited(due) = {}
    BY <1>1, <1>2 DEF Right, Entries
  <2> QED  BY <1>1, <1>2, <2>1 DEF TimeToDelay
<1>3. CASE q # << >>
  <2>1. q[1].delay \in Nat /\ Until(q, 1) = q[1].delay
        /\ \A i \in 1..Len(q) : Until(q, 1) <= Until(q, i)
    BY <1>1, <1>3, FirstIs
  <2>2. TimeToDelay \in Nat /\ TimeToDelay <= q[1].delay
    BY <1>1, <1>3, <2>1, MinOfTwo DEF TimeToDelay
  <2>3. ASSUME NEW t \in Awaited(due)
        PROVE  now + TimeToDelay <= Max({now, due[t] + jumped})
    <3>1. PICK i \in 1..Len(q) : q[i].task = t
      BY <1>1 DEF Right, Entries
    <3>2. due[t] \in Nat /\ Until(q, i) \in Nat
      BY <1>1, <3>1, DueIs DEF Right
    <3>3. Max({now, due[t] + jumped}) = IF now >= due[t] + jumped THEN now ELSE due[t] + jumped
      BY <3>2, MaxOfTwo DEF Clocks
    <3>4. q[1].delay <= Until(q, i)
      BY <2>1
    <3>5. CASE q[1].delay = 0
      BY <2>2, <3>2, <3>3, <3>5 DEF Clocks
    <3>6. CASE q[1].delay # 0
      <4>1. ~Overdue
        BY <3>6 DEF Refreshed, Overdue
      <4>2. Until(q, i) > 0
        BY <2>1, <3>2, <3>4, <3>6
      <4>3. TimeNow + Until(q, i) <= due[q[i].task]
        BY <1>1, <4>1, <4>2 DEF Right, InTime
      <4> QED  BY <2>1, <2>2, <3>1, <3>2, <3>3, <3>4, <4>3 DEF Clocks, TimeNow
    <3> QED  BY <3>5, <3>6
  <2> QED  BY <2>2, <2>3
<1> QED  BY <1>2, <1>3

(***************************************************************************)
(* The tasks and the loop: their part of the invariant, and each action.   *)
(***************************************************************************)

TasksInv ==
  /\ Clocks /\ jumped <= MaxJump
  /\ Right(queue, due, lastSync)
  /\ pc \in {"loop", "select", "sockets", "alarm"}
  /\ running \in Tasks \cup {"main", "socket", "none"}
  /\ wake \in Nat
  /\ pc \in {"select", "sockets"} => running = "none"

LEMMA ClocksSame ==
  ASSUME UNCHANGED clockVars, Right(queue', due', lastSync')
  PROVE  Right(queue, due, lastSync)'
BY DEF clockVars, Right, Entries, InTime, InOrder

LEMMA TSchedule ==
  ASSUME TasksInv, NEW t \in Tasks, NEW delay \in Delays, Schedule(t, delay)
  PROVE  TasksInv'
<1>1. delay \in Nat /\ due[t] = NotPending
  BY SchedulerAssumption DEF Schedule, Pending
<1>2. /\ queue' = Inserted(Synchronized, t, delay) /\ lastSync' = TimeNow
      /\ due' = [due EXCEPT ![t] = now + delay]
      /\ UNCHANGED <<now, jumped, pc, running, wake>>
  BY DEF Schedule, AddEntry, clockVars, loopVars
<1>3. Right(Synchronized, due, TimeNow)
  BY SynchronizedRight DEF TasksInv
<1>4. Right(queue', due', lastSync')
  BY <1>1, <1>2, <1>3, InsertedRight DEF TasksInv
<1>5. Right(queue, due, lastSync)'
  BY <1>2, <1>4, ClocksSame DEF clockVars
<1>6. Clocks'
  BY <1>2 DEF TasksInv, Clocks, TimeNow
<1> QED  BY <1>2, <1>5, <1>6 DEF TasksInv

LEMMA TUnschedule ==
  ASSUME TasksInv, NEW t \in Tasks, Unschedule(t)
  PROVE  TasksInv' /\ t \in Awaited(due)
<1>1. PICK i \in DOMAIN queue : queue[i].task = t /\ queue' = Removed(queue, i)
  BY DEF Unschedule, RemoveEntry
<1>2. /\ due' = [due EXCEPT ![t] = NotPending]
      /\ UNCHANGED <<lastSync, now, jumped, pc, running, wake>>
  BY DEF Unschedule, RemoveEntry, clockVars, loopVars
<1>3. i \in 1..Len(queue)
  BY <1>1, LenProperties DEF TasksInv, Right, Entries
<1>4. Right(queue', due', lastSync')
  BY <1>1, <1>2, <1>3, RemovedRight DEF TasksInv, Clocks
<1>5. Right(queue, due, lastSync)'
  BY <1>2, <1>4, ClocksSame DEF clockVars
<1>6. t \in Awaited(due)
  BY <1>1, <1>3 DEF TasksInv, Right, Entries
<1>7. Clocks'
  BY <1>2 DEF TasksInv, Clocks
<1> QED  BY <1>2, <1>5, <1>6, <1>7 DEF TasksInv

LEMMA TSleep ==
  ASSUME TasksInv, Sleep
  PROVE  TasksInv'
<1>1. /\ queue' = Refreshed /\ lastSync' = IF Overdue THEN lastSync ELSE TimeNow
      /\ wake' = now + TimeToDelay /\ pc' = "select" /\ running = "none"
      /\ UNCHANGED <<now, jumped, running, due>>
  BY DEF Sleep, Refresh, InHandler, clockVars
<1>2. Right(queue', due', lastSync')
  BY <1>1, RefreshedRight DEF TasksInv
<1>3. Right(queue, due, lastSync)'
  BY <1>1, <1>2, ClocksSame DEF clockVars
<1>4. wake' \in Nat
  BY <1>1, SleepIs DEF TasksInv, Clocks
<1>5. Clocks'
  BY <1>1 DEF TasksInv, Clocks, TimeNow
<1> QED  BY <1>1, <1>3, <1>4, <1>5 DEF TasksInv

LEMMA THandleAlarm ==
  ASSUME TasksInv, HandleAlarm
  PROVE  TasksInv'
<1>1. /\ lastSync' = IF Overdue THEN lastSync ELSE TimeNow
      /\ pc' = "loop"
      /\ UNCHANGED <<now, jumped, wake>>
  BY DEF HandleAlarm, Refresh, clockVars
<1>2. Right(Refreshed, due, lastSync') /\ lastSync' \in Int
  BY <1>1, RefreshedRight DEF TasksInv, Clocks, TimeNow
<1>3. CASE Refreshed # << >> /\ Refreshed[1].delay = 0
  <2>1. /\ queue' = Removed(Refreshed, 1) /\ running' = Refreshed[1].task
        /\ due' = [due EXCEPT ![Refreshed[1].task] = NotPending]
    BY <1>3 DEF HandleAlarm
  <2>2. 1 \in 1..Len(Refreshed) /\ Refreshed[1].task \in Awaited(due)
    BY <1>2, <1>3, FirstIs DEF TasksInv
  <2>3. Right(queue', due', lastSync')
    BY <1>2, <2>1, <2>2, RemovedRight DEF TasksInv
  <2>4. running' \in Tasks
    BY <2>1, <2>2 DEF Awaited
  <2> QED  BY <1>1, <1>2, <2>3, <2>4, ClocksSame DEF TasksInv, Clocks, clockVars
<1>4. CASE ~(Refreshed # << >> /\ Refreshed[1].delay = 0)
  <2>1. queue' = Refreshed /\ UNCHANGED <<running, due>>
    BY <1>4 DEF HandleAlarm
  <2>2. Right(queue', due', lastSync')
    BY <1>2, <2>1
  <2> QED  BY <1>1, <1>2, <2>1, <2>2, ClocksSame DEF TasksInv, Clocks, clockVars
<1> QED  BY <1>3, <1>4

\* Time that passes, and a clock that is set back, only give entries more time.
LEMMA TClocks ==
  ASSUME TasksInv, PassTime \/ ClockBack
  PROVE  TasksInv'
<1>1. /\ now' \in {now, now + 1} /\ jumped' \in {jumped, jumped + 1}
      /\ jumped' # jumped => jumped < MaxJump
      /\ UNCHANGED <<queue, due, lastSync, pc, running, wake>>
  BY DEF PassTime, ClockBack, Tick, SetClockBack, queueVars, loopVars, TasksInv, Clocks
<1>2. Clocks' /\ now' >= now /\ jumped' >= jumped
  BY <1>1 DEF TasksInv, Clocks
<1>3. jumped' <= MaxJump
  BY <1>1, SchedulerAssumption DEF TasksInv, Clocks
<1>4. Entries(queue, due)
  BY DEF TasksInv, Right
<1>5. InTime(queue, due, lastSync)'
  <2> SUFFICES ASSUME NEW i \in 1..Len(queue)
               PROVE  /\ due[queue[i].task] <= now' + Until(queue, i)
                      /\ due[queue[i].task] <= lastSync + jumped' + Until(queue, i)
                      /\ Until(queue, i) > 0 => lastSync + Until(queue, i) <= due[queue[i].task]
    BY <1>1 DEF InTime
  <2>1. due[queue[i].task] \in Nat /\ Until(queue, i) \in Nat
    BY <1>4, DueIs
  <2>2. /\ due[queue[i].task] <= now + Until(queue, i)
        /\ due[queue[i].task] <= lastSync + jumped + Until(queue, i)
        /\ Until(queue, i) > 0 => lastSync + Until(queue, i) <= due[queue[i].task]
    BY DEF TasksInv, Right, InTime
  <2> QED  BY <1>2, <2>1, <2>2 DEF TasksInv, Clocks
<1>6. InOrder(queue, due)'
  <2> SUFFICES ASSUME NEW i \in 1..Len(queue), NEW j \in 1..Len(queue), i < j
               PROVE  due[queue[i].task] <= due[queue[j].task] + jumped'
    BY <1>1 DEF InOrder
  <2>1. due[queue[i].task] \in Nat /\ due[queue[j].task] \in Nat
    BY <1>4, DueIs
  <2>2. due[queue[i].task] <= due[queue[j].task] + jumped
    BY DEF TasksInv, Right, InOrder
  <2> QED  BY <1>2, <2>1, <2>2 DEF TasksInv, Clocks
<1>7. Entries(queue, due)'
  BY <1>1, <1>4 DEF Entries
<1> QED  BY <1>1, <1>2, <1>3, <1>5, <1>6, <1>7 DEF TasksInv, Right

LEMMA TOthers ==
  ASSUME TasksInv,
         UNCHANGED <<queueVars, clockVars, due, wake>>,
         pc' \in {"loop", "select", "sockets", "alarm"},
         running' \in Tasks \cup {"main", "socket", "none"},
         pc' \in {"select", "sockets"} => running' = "none"
  PROVE  TasksInv'
<1>1. Right(queue', due', lastSync') /\ Clocks' /\ jumped' <= MaxJump
  BY DEF TasksInv, queueVars, clockVars, Clocks
<1> QED  BY <1>1, ClocksSame DEF TasksInv, clockVars

(***************************************************************************)
(* The sockets: their part of the invariant.                               *)
(***************************************************************************)

SocketsInv ==
  /\ handlers \in Seq(Sockets) /\ IsInjective(handlers)
  /\ numSockets \in Nat /\ changes \in 0..MaxChanges
  /\ last \in Sockets \cup {NoSocket}
  /\ ready \subseteq Sockets /\ readSet \subseteq Sockets
  /\ SocketsWatched

LEMMA RegisteredIs ==
  ASSUME SocketsInv
  PROVE  /\ Registered \subseteq Sockets
         /\ Registered = {handlers[i] : i \in 1..Len(handlers)}
         /\ \A s \in Registered : s \in Nat /\ s < numSockets
<1>1. handlers \in Seq(Sockets)
  BY DEF SocketsInv
<1>2. Registered = {handlers[i] : i \in 1..Len(handlers)}
  BY <1>1, LenProperties DEF Registered, ToSet
<1>3. \A i \in 1..Len(handlers) : handlers[i] \in Sockets
  BY <1>1, ElementOfSeq
<1>4. Registered \subseteq Sockets
  BY <1>2, <1>3
<1> QED  BY <1>2, <1>4, SchedulerAssumption DEF SocketsInv, SocketsWatched

LEMMA SSet ==
  ASSUME SocketsInv, NEW s \in Sockets, SetBackgroundHandling(s)
  PROVE  SocketsInv'
<1>1. /\ handlers' = IF s \in Registered THEN handlers ELSE <<s>> \o handlers
      /\ numSockets' = Max({numSockets, s + 1})
      /\ changes < MaxChanges /\ changes' = changes + 1
      /\ UNCHANGED <<ready, last, readSet>>
  BY DEF SetBackgroundHandling, Change, loopVars
<1>2. s \in Nat /\ numSockets \in Nat
  BY SchedulerAssumption DEF SocketsInv
<1>3. numSockets' \in Nat /\ numSockets <= numSockets' /\ s < numSockets'
  BY <1>1, <1>2, MaxOfTwo
<1>4. changes' \in 0..MaxChanges
  BY <1>1, SchedulerAssumption DEF SocketsInv
<1>5. CASE s \in Registered
  <2>1. handlers' = handlers /\ Registered' = Registered
    BY <1>1, <1>5 DEF Registered
  <2>2. SocketsWatched'
    BY <1>2, <1>3, <2>1, RegisteredIs DEF SocketsWatched
  <2> QED  BY <1>1, <1>3, <1>4, <2>1, <2>2 DEF SocketsInv
<1>6. CASE s \notin Registered
  <2> DEFINE m == <<s>>
             h == m \o handlers
  <2>1. m \in Seq(Sockets) /\ Len(m) = 1 /\ m[1] = s
    <3>1. m \in [1..1 -> Sockets]
      OBVIOUS
    <3> QED  BY <3>1
  <2>2. PICK l \in Nat : l = Len(handlers)
    BY LenProperties DEF SocketsInv
  <2>3. handlers \in Seq(Sockets)
    BY DEF SocketsInv
  <2> HIDE DEF m
  <2>4. /\ h \in Seq(Sockets) /\ Len(h) = 1 + l
        /\ \A i \in 1..(1 + l) : h[i] = IF i <= 1 THEN m[i] ELSE handlers[i - 1]
    <3>1. /\ h \in Seq(Sockets) /\ Len(h) = Len(m) + Len(handlers)
          /\ \A i \in 1..(Len(m) + Len(handlers)) :
               h[i] = IF i <= Len(m) THEN m[i] ELSE handlers[i - Len(m)]
      BY ONLY <2>1, <2>3, ConcatProperties
    <3> QED  BY <2>1, <2>2, <3>1
  <2>5. handlers' = h
    BY <1>1, <1>6 DEF m
  <2> HIDE DEF h
  <2>6. \A i \in 1..(1 + l) : h[i] = IF i = 1 THEN s ELSE handlers[i - 1]
    BY <2>1, <2>2, <2>4
  <2>7. \A i \in 1..l : handlers[i] # s /\ handlers[i] \in Registered
    BY <1>6, <2>2, RegisteredIs
  <2>8. DOMAIN h = 1..(1 + l) /\ DOMAIN handlers = 1..l
    BY <2>2, <2>3, <2>4, LenProperties
  <2>9. IsInjective(h)
    <3> SUFFICES ASSUME NEW i \in 1..(1 + l), NEW j \in 1..(1 + l), h[i] = h[j]
                 PROVE  i = j
      BY <2>8, Zenon DEF IsInjective
    <3>1. CASE i = 1 \/ j = 1
      <4>1. \A k \in 1..(1 + l) : k # 1 => k - 1 \in 1..l
        BY <2>2
      <4>2. \A k \in 1..(1 + l) : k # 1 => h[k] # s
        BY <2>6, <2>7, <4>1
      <4>3. h[1] = s
        BY <2>2, <2>6
      <4> QED  BY <3>1, <4>2, <4>3
    <3>2. CASE i # 1 /\ j # 1
      <4>1. i - 1 \in 1..l /\ j - 1 \in 1..l /\ handlers[i - 1] = handlers[j - 1]
        BY <2>2, <2>6, <3>2
      <4>2. i - 1 = j - 1
        BY <2>8, <4>1 DEF SocketsInv, IsInjective
      <4> QED  BY <4>2
    <3> QED  BY <3>1, <3>2
  <2>10. Registered' \subseteq Registered \cup {s}
    <3>1. Registered' = {h[i] : i \in 1..(1 + l)}
      BY <2>5, <2>8 DEF Registered, ToSet
    <3>2. \A i \in 1..(1 + l) : h[i] \in Registered \cup {s}
      <4> SUFFICES ASSUME NEW i \in 1..(1 + l), i # 1
                   PROVE  h[i] \in Registered
        BY <2>6
      <4>1. i - 1 \in 1..l
        BY <2>2
      <4> QED  BY <2>6, <2>7, <4>1
    <3> QED  BY <3>1, <3>2
  <2>11. SocketsWatched'
    BY <1>2, <1>3, <2>10, RegisteredIs DEF SocketsWatched
  <2> QED  BY <1>1, <1>3, <1>4, <2>4, <2>5, <2>9, <2>11 DEF SocketsInv
<1> QED  BY <1>5, <1>6

\* The handler found first is the one that goes.
LEMMA RemovedFirst ==
  ASSUME NEW h \in Seq(Sockets), NEW s, \E i \in 1..Len(h) : h[i] = s
  PROVE  \E k \in 1..Len(h) : h[k] = s /\ RemoveFirst(h, s) = RemoveAt(h, k)
<1> DEFINE I == {i \in 1..Len(h) : h[i] = s}
<1>1. \E k \in I : \A j \in I : k <= j
  <2>1. I # {} /\ I \subseteq Nat
    OBVIOUS
  <2> QED  BY <2>1, LeastExists
<1>2. Min(I) \in I
  BY <1>1 DEF Min
<1>3. SelectInSeq(h, LAMBDA v : v = s) = Min(I)
  BY DEF SelectInSeq
<1>4. RemoveFirst(h, s) = RemoveAt(h, Min(I))
  BY <1>3 DEF RemoveFirst
<1> QED  BY <1>2, <1>4

LEMMA SClear ==
  ASSUME SocketsInv, NEW s \in Sockets, ClearBackgroundHandling(s)
  PROVE  SocketsInv'
<1>1. /\ handlers' = RemoveFirst(handlers, s)
      /\ numSockets' = IF numSockets = s + 1 THEN s ELSE numSockets
      /\ ready' = ready \ {s}
      /\ changes < MaxChanges /\ changes' = changes + 1
      /\ UNCHANGED <<last, readSet>>
  BY DEF ClearBackgroundHandling, Change, loopVars
<1>2. s \in Nat /\ numSockets \in Nat
  BY SchedulerAssumption DEF SocketsInv
<1>3. changes' \in 0..MaxChanges /\ numSockets' \in Nat
  BY <1>1, <1>2, SchedulerAssumption DEF SocketsInv
<1>4. /\ handlers' \in Seq(Sockets) /\ IsInjective(handlers')
      /\ Registered' \subseteq Registered /\ s \notin Registered'
  <2>1. CASE \E i \in 1..Len(handlers) : handlers[i] = s
    <3>1. PICK k \in 1..Len(handlers) : handlers[k] = s /\ handlers' = RemoveAt(handlers, k)
      BY <1>1, <2>1, RemovedFirst DEF SocketsInv
    <3>2. PICK l \in Nat : l = Len(handlers)
      BY LenProperties DEF SocketsInv
    <3> DEFINE h == handlers'
               old(i) == IF i < k THEN i ELSE i + 1
    <3>3. /\ h \in Seq(Sockets) /\ Len(h) = l - 1
          /\ \A i \in 1..(k - 1) : h[i] = handlers[i]
          /\ \A i \in k..(l - 1) : h[i] = handlers[i + 1]
      BY <3>1, <3>2, RemovedAt DEF SocketsInv
    <3>4. DOMAIN h = 1..(l - 1) /\ DOMAIN handlers = 1..l
      BY <3>2, <3>3, LenProperties DEF SocketsInv
    <3>5. ASSUME NEW i \in 1..(l - 1)
          PROVE  old(i) \in 1..l /\ old(i) # k /\ h[i] = handlers[old(i)]
      <4>1. CASE i < k
        <5>1. i \in 1..(k - 1) /\ i \in 1..l
          BY <3>2, <4>1
        <5> QED  BY <3>3, <4>1, <5>1
      <4>2. CASE ~(i < k)
        <5>1. i \in k..(l - 1) /\ i + 1 \in 1..l /\ i + 1 # k
          BY <3>2, <4>2
        <5> QED  BY <3>3, <4>2, <5>1
      <4> QED  BY <4>1, <4>2
    <3>6. IsInjective(h)
      <4> SUFFICES ASSUME NEW i \in 1..(l - 1), NEW j \in 1..(l - 1), h[i] = h[j]
                   PROVE  i = j
        BY <3>4, Zenon DEF IsInjective
      <4>1. /\ old(i) \in 1..l /\ h[i] = handlers[old(i)]
            /\ old(j) \in 1..l /\ h[j] = handlers[old(j)]
        BY <3>5
      <4>2. old(i) = old(j)
        BY <3>4, <4>1 DEF SocketsInv, IsInjective
      <4> QED  BY <3>2, <4>2
    <3>7. Registered' = {h[i] : i \in 1..(l - 1)} /\ Registered = {handlers[i] : i \in 1..l}
      BY <3>4 DEF Registered, ToSet
    <3>8. \A i \in 1..(l - 1) : h[i] \in Registered /\ h[i] # s
      <4> SUFFICES ASSUME NEW i \in 1..(l - 1)
                   PROVE  h[i] \in Registered /\ h[i] # s
        OBVIOUS
      <4>1. old(i) \in 1..l /\ old(i) # k /\ h[i] = handlers[old(i)]
        BY <3>5
      <4>2. handlers[old(i)] # handlers[k]
        BY <3>2, <3>4, <4>1 DEF SocketsInv, IsInjective
      <4> QED  BY <3>1, <3>7, <4>1, <4>2
    <3> QED  BY <3>3, <3>6, <3>7, <3>8
  <2>2. CASE ~ \E i \in 1..Len(handlers) : handlers[i] = s
    <3>1. handlers' = handlers
      BY <1>1, <2>2 DEF RemoveFirst
    <3>2. Registered' = Registered /\ s \notin Registered
      BY <2>2, <3>1, RegisteredIs DEF Registered
    <3> QED  BY <3>1, <3>2 DEF SocketsInv
  <2> QED  BY <2>1, <2>2
<1>5. SocketsWatched'
  <2> SUFFICES ASSUME NEW x \in Registered'
               PROVE  x < numSockets'
    BY DEF SocketsWatched
  <2>1. x \in Nat /\ x < numSockets /\ x # s
    BY <1>4, RegisteredIs
  <2> QED  BY <1>1, <1>2, <2>1
<1> QED  BY <1>1, <1>3, <1>4, <1>5 DEF SocketsInv

LEMMA SMove ==
  ASSUME SocketsInv, NEW old \in Sockets, NEW new \in Sockets, MoveSocketHandling(old, new)
  PROVE  SocketsInv'
<1> DEFINE h == [i \in DOMAIN handlers |-> IF handlers[i] = old THEN new ELSE handlers[i]]
           n == IF numSockets = old + 1 THEN old ELSE numSockets
<1>1. /\ handlers' = h /\ numSockets' = Max({n, new + 1})
      /\ new \notin Registered /\ old # new
      /\ ready' = ready \ {old}
      /\ changes < MaxChanges /\ changes' = changes + 1
      /\ UNCHANGED <<last, readSet>>
  BY DEF MoveSocketHandling, Change, loopVars
<1>2. old \in Nat /\ new \in Nat /\ numSockets \in Nat /\ n \in Nat
  BY SchedulerAssumption DEF SocketsInv
<1>3. changes' \in 0..MaxChanges /\ numSockets' \in Nat /\ n <= numSockets' /\ new < numSockets'
  <2>1. numSockets' = IF n >= new + 1 THEN n ELSE new + 1
    BY <1>1, <1>2, MaxOfTwo
  <2>2. changes' \in 0..MaxChanges
    BY <1>1, SchedulerAssumption DEF SocketsInv
  <2> HIDE DEF n
  <2> QED  BY <1>2, <2>1, <2>2
<1>4. PICK l \in Nat : l = Len(handlers)
  BY LenProperties DEF SocketsInv
<1>5. DOMAIN handlers = 1..l /\ \A i \in 1..l : handlers[i] \in Sockets
  BY <1>4, LenProperties, ElementOfSeq DEF SocketsInv
<1>6. h \in Seq(Sockets) /\ DOMAIN h = 1..l
  <2>1. h \in [1..l -> Sockets]
    BY <1>5
  <2> QED  BY <2>1
<1>7. \A i \in 1..l : h[i] = IF handlers[i] = old THEN new ELSE handlers[i]
  BY <1>5
<1> HIDE DEF h
<1>8. \A i \in 1..l : handlers[i] \in Registered /\ handlers[i] # new
  BY <1>1, <1>4, RegisteredIs
<1>9. IsInjective(h)
  <2> SUFFICES ASSUME NEW i \in 1..l, NEW j \in 1..l, h[i] = h[j]
               PROVE  i = j
    BY <1>6, Zenon DEF IsInjective
  <2>1. handlers[i] = handlers[j]
    BY <1>7, <1>8
  <2> QED  BY <1>5, <2>1 DEF SocketsInv, IsInjective
<1>10. Registered' \subseteq (Registered \ {old}) \cup {new}
  <2>1. Registered' = {h[i] : i \in 1..l}
    BY <1>1, <1>6 DEF Registered, ToSet
  <2>2. \A i \in 1..l : h[i] \in (Registered \ {old}) \cup {new}
    BY <1>7, <1>8
  <2> QED  BY <2>1, <2>2
<1>11. SocketsWatched'
  <2> SUFFICES ASSUME NEW x \in Registered'
               PROVE  x < numSockets'
    BY DEF SocketsWatched
  <2>1. CASE x = new
    BY <1>3, <2>1
  <2>2. CASE x # new
    <3>1. x \in Nat /\ x < numSockets /\ x # old
      BY <1>10, <2>2, RegisteredIs
    <3>2. x < n
      BY <1>2, <3>1
    <3> QED  BY <1>2, <1>3, <3>1, <3>2
  <2> QED  BY <2>1, <2>2
<1> QED  BY <1>1, <1>3, <1>6, <1>9, <1>11 DEF SocketsInv

\* The handler that is called next is one of those that are registered.
LEMMA SHandleSocket ==
  ASSUME SocketsInv, HandleSocket
  PROVE  SocketsInv'
<1>1. UNCHANGED <<handlers, numSockets, changes>> /\ readSet' = {}
  BY DEF HandleSocket
<1>2. SearchOrder \in Seq(Sockets)
  <2>1. handlers \in Seq(Sockets)
    BY DEF SocketsInv
  <2>2. CASE last \notin Registered
    BY <2>1, <2>2 DEF SearchOrder
  <2>3. CASE last \in Registered
    <3> DEFINE I == {i \in 1..Len(handlers) : handlers[i] = last}
               b == SubSeq(handlers, Min(I) + 1, Len(handlers))
    <3>1. \E k \in I : \A j \in I : k <= j
      <4>1. I # {} /\ I \subseteq Nat
        BY <2>3, RegisteredIs
      <4> QED  BY <4>1, LeastExists
    <3>2. Min(I) \in I
      BY <3>1 DEF Min
    <3>3. I # {}
      BY <3>2
    <3>4. SelectInSeq(handlers, LAMBDA s : s = last) = Min(I)
      BY <3>3 DEF SelectInSeq
    <3>5. SearchOrder = b \o handlers
      BY <2>3, <3>4 DEF SearchOrder
    <3>6. PICK k \in 1..Len(handlers) : k = Min(I)
      BY <3>2
    <3> HIDE DEF I
    <3>7. b \in Seq(Sockets)
      <4>1. PICK l \in Nat : l = Len(handlers)
        BY <2>1, LenProperties
      <4>2. k + 1 \in Int /\ l \in Int
        BY <4>1
      <4>3. \A i \in (k + 1)..l : handlers[i] \in Sockets
        BY <2>1, <4>1, ElementOfSeq
      <4>4. SubSeq(handlers, k + 1, l) \in Seq(Sockets)
        BY ONLY <4>2, <4>3, SubSeqProperties
      <4> QED  BY <3>6, <4>1, <4>4
    <3> QED  BY <2>1, <3>5, <3>7, ConcatProperties
  <2> QED  BY <2>2, <2>3
<1> DEFINE J == {i \in 1..Len(SearchOrder) : SearchOrder[i] \in readSet}
           found == IF J # {} THEN Min(J) ELSE 0
<1>3. SelectInSeq(SearchOrder, LAMBDA s : s \in readSet) = found
  BY DEF SelectInSeq
<1>4. CASE found = 0
  <2>1. last' = NoSocket /\ ready' = ready
    BY <1>3, <1>4 DEF HandleSocket
  <2> QED  BY <1>1, <2>1 DEF SocketsInv, SocketsWatched, Registered
<1>5. CASE found # 0
  <2>1. last' = SearchOrder[found] /\ ready' \subseteq ready
    BY <1>3, <1>5 DEF HandleSocket
  <2>2. J # {} /\ J \subseteq Nat
    BY <1>5
  <2>3. \E k \in J : \A j \in J : k <= j
    BY <2>2, LeastExists
  <2>4. Min(J) \in J
    BY <2>3 DEF Min
  <2>5. found \in 1..Len(SearchOrder)
    BY <2>2, <2>4
  <2>6. last' \in Sockets
    BY <1>2, <2>1, <2>5, ElementOfSeq
  <2> QED  BY <1>1, <2>1, <2>6 DEF SocketsInv, SocketsWatched, Registered
<1> QED  BY <1>4, <1>5

LEMMA SOthers ==
  ASSUME SocketsInv, UNCHANGED <<handlers, numSockets, changes, last>>,
         ready' \subseteq Sockets, readSet' \subseteq Sockets
  PROVE  SocketsInv'
BY DEF SocketsInv, SocketsWatched, Registered

(***************************************************************************)
(* The invariant, and the theorems.                                        *)
(***************************************************************************)

Inv == TasksInv /\ SocketsInv

LEMMA InvInit == Init => Inv
<1> SUFFICES ASSUME Init
             PROVE  Inv
  OBVIOUS
<1>1. << >> \in Seq(Entry) /\ << >> \in Seq(Sockets) /\ Len(<< >>) = 0 /\ DOMAIN << >> = {}
  OBVIOUS
<1>2. Awaited(due) = {} /\ due \in Dues
  BY DEF Init, Awaited, Dues
<1>3. Entries(queue, due)
  <2>1. \A i \in 1..Len(queue) : FALSE
    BY DEF Init, QueueInit
  <2> QED  BY <1>1, <1>2, <2>1, FS_EmptySet DEF Init, QueueInit, Entries
<1>4. InTime(queue, due, lastSync) /\ InOrder(queue, due)
  BY DEF Init, QueueInit, InTime, InOrder
<1>5. TasksInv
  BY <1>3, <1>4, SchedulerAssumption
     DEF Init, QueueInit, TasksInv, Clocks, Right, TimeNow
<1>6. Registered = {}
  BY <1>1 DEF Init, Registered, ToSet
<1>7. SocketsInv
  BY <1>1, <1>6, SchedulerAssumption DEF Init, SocketsInv, SocketsWatched, IsInjective
<1> QED  BY <1>5, <1>7 DEF Inv

LEMMA InvNext ==
  ASSUME Inv, [Next]_vars
  PROVE  Inv'
<1>1. TasksInv /\ SocketsInv
  BY DEF Inv
<1>2. Readable \subseteq Sockets /\ Registered \subseteq Sockets /\ ready \subseteq Sockets
      /\ readSet \subseteq Sockets
  BY <1>1, RegisteredIs DEF Readable, SocketsInv
<1>3. ASSUME NEW t \in Tasks, Unschedule(t) \/ \E delay \in Delays : Schedule(t, delay)
      PROVE  Inv'
  <2>1. TasksInv'
    BY <1>1, <1>3, TUnschedule, TSchedule
  <2>2. UNCHANGED <<handlers, numSockets, changes, last, ready, readSet>>
    BY <1>3 DEF Unschedule, Schedule, socketVars, loopVars
  <2> QED  BY <1>1, <1>2, <2>1, <2>2, SOthers DEF Inv
<1>4. ASSUME NEW s \in Sockets, SetBackgroundHandling(s)
      PROVE  Inv'
  <2>1. UNCHANGED <<queueVars, clockVars, loopVars, due>>
    BY <1>4 DEF SetBackgroundHandling, Change
  <2>2. TasksInv'
    BY <1>1, <2>1, TOthers DEF loopVars, TasksInv
  <2> QED  BY <1>1, <1>4, <2>2, SSet DEF Inv
<1>5. ASSUME NEW s \in Sockets, ClearBackgroundHandling(s)
      PROVE  Inv'
  <2>1. UNCHANGED <<queueVars, clockVars, loopVars, due>>
    BY <1>5 DEF ClearBackgroundHandling, Change
  <2>2. TasksInv'
    BY <1>1, <2>1, TOthers DEF loopVars, TasksInv
  <2> QED  BY <1>1, <1>5, <2>2, SClear DEF Inv
<1>6. ASSUME NEW old \in Sockets, NEW new \in Sockets, MoveSocketHandling(old, new)
      PROVE  Inv'
  <2>1. UNCHANGED <<queueVars, clockVars, loopVars, due>>
    BY <1>6 DEF MoveSocketHandling, Change
  <2>2. TasksInv'
    BY <1>1, <2>1, TOthers DEF loopVars, TasksInv
  <2> QED  BY <1>1, <1>6, <2>2, SMove DEF Inv
<1>7. CASE Return
  <2>1. TasksInv'
    BY <1>1, <1>7, TOthers DEF Return, TasksInv
  <2>2. UNCHANGED <<handlers, numSockets, changes, last, ready, readSet>>
    BY <1>7 DEF Return, socketVars
  <2> QED  BY <1>1, <1>2, <2>1, <2>2, SOthers DEF Inv
<1>8. CASE Sleep
  <2>1. TasksInv'
    BY <1>1, <1>8, TSleep
  <2>2. UNCHANGED <<handlers, numSockets, changes, last, ready, readSet>>
    BY <1>8 DEF Sleep, socketVars
  <2> QED  BY <1>1, <1>2, <2>1, <2>2, SOthers DEF Inv
<1>9. CASE Select
  <2>1. TasksInv'
    BY <1>1, <1>9, TOthers DEF Select, TasksInv
  <2>2. UNCHANGED <<handlers, numSockets, changes, last, ready>> /\ readSet' \in {Readable, Registered}
    BY <1>9 DEF Select, socketVars
  <2> QED  BY <1>1, <1>2, <2>1, <2>2, SOthers DEF Inv
<1>10. CASE HandleSocket
  <2>1. UNCHANGED <<queueVars, clockVars, due, wake>> /\ pc' = "alarm" /\ running' \in {running, "socket"}
    BY <1>10 DEF HandleSocket
  <2>2. TasksInv'
    BY <1>1, <2>1, TOthers DEF TasksInv
  <2> QED  BY <1>1, <1>10, <2>2, SHandleSocket DEF Inv
<1>11. CASE HandleAlarm
  <2>1. TasksInv'
    BY <1>1, <1>11, THandleAlarm
  <2>2. UNCHANGED <<handlers, numSockets, changes, last, ready, readSet>>
    BY <1>11 DEF HandleAlarm, socketVars
  <2> QED  BY <1>1, <1>2, <2>1, <2>2, SOthers DEF Inv
<1>12. CASE PassTime \/ ClockBack
  <2>1. TasksInv'
    BY <1>1, <1>12, TClocks
  <2>2. UNCHANGED <<handlers, numSockets, changes, last, ready, readSet>>
    BY <1>12 DEF PassTime, ClockBack, socketVars, loopVars
  <2> QED  BY <1>1, <1>2, <2>1, <2>2, SOthers DEF Inv
<1>13. ASSUME NEW s \in Sockets, Arrive(s)
       PROVE  Inv'
  <2>1. UNCHANGED <<queueVars, clockVars, loopVars, due, handlers, numSockets, changes, last>>
        /\ ready' = ready \cup {s}
    BY <1>13 DEF Arrive
  <2>2. TasksInv'
    BY <1>1, <2>1, TOthers DEF loopVars, TasksInv
  <2> QED  BY <1>1, <1>2, <2>1, <2>2, SOthers DEF Inv, loopVars
<1>14. CASE UNCHANGED vars
  <2>1. TasksInv'
    BY <1>1, <1>14, TOthers DEF vars, loopVars, TasksInv
  <2> QED  BY <1>1, <1>2, <1>14, <2>1, SOthers DEF Inv, vars, loopVars, socketVars
<1> QED  BY <1>3, <1>4, <1>5, <1>6, <1>7, <1>8, <1>9, <1>10, <1>11, <1>12, <1>13, <1>14
         DEF Next, Loop

LEMMA InvHolds == Spec => []Inv
BY InvInit, InvNext, PTL DEF Spec

\* Every variable keeps its type: no delay is ever negative, and there is one
\* entry in the queue for each pending task.
THEOREM TypeCorrect == Spec => []TypeOK
<1>1. Inv => TypeOK
  <2> SUFFICES ASSUME Inv
               PROVE  TypeOK
    OBVIOUS
  <2>1. Pending = Awaited(due)
    BY DEF Pending, Awaited
  <2> QED  BY <2>1 DEF Inv, TasksInv, SocketsInv, Clocks, Right, Entries, Entry, Dues,
                       TypeOK, QueueTypeOK
<1> QED  BY <1>1, InvHolds, PTL

\* select() looks at every socket that has a handler, in whatever order sockets
\* are added, removed and exchanged (HandlerSet and fMaxNumSockets).
THEOREM EverySocketWatched == Spec => []SocketsWatched
<1>1. Inv => SocketsWatched
  BY DEF Inv, SocketsInv
<1> QED  BY <1>1, InvHolds, PTL

\* The loop never sleeps beyond the deadline of a pending task, but for as long
\* as the clock was set back (timeToNextAlarm before select).
THEOREM SleepEnds == Spec => SleepsToNextAlarm
<1>1. ASSUME Inv, [Next]_vars
      PROVE  [pc' = "select" /\ pc # "select" =>
                \A t \in Pending : wake' <= Max({now, due[t] + jumped})]_vars
  <2> SUFFICES ASSUME pc' = "select", pc # "select", NEW t \in Pending
               PROVE  wake' <= Max({now, due[t] + jumped})
    OBVIOUS
  <2>1. Sleep
    BY <1>1 DEF Next, Loop, Sleep, Select, HandleSocket, HandleAlarm, PassTime, ClockBack,
                Arrive, Return, SetBackgroundHandling, ClearBackgroundHandling,
                MoveSocketHandling, Change, Schedule, Unschedule, loopVars, vars
  <2>2. wake' = now + TimeToDelay /\ t \in Awaited(due)
    BY <2>1 DEF Sleep, Pending, Awaited
  <2> QED  BY <1>1, <2>2, SleepIs DEF Inv, TasksInv
<1> QED  BY <1>1, InvHolds, PTL DEF Spec, SleepsToNextAlarm


\* Tasks run once, not before they are due, one at a time, and in the order of
\* their deadlines as far as the clock was not set back: the relative delays of
\* DelayQueue add up to deadlines, whatever is inserted, removed or synchronized.
THEOREM RefinesAlarms == Spec => ImplementsAlarms
<1> DEFINE active == IF running \in Tasks THEN running ELSE "none"
<1> USE DEF DelayedTasks!NotPending, NotPending
<1>1. Init => DelayedTasks!Init
  BY SchedulerAssumption DEF Init, QueueInit, DelayedTasks!Init
<1>2. ASSUME Inv, [Next]_vars
      PROVE  [DelayedTasks!Next]_(DelayedTasks!vars)
  <2>1. TasksInv /\ due \in Dues /\ DelayedTasks!Pending = Awaited(due) /\ Pending = Awaited(due)
    BY <1>2 DEF Inv, TasksInv, Right, Entries, DelayedTasks!Pending, Awaited, Pending
  <2>2. "none" \notin Tasks /\ "socket" \notin Tasks /\ "main" \notin Tasks
    BY SchedulerAssumption
  <2>3. ASSUME UNCHANGED <<now, due, active>>
        PROVE  [DelayedTasks!Next]_(DelayedTasks!vars)
    BY <2>3 DEF DelayedTasks!vars
  <2>4. ASSUME NEW t \in Tasks, NEW delay \in Delays, Schedule(t, delay)
        PROVE  DelayedTasks!Schedule(t)
    <3>1. delay \in Nat /\ now + delay \in Nat /\ now + delay >= now
      BY <2>1, SchedulerAssumption DEF TasksInv, Clocks
    <3>2. /\ due' = [due EXCEPT ![t] = now + delay] /\ t \notin Awaited(due)
          /\ UNCHANGED <<now, running>>
      BY <2>1, <2>4 DEF Schedule, clockVars, loopVars
    <3>3. due'[t] = now + delay
      BY <2>1, <3>2 DEF Dues
    <3> QED  BY <2>1, <3>1, <3>2, <3>3 DEF DelayedTasks!Schedule
  <2>5. ASSUME NEW t \in Tasks, Unschedule(t)
        PROVE  DelayedTasks!Cancel(t)
    <3>1. t \in Awaited(due)
      BY <2>1, <2>5, TUnschedule
    <3>2. due' = [due EXCEPT ![t] = NotPending] /\ UNCHANGED <<now, running>>
      BY <2>5 DEF Unschedule, clockVars, loopVars
    <3> QED  BY <2>1, <3>1, <3>2 DEF DelayedTasks!Cancel
  <2>6. CASE Return
    <3>1. running' = "none" /\ UNCHANGED <<now, due>>
      BY <2>6 DEF Return, clockVars
    <3>2. CASE running \in Tasks
      BY <2>2, <3>1, <3>2 DEF DelayedTasks!Finish, DelayedTasks!Next
    <3>3. CASE running \notin Tasks
      BY <2>2, <2>3, <3>1, <3>3
    <3> QED  BY <3>2, <3>3
  <2>7. CASE HandleSocket
    <3>1. running = "none" /\ running' \in {"none", "socket"} /\ UNCHANGED <<now, due>>
      BY <2>1, <2>7 DEF TasksInv, HandleSocket, clockVars
    <3> QED  BY <2>2, <2>3, <3>1
  <2>8. CASE HandleAlarm
    <3>1. running = "none" /\ now' = now
      BY <2>8 DEF HandleAlarm, InHandler, clockVars
    <3>2. CASE Refreshed # << >> /\ Refreshed[1].delay = 0
      <4> DEFINE t == Refreshed[1].task
      <4>1. running' = t /\ due' = [due EXCEPT ![t] = NotPending]
        BY <2>8, <3>2 DEF HandleAlarm
      <4>2. /\ t \in Awaited(due) /\ due[t] <= now
            /\ \A u \in Awaited(due) : due[t] <= due[u] + jumped
        BY <2>1, <3>2, FirstRuns DEF TasksInv
      <4> HIDE DEF t
      <4>3. t \in Tasks
        BY <4>2 DEF Awaited
      <4>4. ASSUME NEW u \in Awaited(due)
            PROVE  due[t] <= due[u] + MaxJump
        <5>1. due[t] \in Nat /\ due[u] \in Nat
          BY <2>1, <4>2 DEF Dues, Awaited
        <5>2. jumped \in Nat /\ jumped <= MaxJump /\ MaxJump \in Nat
          BY <2>1, SchedulerAssumption DEF TasksInv, Clocks
        <5> QED  BY <4>2, <5>1, <5>2
      <4>5. DelayedTasks!Run(t)
        BY <2>1, <2>2, <3>1, <4>1, <4>2, <4>3, <4>4 DEF DelayedTasks!Run
      <4> QED  BY <4>3, <4>5 DEF DelayedTasks!Next
    <3>3. CASE ~(Refreshed # << >> /\ Refreshed[1].delay = 0)
      BY <2>3, <2>8, <3>1, <3>3 DEF HandleAlarm
    <3> QED  BY <3>2, <3>3
  <2>9. CASE PassTime
    BY <2>9 DEF PassTime, Tick, loopVars, DelayedTasks!Tick, DelayedTasks!Next
  <2>10. CASE ClockBack
    BY <2>3, <2>10 DEF ClockBack, SetClockBack, loopVars
  <2>11. CASE Sleep \/ Select
    BY <2>3, <2>11 DEF Sleep, Select, clockVars
  <2>12. CASE \/ \E s \in Sockets : \/ SetBackgroundHandling(s) \/ ClearBackgroundHandling(s)
                                     \/ Arrive(s)
              \/ \E old, new \in Sockets : MoveSocketHandling(old, new)
    BY <2>3, <2>12 DEF SetBackgroundHandling, ClearBackgroundHandling, MoveSocketHandling,
                       Change, Arrive, clockVars, loopVars
  <2>13. CASE UNCHANGED vars
    BY <2>3, <2>13 DEF vars, clockVars, loopVars
  <2> QED  BY <1>2, <2>4, <2>5, <2>6, <2>7, <2>8, <2>9, <2>10, <2>11, <2>12, <2>13
           DEF Next, Loop, DelayedTasks!Next
<1> QED  BY <1>1, <1>2, InvHolds, PTL DEF Spec, ImplementsAlarms, DelayedTasks!Spec

=============================================================================
