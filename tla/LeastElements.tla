--------------------------- MODULE LeastElements ---------------------------
(***************************************************************************)
(* Sets of numbers have least elements; what that says of definitions that *)
(* choose the first place in a queue, or the last number, with a property. *)
(***************************************************************************)
EXTENDS Integers, WellFoundedInduction, TLAPS

\* A set of natural numbers that is not empty has a least element.
LEMMA LeastExists ==
  ASSUME NEW T, T \subseteq Nat, T # {}
  PROVE  \E x \in T : \A y \in T : x <= y
<1>1. PICK x \in T : \A y \in T : ~(<<y, x>> \in OpToRel(<, Nat))
  BY NatLessThanWellFounded, WFMin
<1>2. ASSUME NEW y \in T, ~(<<y, x>> \in OpToRel(<, Nat))
      PROVE  ~(y < x)
  <2>1. <<y, x>> \in Nat \X Nat
    OBVIOUS
  <2>2. <<y, x>>[1] = y /\ <<y, x>>[2] = x
    OBVIOUS
  <2> QED  BY <1>2, <2>1, <2>2, Zenon DEF OpToRel
<1>3. \A y \in T : ~(y < x)
  BY <1>1, <1>2, Zenon
<1> QED  BY <1>3

\* A set of natural numbers below a bound has a greatest element, too.
LEMMA GreatestExists ==
  ASSUME NEW n \in Nat, NEW T, T \subseteq 0..n, T # {}
  PROVE  \E x \in T : \A y \in T : y <= x
<1> DEFINE U == {n - x : x \in T}
<1>1. U \subseteq Nat /\ U # {}
  <2>1. ASSUME NEW x \in T
        PROVE  n - x \in Nat
    <3>1. x \in 0..n
      OBVIOUS
    <3> QED  BY <3>1
  <2> QED  BY <2>1
<1>2. PICK u \in U : \A v \in U : u <= v
  BY <1>1, LeastExists
<1>3. PICK x \in T : u = n - x
  OBVIOUS
<1>4. ASSUME NEW y \in T
      PROVE  n - x <= n - y
  <2>1. n - y \in U
    OBVIOUS
  <2> QED  BY <1>2, <1>3, <2>1
<1>5. ASSUME NEW y \in T
      PROVE  y <= x
  <2>1. x \in 0..n /\ y \in 0..n
    OBVIOUS
  <2> QED  BY <1>4, <2>1
<1> QED  BY <1>5

\* Induction up to l, on a set: it holds all numbers up to l if it holds 0 and
\* with each of them the next.
LEMMA UpTo ==
  ASSUME NEW l \in Nat, NEW T, 0 \in T,
         \A n \in 1..l : n - 1 \in T => n \in T
  PROVE  \A n \in 0..l : n \in T
<1> DEFINE Missing == {n \in 0..l : n \notin T}
<1> SUFFICES ASSUME Missing # {}
             PROVE  FALSE
  OBVIOUS
<1>1. Missing \subseteq Nat
  OBVIOUS
<1>2. PICK n \in Missing : \A m \in Missing : n <= m
  BY <1>1, LeastExists
<1>3. n \in 1..l /\ n \notin T
  OBVIOUS
<1>4. n - 1 \in T
  BY <1>2, <1>3
<1> QED  BY <1>3, <1>4
=============================================================================
