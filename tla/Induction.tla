----------------------------- MODULE Induction -----------------------------
(***************************************************************************)
(* Induction over the natural numbers as facts about sets, which can be    *)
(* cited of any set: from the library's fact that every set of them has a  *)
(* least member. The proofs about recursive functions use it, each of them *)
(* on the set of the numbers its claim holds for.                          *)
(***************************************************************************)
EXTENDS Integers, Sequences, WellFoundedInduction, TLAPS

Below == {p \in Nat \X Nat : p[1] < p[2]}

\* Below is the order of the numbers, and no set of them goes down without end.
LEMMA BelowIsWellFounded == IsWellFoundedOn(Below, Nat)
<1>1. OpToRel(<, Nat) = Below
  BY Zenon DEF OpToRel, Below
<1> QED
  BY <1>1, NatLessThanWellFounded, Zenon

\* A set of naturals that holds 0, and n + 1 whenever it holds n, holds them all.
LEMMA SetInduction ==
  ASSUME NEW S, 0 \in S, \A n \in Nat : n \in S => n + 1 \in S
  PROVE  Nat \subseteq S
<1> DEFINE Others == Nat \ S
<1>1. SUFFICES ASSUME Others # {} PROVE FALSE
  BY Zenon
<1>2. PICK x \in Others : \A y \in Others : <<y, x>> \notin Below
  BY <1>1, BelowIsWellFounded, WFMin, Zenon
<1>3. x \in Nat /\ x \notin S /\ x # 0
  BY <1>2
<1>4. x - 1 \in Nat /\ <<x - 1, x>> \in Below
  BY <1>3 DEF Below
<1>5. x - 1 \in S
  BY <1>2, <1>4
<1>6. (x - 1) + 1 \in S
  BY <1>5, <1>4
<1> QED
  BY <1>6, <1>3, <1>4

\* A non-empty set of numbers up to n has a greatest one.
LEMMA GreatestLemma ==
  ASSUME NEW n \in Nat, NEW T \in SUBSET (1 .. n), T # {}
  PROVE  \E k \in T : \A l \in T : l <= k
<1> DEFINE Distances == {d \in Nat : \E k \in T : d = n - k}
<1>0. PICK some \in T : TRUE
  OBVIOUS
<1>1. Distances \subseteq Nat /\ Distances # {}
  <2>1. n - some \in Distances
    BY <1>0
  <2> QED
    BY <2>1
<1>2. PICK d \in Distances : \A y \in Distances : <<y, d>> \notin Below
  <2> HIDE DEF Distances
  <2> QED BY <1>1, BelowIsWellFounded, WFMin, Zenon
<1>3. PICK k \in T : d = n - k
  BY <1>2
<1>4. ASSUME NEW l \in T, ~(l <= k) PROVE FALSE
  <2>1. n - l \in Distances /\ n - l < d /\ d \in Nat
    BY <1>3, <1>4, <1>2
  <2> QED
    BY <2>1, <1>2 DEF Below
<1> QED
  BY <1>4
=============================================================================
