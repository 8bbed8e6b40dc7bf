---------------------------- MODULE Bounds_proofs -----------------------------
(* Sets of numbers have ends: what the greatest and the least element of a    *)
(* set are chosen from, in the editors, the panels and the host.  Induction   *)
(* is over such a set: one that has zero and every successor has all numbers. *)
EXTENDS Integers, WellFoundedInduction, TLAPS

\* A set of natural numbers has a least element.
LEMMA LeastIn == ASSUME NEW S \in SUBSET Nat, S # {}
                 PROVE  \E x \in S : \A y \in S : x <= y
  <1>1. PICK x \in S : \A y \in S : ~(<<y, x>> \in OpToRel(<, Nat))
    <2> DEFINE R == OpToRel(<, Nat)
    <2>1. IsWellFoundedOn(R, Nat)
      BY NatLessThanWellFounded
    <2> HIDE DEF R
    <2>2. \E x \in S : \A y \in S : ~(<<y, x>> \in R)
      BY <2>1, WFMin
    <2> QED BY <2>2 DEF R
  <1>2. ASSUME NEW y \in S PROVE x <= y
    <2>1. y \in Nat /\ x \in Nat
      OBVIOUS
    <2>2. <<y, x>> \in OpToRel(<, Nat) <=> <<y, x>> \in Nat \X Nat /\ y < x
      BY Zenon DEF OpToRel
    <2>3. ~(y < x)
      BY <1>1, <2>1, <2>2
    <2> QED BY <2>1, <2>3
  <1> QED BY <1>2

\* A bounded one has a greatest: the one that is nearest to the bound.
LEMMA GreatestIn == ASSUME NEW n \in Nat, NEW S \in SUBSET (0 .. n), S # {}
                    PROVE  \E x \in S : \A y \in S : x >= y
  <1> DEFINE T == {k \in Nat : \E x \in S : k = n - x}
  <1>1. T \in SUBSET Nat
    OBVIOUS
  <1>2. T # {}
    <2>1. PICK x \in S : TRUE
      OBVIOUS
    <2>2. x \in 0 .. n
      BY <2>1
    <2>3. n - x \in T
      BY <2>1, <2>2
    <2> QED BY <2>3
  <1>3. PICK t \in T : \A y \in T : t <= y
    <2> HIDE DEF T
    <2> QED BY <1>1, <1>2, LeastIn
  <1>4. PICK x \in S : t = n - x
    BY <1>3
  <1>5. ASSUME NEW y \in S PROVE x >= y
    <2>1. x \in 0 .. n /\ y \in 0 .. n
      OBVIOUS
    <2>2. n - y \in T
      BY <2>1
    <2>3. n - x <= n - y
      <3> HIDE DEF T
      <3> QED BY <1>3, <1>4, <2>2
    <2> QED BY <2>1, <2>3
  <1> QED BY <1>5

\* A set that has 0 and every successor of its members has every number.
LEMMA Counted ==
  ASSUME NEW S \in SUBSET Nat, 0 \in S, \A n \in S : n + 1 \in S
  PROVE  S = Nat
<1>1. SUFFICES ASSUME Nat \ S # {} PROVE FALSE
  OBVIOUS
<1>2. PICK n \in Nat \ S : \A m \in Nat \ S : n <= m
  <2> DEFINE T == Nat \ S
  <2>1. T \in SUBSET Nat /\ T # {}
    BY <1>1
  <2> HIDE DEF T
  <2>2. \E n \in T : \A m \in T : n <= m
    BY <2>1, LeastIn
  <2> QED BY <2>2 DEF T
<1>3. n # 0 /\ n - 1 \in Nat /\ ~(n <= n - 1)
  BY <1>2
<1>4. n - 1 \in S
  BY <1>2, <1>3
<1>5. n \in S
  BY <1>3, <1>4
<1> QED BY <1>2, <1>5
=============================================================================
