---------------------------- MODULE LeastNumbers ----------------------------
(***************************************************************************)
(* Least and greatest members of sets of numbers, from the well-founded    *)
(* order of the naturals: what a CHOOSE of the first or last slot, or of   *)
(* the first failure that is kept, relies on.                              *)
(***************************************************************************)
EXTENDS Integers, WellFoundedInduction, TLAPS

(* A set of natural numbers has a least one.                                 *)
LEMMA LeastOf ==
  ASSUME NEW S \in SUBSET Nat, S # {}
  PROVE  \E x \in S : \A y \in S : x <= y
  <1> DEFINE less == {ss \in Nat \X Nat : ss[1] < ss[2]}
  <1>1. IsWellFoundedOn(less, Nat)
    BY NatLessThanWellFounded, Zenon DEF OpToRel
  <1>2. ASSUME NEW x \in Nat, NEW y \in Nat, y < x
        PROVE  <<y, x>> \in less
    <2>1. <<y, x>> \in Nat \X Nat /\ <<y, x>>[1] = y /\ <<y, x>>[2] = x
      OBVIOUS
    <2> QED
      BY <1>2, <2>1
  <1> HIDE DEF less
  <1>3. \E x \in S : \A y \in S : ~(<<y, x>> \in less)
    BY <1>1, WFMin, Zenon
  <1>4. \A x \in S, y \in S : ~(<<y, x>> \in less) => x <= y
    <2> SUFFICES ASSUME NEW x \in S, NEW y \in S, ~(x <= y)
                 PROVE  <<y, x>> \in less
      OBVIOUS
    <2>1. x \in Nat /\ y \in Nat /\ y < x
      OBVIOUS
    <2> QED
      BY <1>2, <2>1
  <1> QED
    BY <1>3, <1>4, Zenon

(* If it is bounded, it has a greatest one.                                  *)
LEMMA GreatestOf ==
  ASSUME NEW n \in Nat, NEW S \in SUBSET (0..n), S # {}
  PROVE  \E x \in S : \A y \in S : x >= y
  <1> DEFINE R == {n - x : x \in S}
  <1>1. \A x \in S : x \in Nat /\ x <= n /\ n - x \in Nat
    OBVIOUS
  <1>2. R \in SUBSET Nat /\ R # {}
    BY <1>1
  <1>3. PICK r \in R : \A q \in R : r <= q
    BY <1>2, LeastOf
  <1>4. PICK x \in S : r = n - x
    OBVIOUS
  <1>5. ASSUME NEW y \in S PROVE x >= y
    <2>1. n - y \in R
      OBVIOUS
    <2>2. n - x <= n - y
      BY <1>3, <1>4, <2>1
    <2>3. x \in Nat /\ y \in Nat /\ n \in Nat
      BY <1>1
    <2> HIDE DEF R
    <2> QED
      BY <2>2, <2>3
  <1> QED
    BY <1>5

=============================================================================
