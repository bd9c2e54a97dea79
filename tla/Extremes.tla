------------------------------ MODULE Extremes ------------------------------
(***************************************************************************)
(* The least and the greatest index of a search.  Both come from           *)
(* well-foundedness, so that no proof needs an induction of its own.       *)
(***************************************************************************)
EXTENDS Integers, FiniteSetsExt, WellFoundedInduction, TLAPS

\* A set of naturals has a least member ...
LEMMA LeastOf ==
  ASSUME NEW I \in SUBSET Nat, I # {}
  PROVE  Min(I) \in I /\ \A y \in I : Min(I) <= y
<1> DEFINE R == OpToRel(<, Nat)
<1>1. IsWellFoundedOn(R, Nat)
  BY NatLessThanWellFounded
<1>2. \A x, y \in Nat : <<y, x>> \in R <=> y < x
  BY DEF OpToRel
<1> HIDE DEF R
<1>3. I \subseteq Nat /\ I # {}
  OBVIOUS
<1>4. PICK x \in I : \A y \in I : ~(<<y, x>> \in R)
  BY <1>1, <1>3, WFMin, Zenon
<1>5. \A y \in I : ~(y < x)
  BY <1>2, <1>3, <1>4
<1>6. \A y \in I : x <= y
  BY <1>3, <1>5
<1> QED BY <1>6 DEF Min

\* ... and a bounded one a greatest.
LEMMA GreatestOf ==
  ASSUME NEW n \in Nat, NEW I \in SUBSET (1..n), I # {}
  PROVE  Max(I) \in I /\ \A y \in I : y <= Max(I)
<1> DEFINE J == {n - i : i \in I}
<1>1. \A i \in I : i \in 1..n /\ n - i \in J /\ n - i \in Nat
  OBVIOUS
<1>2. J \in SUBSET Nat /\ J # {}
  BY <1>1
<1>3. PICK m \in J : \A y \in J : m <= y
  <2> HIDE DEF J
  <2> QED BY <1>2, LeastOf
<1>4. PICK i \in I : m = n - i
  BY <1>3
<1>5. \A y \in I : n - i <= n - y
  BY <1>1, <1>3, <1>4
<1>6. \A y \in I : y <= i
  BY <1>1, <1>5
<1> QED BY <1>6 DEF Max

=============================================================================
