---------------------------- MODULE NaturalLemmas ----------------------------
(***************************************************************************)
(* Facts about natural numbers that the proofs about loops rest on: least  *)
(* elements, Min and Max of FiniteSetsExt, and induction over a set.       *)
(***************************************************************************)
EXTENDS Integers, FiniteSetsExt, WellFoundedInduction, TLAPS

(* Every non-empty set of natural numbers has a least element.             *)
LEMMA Least ==
    ASSUME NEW T, T \subseteq Nat, T # {}
    PROVE  \E x \in T : \A y \in T : x <= y
<1> DEFINE R == {ss \in Nat \X Nat : ss[1] < ss[2]}
<1>1. IsWellFoundedOn(R, Nat)
  BY NatLessThanWellFounded DEF OpToRel
<1>2. \A x, y \in Nat : y < x => <<y, x>> \in R
  OBVIOUS
<1> HIDE DEF R
<1>3. PICK x \in T : \A y \in T : ~ (<<y, x>> \in R)
  BY <1>1, WFMin
<1>4. ASSUME NEW y \in T PROVE x <= y
  <2>1. x \in Nat /\ y \in Nat /\ <<y, x>> \notin R
    BY <1>3
  <2>2. ~ (y < x)
    BY <2>1, <1>2
  <2> QED BY <2>1, <2>2
<1> QED BY <1>4

(* Min of such a set is that element.                                      *)
LEMMA MinIs ==
    ASSUME NEW T, T \subseteq Nat, T # {}
    PROVE  Min(T) \in T /\ \A y \in T : Min(T) <= y
BY Least DEF Min

(* It is the only one.                                                     *)
LEMMA MinOnly ==
    ASSUME NEW T, T \subseteq Nat, NEW x \in T, \A y \in T : x <= y
    PROVE  Min(T) = x
<1>1. Min(T) \in T /\ Min(T) <= x
  BY MinIs
<1>2. ASSUME NEW m \in T, m <= x PROVE m = x
  <2>1. m \in Int /\ x \in Int /\ x <= m
    OBVIOUS
  <2> QED BY <2>1, <1>2
<1> QED BY <1>1, <1>2

(* Induction: a set that holds 0, and n + 1 whenever it holds n, holds     *)
(* every number up to N.                                                   *)
LEMMA Induction ==
    ASSUME NEW N \in Nat, NEW S, 0 \in S, \A n \in 0..(N - 1) : n \in S => n + 1 \in S
    PROVE  \A n \in 0..N : n \in S
<1> DEFINE T == {n \in 0..N : n \notin S}
<1>1. SUFFICES ASSUME T # {} PROVE FALSE
  OBVIOUS
<1>2. T \subseteq Nat
  OBVIOUS
<1>3. PICK x \in T : \A y \in T : x <= y
  BY <1>1, <1>2, Least
<1>4. x # 0 /\ x - 1 \in 0..(N - 1)
  BY <1>3
<1>5. x - 1 \notin T /\ (x - 1) + 1 = x
  BY <1>3, <1>4
<1> QED BY <1>4, <1>5

(* The greatest element of a set of integers is its Max.                   *)
LEMMA MaxOnly ==
    ASSUME NEW T, T \subseteq Int, NEW x \in T, \A y \in T : x >= y
    PROVE  Max(T) = x
<1>1. Max(T) \in T /\ \A y \in T : Max(T) >= y
  BY DEF Max
<1>2. ASSUME NEW m \in T, m >= x PROVE m = x
  <2>1. m \in Int /\ x \in Int /\ x >= m
    OBVIOUS
  <2> QED BY <2>1, <1>2
<1> QED BY <1>1, <1>2
=============================================================================
