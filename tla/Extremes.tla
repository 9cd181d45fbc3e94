------------------------------ MODULE Extremes ------------------------------
(***************************************************************************)
(* Least and greatest elements of sets of natural numbers: the registry    *)
(* imports types in the order of their ids, a later port takes the name of *)
(* an earlier one, and read_all goes through the ports in order.           *)
(***************************************************************************)
EXTENDS Integers, WellFoundedInduction, TLAPS

Below == {p \in Nat \X Nat : p[1] < p[2]}

\* A set of numbers that is not empty has a least one.
LEMMA Least ==
  ASSUME NEW T, T \subseteq Nat, T # {}
  PROVE  \E x \in T : \A y \in T : x <= y
<1>1. IsWellFoundedOn(Below, Nat)
  <2>1. OpToRel(<, Nat) = Below
    BY DEF OpToRel, Below
  <2> QED
    BY <2>1, NatLessThanWellFounded
<1>2. PICK x \in T : \A y \in T : ~(<<y, x>> \in Below)
  BY <1>1, WFMin
<1>3. SUFFICES ASSUME NEW y \in T, ~(x <= y) PROVE FALSE
  BY <1>2
<1>4. y < x /\ <<y, x>> \in Nat \X Nat
  BY <1>3
<1>5. <<y, x>> \in Below
  BY <1>4 DEF Below
<1> QED
  BY <1>2, <1>5

\* One that is bounded has a greatest.
LEMMA Greatest ==
  ASSUME NEW n \in Nat, NEW T, T \subseteq 0 .. n, T # {}
  PROVE  \E x \in T : \A y \in T : y <= x
<1> DEFINE D == {n - x : x \in T}
<1>1. D \subseteq Nat /\ D # {}
  <2>1. \A x \in T : n - x \in Nat
    OBVIOUS
  <2>2. D \subseteq Nat
    BY <2>1
  <2>3. PICK x \in T : TRUE
    OBVIOUS
  <2>4. n - x \in D
    BY <2>3
  <2> QED
    BY <2>2, <2>4
<1> HIDE DEF D
<1>2. PICK d \in D : \A e \in D : d <= e
  BY <1>1, Least
<1>3. PICK x \in T : d = n - x
  BY <1>2 DEF D
<1>4. ASSUME NEW y \in T PROVE y <= x
  <2>1. n - y \in D
    BY DEF D
  <2> QED
    BY <2>1, <1>2, <1>3
<1> QED
  BY <1>4
=============================================================================
