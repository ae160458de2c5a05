------------------------------ MODULE Induction ------------------------------
(* Induction on the natural numbers, for a set of numbers.                   *)
EXTENDS WellFoundedInduction, TLAPS

NatLess == {p \in Nat \X Nat : p[1] < p[2]}

LEMMA NatLessWellFounded == IsWellFoundedOn(NatLess, Nat)
<1>1. NatLess = OpToRel(<, Nat)
  BY DEF NatLess, OpToRel
<1> QED BY <1>1, NatLessThanWellFounded

\* A set that holds 0 and, with every number, the next one holds them all.
LEMMA SetInduction ==
  ASSUME NEW T, 0 \in T, \A n \in Nat : n \in T => n + 1 \in T
  PROVE  Nat \subseteq T
<1> DEFINE B == Nat \ T
<1>1. SUFFICES ASSUME B # {} PROVE FALSE
  OBVIOUS
<1>2. PICK m \in B : \A y \in B : ~(<<y, m>> \in NatLess)
  BY <1>1, NatLessWellFounded, WFMin
<1>3. m # 0 /\ m \in Nat /\ m - 1 \in Nat /\ m - 1 < m
  OBVIOUS
<1>4. m - 1 \in T
  BY <1>2, <1>3 DEF NatLess
<1>5. (m - 1) + 1 \in T
  BY <1>3, <1>4
<1> QED BY <1>3, <1>5

\* A set of numbers that is not empty has a least one.
LEMMA LeastNumber ==
  ASSUME NEW T \in SUBSET Nat, T # {}
  PROVE  \E m \in T : \A n \in T : m <= n
<1>1. IsWellFoundedOn(NatLess, Nat)
  BY NatLessWellFounded
<1>2. PICK m \in T : \A n \in T : ~(<<n, m>> \in NatLess)
  BY <1>1, WFMin
<1>3. ASSUME NEW n \in T PROVE m <= n
  <2>1. m \in Nat /\ n \in Nat
    OBVIOUS
  <2>2. ~(n < m)
    BY <1>2, <2>1 DEF NatLess
  <2> QED BY <2>1, <2>2
<1> QED BY <1>3
=============================================================================
