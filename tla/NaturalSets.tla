---------------------------- MODULE NaturalSets ----------------------------
(***************************************************************************)
(* Induction, in the form the proofs of this project use it: about sets of *)
(* natural numbers.  The library's induction theorems are about operators; *)
(* the one fact about sets is that the strict subset ordering of finite    *)
(* sets is well-founded, and the intervals 0..n carry it over to numbers.  *)
(***************************************************************************)
EXTENDS FiniteSetTheorems, TLAPS

(* A set of natural numbers has a least element. *)
LEMMA LeastNatural ==
  ASSUME NEW T \in SUBSET Nat, T # {}
  PROVE  \E m \in T : \A n \in T : m <= n
<1> DEFINE Below == {0..n : n \in T}
<1>1. Below \subseteq FiniteSubsetsOf(Nat)
  <2> SUFFICES ASSUME NEW n \in T PROVE 0..n \in FiniteSubsetsOf(Nat)
    OBVIOUS
  <2>1. n \in Nat /\ IsFiniteSet(0..n)
    BY FS_Interval
  <2> QED
    BY <2>1 DEF FiniteSubsetsOf
<1>2. PICK b \in Below : \A c \in Below : <<c, b>> \notin StrictSubsetOrdering(Nat)
  <2>1. Below # {}
    OBVIOUS
  <2> HIDE DEF Below
  <2> QED
    BY <1>1, <2>1, FS_StrictSubsetOrderingWellFounded, WFMin
<1>3. PICK m \in T : b = 0..m
  OBVIOUS
<1>4. ASSUME NEW n \in T PROVE m <= n
  <2>1. SUFFICES ASSUME n < m PROVE FALSE
    OBVIOUS
  <2>2. 0..n \subseteq 0..m /\ 0..n # 0..m /\ 0..n \in SUBSET Nat /\ 0..m \in SUBSET Nat
    <3>1. m \in 0..m /\ m \notin 0..n
      BY <2>1
    <3> QED
      BY <2>1, <3>1
  <2>3. <<0..n, 0..m>> \in StrictSubsetOrdering(Nat)
    BY <2>2 DEF StrictSubsetOrdering
  <2> QED
    BY <1>2, <1>3, <2>3
<1> QED
  BY <1>4

(* A set that has a number and the successors of its elements has all that follow. *)
LEMMA SetInduction ==
  ASSUME NEW a \in Nat, NEW b \in Nat, NEW S, a \in S, \A n \in a..(b - 1) : n \in S => n + 1 \in S
  PROVE  a..b \subseteq S
<1> SUFFICES ASSUME (a..b) \ S # {} PROVE FALSE
  OBVIOUS
<1>0. (a..b) \ S \in SUBSET Nat
  OBVIOUS
<1>1. PICK m \in (a..b) \ S : \A n \in (a..b) \ S : m <= n
  <2> DEFINE T == (a..b) \ S
  <2> HIDE DEF T
  <2>1. T \in SUBSET Nat /\ T # {}
    BY <1>0 DEF T
  <2>2. \E m \in T : \A n \in T : m <= n
    BY <2>1, LeastNatural
  <2> QED
    BY <2>2 DEF T
<1>2. m # a /\ m - 1 \in a..(b - 1)
  BY <1>1
<1>3. m - 1 \in S
  BY <1>1, <1>2
<1> QED
  BY <1>1, <1>2, <1>3
=============================================================================
