------------------------------ MODULE OrderLemmas ------------------------------
(***************************************************************************)
(* The least-number principle as a statement about sets, which every proof *)
(* of this project uses in place of an induction: the first frame of a     *)
(* list, the first free slot of a bitmap, the least counterexample.        *)
(***************************************************************************)
EXTENDS Integers, FiniteSetTheorems, TLAPS

\* A non-empty set of natural numbers has a least element: the searches of the
\* code that take the first of something (RM_FindFreeSlot, FindFreeFrame) find it.
LEMMA LeastElement ==
  ASSUME NEW S, S \subseteq Nat, S # {}
  PROVE  \E n \in S : \A m \in S : n <= m
<1> DEFINE R == StrictSubsetOrdering(Nat)
           T == {0 .. n : n \in S}
<1>1. IsWellFoundedOn(R, FiniteSubsetsOf(Nat))
  BY FS_StrictSubsetOrderingWellFounded
<1>2. T \subseteq FiniteSubsetsOf(Nat)
  <2> SUFFICES ASSUME NEW n \in S
               PROVE  0 .. n \in SUBSET Nat /\ IsFiniteSet(0 .. n)
    BY DEF FiniteSubsetsOf
  <2> QED
    BY FS_Interval
<1>3. T # {}
  OBVIOUS
<1>4. PICK I \in T : \A J \in T : ~ (<<J, I>> \in R)
  <2> HIDE DEF R, T
  <2> QED
    BY <1>1, <1>2, <1>3, WFMin
<1>5. PICK n \in S : I = 0 .. n
  OBVIOUS
<1>6. ASSUME NEW m \in S, m < n PROVE FALSE
  <2>1. 0 .. m \subseteq 0 .. n /\ n \in 0 .. n /\ n \notin 0 .. m
    BY <1>6
  <2>2. 0 .. m \in SUBSET Nat /\ 0 .. n \in SUBSET Nat /\ 0 .. m # 0 .. n
    BY <2>1
  <2>3. <<0 .. m, 0 .. n>> \in R
    BY <2>1, <2>2 DEF StrictSubsetOrdering
  <2> QED
    BY <1>4, <1>5, <2>3
<1> QED
  BY <1>6
=============================================================================
