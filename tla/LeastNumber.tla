---------------------------- MODULE LeastNumber ----------------------------
(***************************************************************************)
(* A lemma that the proofs about GdbServer and FlashWriter share: the code *)
(* takes the first free slot, and the next sector.                         *)
(***************************************************************************)
EXTENDS Integers, TLAPS, FiniteSetTheorems

(* A nonempty set of naturals has a least member: the intervals that end at *)
(* its members are ordered by inclusion, and finite.                        *)
LEMMA LeastMember ==
    ASSUME NEW S \in SUBSET Nat, S # {}
    PROVE  \E i \in S : \A j \in S : i <= j
<1> DEFINE Below == {0..i : i \in S}
           Order == StrictSubsetOrdering(Nat)
<1>1. Below # {} /\ Below \subseteq FiniteSubsetsOf(Nat)
  <2>1. \A i \in S : 0..i \in SUBSET Nat /\ IsFiniteSet(0..i)
    BY FS_Interval
  <2> QED BY <2>1 DEF FiniteSubsetsOf
<1>2. PICK T \in Below : \A U \in Below : ~ (<<U, T>> \in Order)
  <2>1. IsWellFoundedOn(Order, FiniteSubsetsOf(Nat))
    BY FS_StrictSubsetOrderingWellFounded
  <2> HIDE DEF Below, Order
  <2> QED BY <1>1, <2>1, WFMin
<1>3. PICK i \in S : T = 0..i
  OBVIOUS
<1>4. ASSUME NEW j \in S, j < i
      PROVE  FALSE
  <2>1. 0..j \subseteq 0..i /\ i \in 0..i /\ i \notin 0..j
    BY <1>4
  <2>2. <<0..j, 0..i>> \in Order
    BY <2>1 DEF StrictSubsetOrdering
  <2> QED BY <2>2, <1>2, <1>3
<1> QED BY <1>4
=============================================================================
