------------------------------- MODULE Least -------------------------------
(***************************************************************************)
(* The first of a set of positions, which searches through lists find.     *)
(***************************************************************************)
EXTENDS Naturals, WellFoundedInduction, TLAPS

(* A set of numbers that is not empty has a least member. *)
LEMMA LeastExists ==
  ASSUME NEW S \in SUBSET Nat, S # {}
  PROVE  \E l \in S : \A k \in S : l <= k
  <1>1. PICK l \in S : \A k \in S : ~(<<k, l>> \in OpToRel(<, Nat))
    BY WFMin, NatLessThanWellFounded
  <1>2. \A k \in S : ~(k < l)
    BY <1>1 DEF OpToRel
  <1> QED BY <1>2
=============================================================================
