------------------------------- MODULE MCKved -------------------------------
(* Instances of Kved for TLC. *)
EXTENDS KvedRefinement, TLC

CONSTANTS k1, k2, badkey, s1, s2

NumKeys == [k \in Keys |-> {"num"}]
StrKeys == [k \in Keys |-> {"str"}]
MixedKeys == [k \in Keys |-> IF k = k1 THEN {"str"} ELSE {"num"}]

NoCuts == {}
AllCuts == Labels \ {"off"}
(* Everywhere but between the value and the key of a new entry. *)
CleanCuts == AllCuts \ {"w_key"}

(* A number and UINT64_MAX, the value of an erased word. *)
EdgeNums == {1, FREE}
KeySymmetry == Permutations(Keys)
=============================================================================
