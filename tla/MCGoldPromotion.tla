--------------------------- MODULE MCGoldPromotion --------------------------
(* Instances of GoldPromotion for TLC. *)
EXTENDS GoldPromotion, TLC

CONSTANTS s1, s2, o1, o2

SessionSymmetry == Permutations(Promoters) \cup Permutations(Operators)
=============================================================================
