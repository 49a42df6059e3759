-------------------------- MODULE MCStagingPromotion --------------------------
(* StagingPromotion for TLC: model values, and the symmetry of paths and    *)
(* contents, which no definition tells apart.                               *)
EXTENDS StagingPromotion, TLC

Symmetry == Permutations(Paths) \cup Permutations(Contents)
=============================================================================
