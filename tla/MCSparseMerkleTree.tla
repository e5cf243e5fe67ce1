------------------------- MODULE MCSparseMerkleTree -------------------------
(* A tree of eight slots, so that paths cross stored and cached siblings at three levels,
   and two leaves to tell apart. *)
EXTENDS MerkleRefinement, TLC

CONSTANTS LeafA, LeafB

MCLeaves == {LeafA, LeafB}
MCSymmetry == Permutations(MCLeaves)   \* leaves are only compared for equality
MCWidth == [k \in 0 .. Depth |-> 2 ^ (Depth - k)]

=============================================================================
