------------------------- MODULE MerkleRefinement -------------------------
(***************************************************************************)
(* SparseMerkleTree implements Accumulator, and a path folds to the root   *)
(* of the tree with one leaf replaced.  Both are said of the leaves that a *)
(* root commits to, so the hash is free: a node is the pair of its         *)
(* children, and a root can be opened.                                     *)
(***************************************************************************)
EXTENDS SparseMerkleTree

Pair(l, r) == <<l, r>>

(* The digest met on each level on the way down to leaf i. *)
LeafBelow(digest, i) ==
    LET walk[n \in 0 .. Depth] ==
            IF n = 0 THEN digest ELSE walk[n - 1][Bit(i \div Width[n]) + 1]
    IN  walk[Depth]

Opened(digest) == [i \in Slots |-> LeafBelow(digest, i)]

(* While a set_leaf climbs, the root is still the old one; the last level replaces it. *)
Committed == IF pc = "build" THEN [i \in Slots |-> EmptyLeaf] ELSE Opened(Root)
Handed == IF pc = "set" /\ nodes[<<0, idx>>] # EmptyLeaf THEN nextIndex - 1 ELSE nextIndex

Promised == INSTANCE Accumulator WITH Capacity <- Width[0], leaves <- Committed, size <- Handed

(* The roots that append and revoke leave behind commit to exactly the leaves appended
   and not revoked, each in the slot its caller was told, through every reuse of stored
   nodes and of cached empty subtrees. *)
ImplementsAccumulator == Promised!Spec

(* The root a path folds to is the root of the same tree with the leaf of that slot
   replaced by the leaf the circuit starts from: what TokenProof takes a proof to say. *)
FoldIsReplacement ==
    pc = "folded" => Opened(value) = [Opened(Root) EXCEPT ![idx] = leaf]

=============================================================================
