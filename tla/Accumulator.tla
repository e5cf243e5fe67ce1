---------------------------- MODULE Accumulator ----------------------------
(***************************************************************************)
(* What an accumulator promises: leaves are appended to slots handed out   *)
(* in order, and emptied.  Its root commits to exactly these leaves.       *)
(***************************************************************************)
EXTENDS Naturals

CONSTANTS Capacity, Leaves, EmptyLeaf

VARIABLES leaves, size

Init == /\ leaves = [i \in 0 .. Capacity - 1 |-> EmptyLeaf]
        /\ size = 0

Append(leaf) == /\ size < Capacity
                /\ leaves' = [leaves EXCEPT ![size] = leaf]
                /\ size' = size + 1

Revoke(slot) == /\ leaves' = [leaves EXCEPT ![slot] = EmptyLeaf]
                /\ UNCHANGED size

Next == \/ \E leaf \in Leaves : Append(leaf)
        \/ \E slot \in 0 .. size - 1 : Revoke(slot)

Spec == Init /\ [][Next]_<<leaves, size>>

=============================================================================
