-------------------------- MODULE SparseMerkleTree --------------------------
(***************************************************************************)
(* The accumulator of code/python/core.py: class SparseMerkleTree, one     *)
(* iteration of its loops per step, and the climb from a leaf to a root    *)
(* that the circuit makes along a path.  The calls are serial: pc says     *)
(* which one is running, and nothing else starts before it returns.        *)
(***************************************************************************)
EXTENDS Naturals, Sequences

CONSTANTS
    Depth,          \* levels above the leaves
    Width,          \* Width[h] = 1 << (depth - h), the number of nodes of level h
    Leaves,         \* the digests that are appended
    EmptyLeaf,      \* EMPTY_LEAF
    Compress(_, _)  \* compress_native

ASSUME DepthAssumption == Depth \in Nat \ {0}
ASSUME WidthAssumption ==
    /\ Width \in [0 .. Depth -> Nat \ {0}]
    /\ Width[Depth] = 1
    /\ \A k \in 0 .. Depth - 1 : Width[k] = 2 * Width[k + 1]

VARIABLES
    zero,       \* digests of the empty subtrees, by level
    nodes,      \* <<level, index>> -> digest, for the nodes ever written
    nextIndex,
    pc,         \* the call that is running
    idx,        \* its slot
    h, cur,     \* its loop variables: level and index within the level
    path,       \* the bits and siblings read so far
    leaf,       \* the leaf the circuit starts from
    value       \* the digest the circuit holds

vars == <<zero, nodes, nextIndex, pc, idx, h, cur, path, leaf, value>>

Slots == 0 .. Width[0] - 1

Init == /\ zero = <<EmptyLeaf>>
        /\ nodes = [n \in {} |-> EmptyLeaf]
        /\ nextIndex = 0
        /\ pc = "build"
        /\ idx = 0 /\ h = 0 /\ cur = 0
        /\ path = <<>> /\ leaf = EmptyLeaf /\ value = EmptyLeaf

-----------------------------------------------------------------------------
(* Slips a maintainer could make in the operations below. *)

LeafZero(k, i) == IF <<k, i>> \in DOMAIN nodes THEN nodes[<<k, i>>] ELSE zero[1]

BitOfSlot(i) == idx % 2

SiblingFirst(bit, digest, sib) == Compress(sib, digest)

LeftAlways(i, me, sib) == Compress(me, sib)

-----------------------------------------------------------------------------
Sibling(i) == IF i % 2 = 0 THEN i + 1 ELSE i - 1      \* i ^ 1

Bit(i) == i % 2                                        \* i & 1

(* nodes.get((k, i), zero[k]) *)
Get(k, i) == IF <<k, i>> \in DOMAIN nodes THEN nodes[<<k, i>>] ELSE zero[k + 1]

Root == Get(Depth, 0)

Written(key, digest) ==
    [n \in DOMAIN nodes \cup {key} |-> IF n = key THEN digest ELSE nodes[n]]

(* The parent of the node of index i, left or right by the parity of i. *)
Parent(i, me, sib) == IF i % 2 = 0 THEN Compress(me, sib) ELSE Compress(sib, me)

(* The circuit's choice between the running digest and the sibling, by the path bit. *)
Fold(bit, digest, sib) == IF bit = 1 THEN Compress(sib, digest) ELSE Compress(digest, sib)

Last == h + 1 = Depth

(* The constructor's loop. *)
BuildZero ==
    /\ pc = "build"
    /\ zero' = Append(zero, Compress(zero[h + 1], zero[h + 1]))
    /\ h' = IF Last THEN 0 ELSE h + 1
    /\ pc' = IF Last THEN "idle" ELSE pc
    /\ UNCHANGED <<nodes, nextIndex, idx, cur, path, leaf, value>>

(* set_leaf, up to its loop. *)
SetLeaf(slot, digest) ==
    /\ nodes' = Written(<<0, slot>>, digest)
    /\ pc' = "set" /\ idx' = slot /\ cur' = slot /\ h' = 0
    /\ UNCHANGED <<zero, path, leaf, value>>

(* append raises when the tree is full. *)
AppendLeaf(digest) ==
    /\ pc = "idle" /\ nextIndex < Width[0]
    /\ nextIndex' = nextIndex + 1
    /\ SetLeaf(nextIndex, digest)

(* revoke, of a slot that was handed out. *)
Revoke(slot) == /\ pc = "idle" /\ slot < nextIndex
                /\ SetLeaf(slot, EmptyLeaf)
                /\ UNCHANGED nextIndex

(* One level of set_leaf's loop. *)
Climb ==
    /\ pc = "set"
    /\ nodes' = Written(<<h + 1, cur \div 2>>,
                        Parent(cur, nodes[<<h, cur>>], Get(h, Sibling(cur))))
    /\ IF Last THEN pc' = "idle" /\ h' = 0 /\ cur' = 0 /\ idx' = 0
               ELSE pc' = pc /\ h' = h + 1 /\ cur' = cur \div 2 /\ idx' = idx
    /\ UNCHANGED <<zero, nextIndex, path, leaf, value>>

(* path(idx), and one level of its loop. *)
StartPath(slot) ==
    /\ pc = "idle"
    /\ pc' = "path" /\ idx' = slot /\ cur' = slot
    /\ UNCHANGED <<zero, nodes, nextIndex, h, path, leaf, value>>

Walk ==
    /\ pc = "path"
    /\ path' = Append(path, [bit |-> Bit(cur), sib |-> Get(h, Sibling(cur))])
    /\ IF Last THEN pc' = "walked" /\ h' = 0 /\ cur' = 0
               ELSE pc' = pc /\ h' = h + 1 /\ cur' = cur \div 2
    /\ UNCHANGED <<zero, nodes, nextIndex, idx, leaf, value>>

(* circuit: it starts from a leaf, right or wrong, and climbs along the path. *)
StartFold(digest) ==
    /\ pc = "walked"
    /\ pc' = "fold" /\ leaf' = digest /\ value' = digest
    /\ UNCHANGED <<zero, nodes, nextIndex, idx, h, cur, path>>

FoldLevel ==
    /\ pc = "fold"
    /\ value' = Fold(path[h + 1].bit, value, path[h + 1].sib)
    /\ IF Last THEN pc' = "folded" /\ h' = 0 ELSE pc' = pc /\ h' = h + 1
    /\ UNCHANGED <<zero, nodes, nextIndex, idx, cur, path, leaf>>

Return ==
    /\ pc = "folded"
    /\ pc' = "idle" /\ idx' = 0 /\ path' = <<>> /\ leaf' = EmptyLeaf /\ value' = EmptyLeaf
    /\ UNCHANGED <<zero, nodes, nextIndex, h, cur>>

Next == \/ BuildZero
        \/ \E digest \in Leaves : AppendLeaf(digest)
        \/ \E slot \in Slots : Revoke(slot)
        \/ Climb
        \/ \E slot \in Slots : StartPath(slot)
        \/ Walk
        \/ \E digest \in Leaves \cup {EmptyLeaf} : StartFold(digest)
        \/ FoldLevel
        \/ Return

Spec == Init /\ [][Next]_vars

-----------------------------------------------------------------------------
(* The type of every variable; cur is an index of level h. *)
TypeOK ==
    /\ pc \in {"build", "idle", "set", "path", "walked", "fold", "folded"}
    /\ h \in 0 .. Depth - 1 /\ cur \in 0 .. Width[h] - 1
    /\ idx \in Slots /\ nextIndex \in 0 .. Width[0]
    /\ \A n \in DOMAIN nodes : n \in (0 .. Depth) \X Nat /\ n[2] < Width[n[1]]

(* Whether a node is stored or stands for an empty subtree, it is the hash of its two
   children; the one exception is the parent that a running set_leaf writes next. *)
NodesHashTheirChildren ==
    pc # "build" =>
        \A k \in 0 .. Depth - 1 : \A i \in 0 .. Width[k + 1] - 1 :
            \/ pc = "set" /\ k = h /\ i = cur \div 2
            \/ Get(k + 1, i) = Compress(Get(k, 2 * i), Get(k, 2 * i + 1))

(* The circuit, given the path of a slot, reaches the root exactly from the leaf that
   is in that slot: membership is decided by the leaf, in every tree and at every slot. *)
FoldDecidesMembership ==
    pc = "folded" => (value = Root <=> leaf = Get(0, idx))

=============================================================================
