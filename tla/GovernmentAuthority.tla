------------------------ MODULE GovernmentAuthority ------------------------
(***************************************************************************)
(* The issuing authority of code/python/protocol.py: one accumulator and   *)
(* one registry per age threshold, and the signed root bundles published   *)
(* from them.  The tree is seen here through its public interface: a root  *)
(* is the assignment of leaves to slots that it commits to.                *)
(***************************************************************************)
EXTENDS Naturals, Sequences

CONSTANTS
    Instances,   \* the thresholds an authority instance runs for
    Citizens,    \* the keys of GovernmentAuthority.registry
    Leaves,      \* the commitments wallets present
    EmptyLeaf,   \* EMPTY_LEAF, the digest of a slot nobody holds
    NoIndex,     \* dict.get's None: a citizen with no index
    Capacity,    \* 1 << depth
    MaxTime,     \* bound on the authority's clock
    MaxBundles   \* bound on the bundles published

ASSUME CapacityAssumption == Capacity \in Nat \ {0}
ASSUME LeafAssumption == EmptyLeaf \notin Leaves
ASSUME NoIndexAssumption == NoIndex \notin Nat

VARIABLES
    registry,    \* per instance: citizen -> slot, or NoIndex
    tree,        \* per instance: the leaf in each slot
    nextIndex,   \* per instance: the first slot never handed out
    gaNow,       \* the authority's clock, in the whole seconds of issued_at
    published    \* every root bundle ever published, oldest first

vars == <<registry, tree, nextIndex, gaNow, published>>

Slots == 0 .. Capacity - 1

EmptyTree == [i \in Slots |-> EmptyLeaf]

Bundles == [root : [Slots -> Leaves \cup {EmptyLeaf}], tree_size : 0 .. Capacity,
            issued_at : Nat, threshold : Instances]

Init == /\ registry = [a \in Instances |-> [c \in Citizens |-> NoIndex]]
        /\ tree = [a \in Instances |-> EmptyTree]
        /\ nextIndex = [a \in Instances |-> 0]
        /\ gaNow = 0
        /\ published = <<>>

-----------------------------------------------------------------------------
(* Slips a maintainer could make in the operations below. *)

FirstFreeSlot(a) ==
    IF \E i \in Slots : tree[a][i] = EmptyLeaf
    THEN CHOOSE i \in Slots : /\ tree[a][i] = EmptyLeaf
                              /\ \A j \in 0 .. i - 1 : tree[a][j] # EmptyLeaf
    ELSE Capacity

TreeFullOffByOne(a) == nextIndex[a] > Capacity

RegisterBeforeAppend(a, c, adult) ==
    /\ adult /\ registry[a][c] = NoIndex
    /\ nextIndex[a] >= Capacity
    /\ registry' = [registry EXCEPT ![a][c] = Capacity - 1]
    /\ UNCHANGED <<tree, nextIndex, gaNow, published>>

RevokeGivesSlotBack(a, c) ==
    /\ registry[a][c] # NoIndex
    /\ registry' = [registry EXCEPT ![a][c] = NoIndex]
    /\ tree' = [tree EXCEPT ![a][registry[a][c]] = EmptyLeaf]
    /\ nextIndex' = [nextIndex EXCEPT ![a] = IF registry[a][c] = @ - 1 THEN @ - 1 ELSE @]
    /\ UNCHANGED <<gaNow, published>>

-----------------------------------------------------------------------------
(* SparseMerkleTree.append hands out the slots in order, once each. *)
NextSlot(a) == nextIndex[a]

TreeFull(a) == nextIndex[a] >= Capacity

(* enroll: refuses a minor and a registered citizen; append raises when the tree is
   full (EnrollTreeFull), otherwise the leaf is written and then the registry.
   A refusal changes nothing. *)
Enroll(a, c, adult, leaf) ==
    /\ adult /\ registry[a][c] = NoIndex
    /\ ~TreeFull(a)
    /\ tree' = [tree EXCEPT ![a][NextSlot(a)] = leaf]
    /\ nextIndex' = [nextIndex EXCEPT ![a] = NextSlot(a) + 1]
    /\ registry' = [registry EXCEPT ![a][c] = NextSlot(a)]
    /\ UNCHANGED <<gaNow, published>>

EnrollTreeFull(a, c, adult) ==
    /\ adult /\ registry[a][c] = NoIndex
    /\ TreeFull(a)
    /\ UNCHANGED vars

Revoke(a, c) ==
    /\ registry[a][c] # NoIndex
    /\ registry' = [registry EXCEPT ![a][c] = NoIndex]
    /\ tree' = [tree EXCEPT ![a][registry[a][c]] = EmptyLeaf]
    /\ UNCHANGED <<nextIndex, gaNow, published>>

Bundle(a) == [root |-> tree[a], tree_size |-> nextIndex[a],
              issued_at |-> gaNow, threshold |-> a]

PublishRootBundle(a) ==
    /\ Len(published) < MaxBundles
    /\ published' = Append(published, Bundle(a))
    /\ UNCHANGED <<registry, tree, nextIndex, gaNow>>

Tick == /\ gaNow < MaxTime
        /\ gaNow' = gaNow + 1
        /\ UNCHANGED <<registry, tree, nextIndex, published>>

Next == \/ \E a \in Instances, c \in Citizens, adult \in BOOLEAN, leaf \in Leaves :
               Enroll(a, c, adult, leaf)
        \/ \E a \in Instances, c \in Citizens, adult \in BOOLEAN : EnrollTreeFull(a, c, adult)
        \/ \E a \in Instances, c \in Citizens : Revoke(a, c)
        \/ \E a \in Instances : PublishRootBundle(a)
        \/ Tick

Spec == Init /\ [][Next]_vars

-----------------------------------------------------------------------------
(* The type of every variable: the registry knows slots of the tree, no instance hands out
   a slot beyond it, and what is published is a bundle. *)
TypeOK ==
    /\ registry \in [Instances -> [Citizens -> Slots \cup {NoIndex}]]
    /\ tree \in [Instances -> [Slots -> Leaves \cup {EmptyLeaf}]]
    /\ nextIndex \in [Instances -> 0 .. Capacity]
    /\ gaNow \in Nat
    /\ published \in Seq(Bundles)

(* The private registry and the public tree agree after any sequence of enrolments,
   refusals and revocations: a registered citizen holds a live slot of their own, and
   every live slot belongs to a registered citizen, so no leaf can be left in the
   tree that revoke() can no longer reach. *)
RegistryMatchesTree ==
    \A a \in Instances :
        /\ \A c \in Citizens : registry[a][c] # NoIndex =>
               /\ tree[a][registry[a][c]] # EmptyLeaf
               /\ \A d \in Citizens : registry[a][d] = registry[a][c] => d = c
        /\ \A i \in Slots : tree[a][i] # EmptyLeaf => \E c \in Citizens : registry[a][c] = i

(* A later state of an accumulator extends an earlier one: slots are handed out in
   order, a slot not yet handed out is empty, a slot once emptied stays empty and a
   slot that is still live holds the leaf it was given. *)
Extends(root1, size1, root2, size2) ==
    /\ size1 <= size2
    /\ \A i \in Slots : i >= size2 => root2[i] = EmptyLeaf
    /\ \A i \in Slots : i < size1 => root2[i] \in {root1[i], EmptyLeaf}

(* The bundles of one threshold are a history: each extends every earlier one, in its
   leaves, its tree_size and its issued_at.  What revoke() removed from a published
   root is in no later root, which is what a site relies on when it replaces a bundle. *)
BundlesAreAHistory ==
    \A j \in DOMAIN published : \A i \in 1 .. j :
        published[i].threshold = published[j].threshold =>
            /\ Extends(published[i].root, published[i].tree_size,
                       published[j].root, published[j].tree_size)
            /\ published[i].issued_at <= published[j].issued_at

(* A slot emptied by revoke() never becomes live again, whoever enrols afterwards: a
   path that led to a revoked leaf cannot come back under a new owner. *)
NoSlotReuse ==
    [][\A a \in Instances, i \in Slots :
          i < nextIndex[a] /\ tree[a][i] = EmptyLeaf => tree'[a][i] = EmptyLeaf]_vars

Kept(a) == INSTANCE Accumulator WITH leaves <- tree[a], size <- nextIndex[a]

(* Every operation of the authority moves each tree as an accumulator may move: it is an
   append to the next slot or a revocation of a slot already handed out, and never of
   one beyond, or it leaves the tree alone. *)
TreesAreAccumulators ==
    /\ \A a \in Instances : Kept(a)!Init
    /\ [][\A a \in Instances : [Kept(a)!Next]_<<tree[a], nextIndex[a]>>]_vars

=============================================================================
