--------------------- MODULE GovernmentAuthorityProofs ---------------------
(* What the authority guarantees for every number of thresholds, citizens, leaves,
   slots, clock readings and publications. *)
EXTENDS GovernmentAuthority, TLAPS

Registries == [Citizens -> Slots \cup {NoIndex}]
Trees == [Slots -> Leaves \cup {EmptyLeaf}]

(* One instance of the authority: its registry and its tree agree, and append never
   looks back (the slots from next on are untouched and nobody is registered there). *)
InstanceOK(reg, leaves, next) ==
    /\ \A c \in Citizens : reg[c] # NoIndex => reg[c] < next /\ leaves[reg[c]] # EmptyLeaf
    /\ \A c, d \in Citizens : reg[c] # NoIndex /\ reg[c] = reg[d] => c = d
    /\ \A i \in Slots : leaves[i] # EmptyLeaf => \E c \in Citizens : reg[c] = i
    /\ \A i \in Slots : i >= next => leaves[i] = EmptyLeaf

(* The live accumulator extends every bundle published from it: this is what makes the
   next bundle a continuation of the history. *)
LiveExtendsPublished ==
    \A k \in DOMAIN published :
        /\ Extends(published[k].root, published[k].tree_size,
                   tree[published[k].threshold], nextIndex[published[k].threshold])
        /\ published[k].issued_at <= gaNow

(* The inductive invariant. *)
Inv == /\ TypeOK
       /\ \A a \in Instances : InstanceOK(registry[a], tree[a], nextIndex[a])
       /\ LiveExtendsPublished
       /\ BundlesAreAHistory

-----------------------------------------------------------------------------
(* One instance at a time. *)

(* Enrolment takes the next slot, so it disturbs no other citizen's. *)
LEMMA EnrollInstance ==
    ASSUME NEW reg \in Registries, NEW leaves \in Trees, NEW next \in Slots,
           NEW c \in Citizens, NEW leaf \in Leaves,
           InstanceOK(reg, leaves, next), reg[c] = NoIndex
    PROVE  InstanceOK([reg EXCEPT ![c] = next], [leaves EXCEPT ![next] = leaf], next + 1)
  <1> DEFINE reg2 == [reg EXCEPT ![c] = next]
             leaves2 == [leaves EXCEPT ![next] = leaf]
  <1>0. next \in Nat /\ next # NoIndex /\ leaf # EmptyLeaf
    BY NoIndexAssumption, LeafAssumption, CapacityAssumption, SMT DEF Slots
  <1>1. ASSUME NEW d \in Citizens, reg2[d] # NoIndex
        PROVE  reg2[d] < next + 1 /\ leaves2[reg2[d]] # EmptyLeaf
    <2>1. CASE d = c
      BY <1>0, <2>1, SMT DEF Registries, Trees
    <2>2. CASE d # c
      <3>1. reg[d] \in Slots /\ reg[d] < next /\ leaves[reg[d]] # EmptyLeaf /\ reg2[d] = reg[d]
        BY <1>1, <2>2 DEF InstanceOK, Registries
      <3> QED BY <1>0, <3>1, SMT DEF Trees, Slots
    <2> QED BY <2>1, <2>2
  <1>2. ASSUME NEW d \in Citizens, NEW e \in Citizens, reg2[d] # NoIndex, reg2[d] = reg2[e]
        PROVE  d = e
    <2>1. \A f \in Citizens : reg[f] # NoIndex => reg[f] < next /\ reg[f] \in Slots
      BY DEF InstanceOK, Registries
    <2>2. \A f, g \in Citizens : reg[f] # NoIndex /\ reg[f] = reg[g] => f = g
      BY DEF InstanceOK
    <2> QED BY <1>0, <1>2, <2>1, <2>2, SMT DEF Registries, Slots
  <1>3. ASSUME NEW i \in Slots, leaves2[i] # EmptyLeaf
        PROVE  \E d \in Citizens : reg2[d] = i
    <2>1. CASE i = next
      BY <2>1 DEF Registries
    <2>2. CASE i # next
      <3>1. PICK d \in Citizens : reg[d] = i
        BY <1>3, <2>2 DEF InstanceOK, Trees
      <3>2. d # c
        BY <3>1, NoIndexAssumption, CapacityAssumption, SMT DEF Slots
      <3> QED BY <3>1, <3>2 DEF Registries
    <2> QED BY <2>1, <2>2
  <1>4. ASSUME NEW i \in Slots, i >= next + 1
        PROVE  leaves2[i] = EmptyLeaf
    BY <1>0, <1>4, CapacityAssumption, SMT DEF InstanceOK, Trees, Slots
  <1> QED BY <1>1, <1>2, <1>3, <1>4 DEF InstanceOK

(* Revocation clears the citizen's own slot and nobody else's. *)
LEMMA RevokeInstance ==
    ASSUME NEW reg \in Registries, NEW leaves \in Trees, NEW next \in 0 .. Capacity,
           NEW c \in Citizens,
           InstanceOK(reg, leaves, next), reg[c] # NoIndex
    PROVE  InstanceOK([reg EXCEPT ![c] = NoIndex], [leaves EXCEPT ![reg[c]] = EmptyLeaf], next)
  <1> DEFINE reg2 == [reg EXCEPT ![c] = NoIndex]
             leaves2 == [leaves EXCEPT ![reg[c]] = EmptyLeaf]
  <1>1. \A d \in Citizens : reg2[d] # NoIndex => d # c /\ reg2[d] = reg[d]
    BY DEF Registries
  <1>2. ASSUME NEW d \in Citizens, reg2[d] # NoIndex
        PROVE  reg2[d] < next /\ leaves2[reg2[d]] # EmptyLeaf
    <2>1. d # c /\ reg2[d] = reg[d] /\ reg[d] # NoIndex /\ reg[d] \in Slots
      BY <1>1, <1>2 DEF Registries
    <2>2. reg[d] # reg[c]
      BY <2>1 DEF InstanceOK
    <2> QED BY <2>1, <2>2 DEF InstanceOK, Trees
  <1>3. \A d, e \in Citizens : reg2[d] # NoIndex /\ reg2[d] = reg2[e] => d = e
    BY <1>1 DEF InstanceOK
  <1>4. ASSUME NEW i \in Slots, leaves2[i] # EmptyLeaf
        PROVE  \E d \in Citizens : reg2[d] = i
    <2>1. i # reg[c] /\ leaves[i] # EmptyLeaf
      BY <1>4 DEF Trees
    <2>2. PICK d \in Citizens : reg[d] = i
      BY <2>1 DEF InstanceOK
    <2> QED BY <2>1, <2>2 DEF Registries
  <1>5. \A i \in Slots : i >= next => leaves2[i] = EmptyLeaf
    BY DEF InstanceOK, Trees
  <1> QED BY <1>2, <1>3, <1>4, <1>5 DEF InstanceOK

(* An accumulator that gains a leaf in its next slot still extends what it extended. *)
LEMMA AppendExtends ==
    ASSUME NEW root, NEW size \in 0 .. Capacity, NEW leaf,
           NEW leaves \in Trees, NEW next \in Slots,
           Extends(root, size, leaves, next)
    PROVE  Extends(root, size, [leaves EXCEPT ![next] = leaf], next + 1)
  BY CapacityAssumption, SMT DEF Extends, Slots, Trees

(* So does one that loses a leaf. *)
LEMMA ClearExtends ==
    ASSUME NEW root, NEW size \in 0 .. Capacity, NEW slot \in Slots,
           NEW leaves \in Trees, NEW next \in 0 .. Capacity,
           Extends(root, size, leaves, next)
    PROVE  Extends(root, size, [leaves EXCEPT ![slot] = EmptyLeaf], next)
  BY CapacityAssumption, SMT DEF Extends, Slots, Trees

-----------------------------------------------------------------------------
(* The actions. *)

(* What a published bundle is made of. *)
LEMMA PublishedTypes ==
    ASSUME TypeOK, NEW k \in DOMAIN published
    PROVE  /\ published[k].threshold \in Instances
           /\ published[k].tree_size \in 0 .. Capacity
           /\ published[k].issued_at \in Nat
  <1>1. published[k] \in Bundles
    BY SMT DEF TypeOK
  <1> QED BY <1>1 DEF Bundles

(* Every accumulator of the initial state is empty. *)
LEMMA InitInv == Init => Inv
  <1> SUFFICES ASSUME Init PROVE Inv
    OBVIOUS
  <1> USE DEF Init
  <1>1. TypeOK
    BY CapacityAssumption, SMT DEF TypeOK, EmptyTree, Slots, Bundles
  <1>2. \A a \in Instances : InstanceOK(registry[a], tree[a], nextIndex[a])
    BY DEF InstanceOK, EmptyTree
  <1>3. LiveExtendsPublished /\ BundlesAreAHistory
    BY DEF LiveExtendsPublished, BundlesAreAHistory
  <1> QED BY <1>1, <1>2, <1>3 DEF Inv

LEMMA EnrollInv ==
    ASSUME Inv, NEW a \in Instances, NEW c \in Citizens, NEW adult \in BOOLEAN,
           NEW leaf \in Leaves, Enroll(a, c, adult, leaf)
    PROVE  Inv'
  <1> DEFINE next == nextIndex[a]
  <1>1. /\ next \in Slots /\ next + 1 \in 0 .. Capacity
        /\ registry[a] \in Registries /\ tree[a] \in Trees
    BY CapacityAssumption, SMT
    DEF Inv, TypeOK, Enroll, TreeFull, Slots, Registries, Trees
  <1>2. /\ registry[a][c] = NoIndex
        /\ registry' = [registry EXCEPT ![a] = [registry[a] EXCEPT ![c] = next]]
        /\ tree' = [tree EXCEPT ![a] = [tree[a] EXCEPT ![next] = leaf]]
        /\ nextIndex' = [nextIndex EXCEPT ![a] = next + 1]
        /\ UNCHANGED <<gaNow, published>>
    BY DEF Enroll, NextSlot
  <1>3. TypeOK'
    BY <1>1, <1>2, SMT DEF Inv, TypeOK, Registries, Trees
  <1>4. \A b \in Instances : InstanceOK(registry'[b], tree'[b], nextIndex'[b])
    BY <1>1, <1>2, EnrollInstance DEF Inv, TypeOK
  <1>5. LiveExtendsPublished'
    <2> SUFFICES ASSUME NEW k \in DOMAIN published
                 PROVE  /\ Extends(published[k].root, published[k].tree_size,
                                   tree'[published[k].threshold],
                                   nextIndex'[published[k].threshold])
                        /\ published[k].issued_at <= gaNow
      BY <1>2 DEF LiveExtendsPublished, Extends
    <2> DEFINE b == published[k]
    <2>1. /\ b.threshold \in Instances /\ b.tree_size \in 0 .. Capacity
          /\ Extends(b.root, b.tree_size, tree[b.threshold], nextIndex[b.threshold])
          /\ b.issued_at <= gaNow
      BY PublishedTypes DEF Inv, LiveExtendsPublished
    <2>2. CASE b.threshold = a
      BY <1>1, <1>2, <2>1, <2>2, AppendExtends DEF Inv, TypeOK
    <2>3. CASE b.threshold # a
      BY <1>2, <2>1, <2>3 DEF Inv, TypeOK
    <2> QED BY <2>2, <2>3
  <1>6. BundlesAreAHistory'
    BY <1>2 DEF Inv, BundlesAreAHistory, Extends
  <1> QED BY <1>3, <1>4, <1>5, <1>6 DEF Inv

LEMMA RevokeInv ==
    ASSUME Inv, NEW a \in Instances, NEW c \in Citizens, Revoke(a, c)
    PROVE  Inv'
  <1> DEFINE slot == registry[a][c]
  <1>1. /\ slot \in Slots /\ registry[a] \in Registries /\ tree[a] \in Trees
        /\ nextIndex[a] \in 0 .. Capacity
    BY DEF Inv, TypeOK, Revoke, Registries, Trees
  <1>2. /\ slot # NoIndex
        /\ registry' = [registry EXCEPT ![a] = [registry[a] EXCEPT ![c] = NoIndex]]
        /\ tree' = [tree EXCEPT ![a] = [tree[a] EXCEPT ![slot] = EmptyLeaf]]
        /\ UNCHANGED <<nextIndex, gaNow, published>>
    BY DEF Revoke
  <1>3. TypeOK'
    BY <1>1, <1>2, SMT DEF Inv, TypeOK, Registries, Trees
  <1>4. \A b \in Instances : InstanceOK(registry'[b], tree'[b], nextIndex'[b])
    BY <1>1, <1>2, RevokeInstance DEF Inv, TypeOK
  <1>5. LiveExtendsPublished'
    <2> SUFFICES ASSUME NEW k \in DOMAIN published
                 PROVE  /\ Extends(published[k].root, published[k].tree_size,
                                   tree'[published[k].threshold],
                                   nextIndex[published[k].threshold])
                        /\ published[k].issued_at <= gaNow
      BY <1>2 DEF LiveExtendsPublished, Extends
    <2> DEFINE b == published[k]
    <2>1. /\ b.threshold \in Instances /\ b.tree_size \in 0 .. Capacity
          /\ Extends(b.root, b.tree_size, tree[b.threshold], nextIndex[b.threshold])
          /\ b.issued_at <= gaNow
      BY PublishedTypes DEF Inv, LiveExtendsPublished
    <2>2. CASE b.threshold = a
      BY <1>1, <1>2, <2>1, <2>2, ClearExtends DEF Inv, TypeOK
    <2>3. CASE b.threshold # a
      BY <1>2, <2>1, <2>3 DEF Inv, TypeOK
    <2> QED BY <2>2, <2>3
  <1>6. BundlesAreAHistory'
    BY <1>2 DEF Inv, BundlesAreAHistory, Extends
  <1> QED BY <1>3, <1>4, <1>5, <1>6 DEF Inv

(* The new bundle is the live accumulator, which extends every bundle before it. *)
LEMMA PublishInv ==
    ASSUME Inv, NEW a \in Instances, PublishRootBundle(a)
    PROVE  Inv'
  <1> DEFINE n == Len(published)
  <1>1. /\ published \in Seq(Bundles) /\ n \in Nat
        /\ published' = Append(published, Bundle(a))
        /\ UNCHANGED <<registry, tree, nextIndex, gaNow>>
    BY DEF Inv, TypeOK, PublishRootBundle
  <1>2. Bundle(a) \in Bundles
    BY DEF Inv, TypeOK, Bundle, Bundles
  <1>3. /\ DOMAIN published = 1 .. n /\ DOMAIN published' = 1 .. n + 1
        /\ \A k \in 1 .. n : published'[k] = published[k]
        /\ published'[n + 1] = Bundle(a)
    BY <1>1, <1>2, SMT
  <1>4. TypeOK'
    BY <1>1, <1>2, SMT DEF Inv, TypeOK
  <1>5. Extends(tree[a], nextIndex[a], tree[a], nextIndex[a])
    BY CapacityAssumption, SMT DEF Inv, TypeOK, InstanceOK, Extends, Slots
  <1>6. /\ Bundle(a).root = tree[a] /\ Bundle(a).tree_size = nextIndex[a]
        /\ Bundle(a).threshold = a /\ Bundle(a).issued_at = gaNow
    BY DEF Bundle
  <1>7. LiveExtendsPublished'
    <2> SUFFICES ASSUME NEW k \in 1 .. n + 1
                 PROVE  LET b == published'[k] IN
                        /\ Extends(b.root, b.tree_size, tree[b.threshold], nextIndex[b.threshold])
                        /\ b.issued_at <= gaNow
      BY <1>1, <1>3 DEF LiveExtendsPublished, Extends
    <2>1. CASE k = n + 1
      BY <1>3, <1>5, <1>6, <2>1, SMT DEF Inv, TypeOK
    <2>2. CASE k # n + 1
      <3>1. k \in 1 .. n
        BY <1>1, <2>2, SMT
      <3> QED BY <1>3, <3>1 DEF Inv, LiveExtendsPublished
    <2> QED BY <2>1, <2>2
  <1>8. BundlesAreAHistory'
    <2> SUFFICES ASSUME NEW j \in 1 .. n + 1, NEW i \in 1 .. j,
                        published'[i].threshold = published'[j].threshold
                 PROVE  /\ Extends(published'[i].root, published'[i].tree_size,
                                   published'[j].root, published'[j].tree_size)
                        /\ published'[i].issued_at <= published'[j].issued_at
      BY <1>3 DEF BundlesAreAHistory, Extends
    <2>1. CASE j = n + 1
      <3>1. LET b == published'[i] IN
            /\ b.threshold = a
            /\ Extends(b.root, b.tree_size, tree[b.threshold], nextIndex[b.threshold])
            /\ b.issued_at <= gaNow
        <4>1. i \in 1 .. n + 1
          BY <1>1, SMT
        <4> QED BY <1>1, <1>3, <1>6, <1>7, <2>1, <4>1 DEF LiveExtendsPublished, Extends
      <3> QED BY <1>3, <1>6, <2>1, <3>1
    <2>2. CASE j # n + 1
      <3>1. j \in 1 .. n /\ i \in 1 .. n
        BY <1>1, <2>2, SMT
      <3> QED BY <1>3, <3>1 DEF Inv, BundlesAreAHistory
    <2> QED BY <2>1, <2>2
  <1> QED BY <1>1, <1>4, <1>7, <1>8 DEF Inv

LEMMA TickInv == Inv /\ Tick => Inv'
  <1> SUFFICES ASSUME Inv, Tick PROVE Inv'
    OBVIOUS
  <1>1. gaNow \in Nat /\ gaNow' = gaNow + 1 /\ UNCHANGED <<registry, tree, nextIndex, published>>
    BY DEF Tick, Inv, TypeOK
  <1>2. TypeOK'
    BY <1>1, SMT DEF Inv, TypeOK
  <1>3. LiveExtendsPublished'
    <2>1. \A k \in DOMAIN published : published[k].issued_at \in Nat
      BY PublishedTypes DEF Inv
    <2> QED BY <1>1, <2>1, SMT DEF Inv, LiveExtendsPublished, Extends
  <1>4. BundlesAreAHistory'
    BY <1>1 DEF Inv, BundlesAreAHistory, Extends
  <1> QED BY <1>1, <1>2, <1>3, <1>4 DEF Inv

LEMMA NextInv == Inv /\ [Next]_vars => Inv'
  <1> SUFFICES ASSUME Inv, [Next]_vars PROVE Inv'
    OBVIOUS
  <1>1. CASE UNCHANGED vars
    BY <1>1 DEF vars, Inv, TypeOK, LiveExtendsPublished, BundlesAreAHistory, Extends
  <1>2. ASSUME NEW a \in Instances, NEW c \in Citizens, NEW adult \in BOOLEAN,
               NEW leaf \in Leaves, Enroll(a, c, adult, leaf)
        PROVE  Inv'
    BY <1>2, EnrollInv
  <1>3. ASSUME NEW a \in Instances, NEW c \in Citizens, NEW adult \in BOOLEAN,
               EnrollTreeFull(a, c, adult)
        PROVE  Inv'
    BY <1>1, <1>3 DEF EnrollTreeFull
  <1>4. ASSUME NEW a \in Instances, NEW c \in Citizens, Revoke(a, c)
        PROVE  Inv'
    BY <1>4, RevokeInv
  <1>5. ASSUME NEW a \in Instances, PublishRootBundle(a)
        PROVE  Inv'
    BY <1>5, PublishInv
  <1>6. CASE Tick
    BY <1>6, TickInv
  <1> QED BY <1>1, <1>2, <1>3, <1>4, <1>5, <1>6 DEF Next

-----------------------------------------------------------------------------
(* The results. *)

LEMMA Invariance == Spec => []Inv
  BY InitInv, NextInv, PTL DEF Spec

(* Every variable keeps its type: in particular no slot beyond the tree is ever handed
   out, whatever the order of enrolments and revocations. *)
THEOREM TypeCorrect == Spec => []TypeOK
  <1>1. Inv => TypeOK
    BY DEF Inv
  <1> QED BY <1>1, Invariance, PTL

(* The registry and the tree agree in every reachable state. *)
THEOREM RegistryAgreement == Spec => []RegistryMatchesTree
  <1>1. Inv => RegistryMatchesTree
    BY DEF Inv, InstanceOK, RegistryMatchesTree
  <1> QED BY <1>1, Invariance, PTL

(* The published bundles of a threshold always form a history. *)
THEOREM BundleHistory == Spec => []BundlesAreAHistory
  <1>1. Inv => BundlesAreAHistory
    BY DEF Inv
  <1> QED BY <1>1, Invariance, PTL

(* No step of the authority makes a slot live that was handed out and emptied. *)
THEOREM SlotsAreNotReused == Spec => NoSlotReuse
  <1>1. Inv /\ [Next]_vars =>
          [\A a \in Instances, i \in Slots :
              i < nextIndex[a] /\ tree[a][i] = EmptyLeaf => tree'[a][i] = EmptyLeaf]_vars
    <2> SUFFICES ASSUME Inv, Next, NEW b \in Instances, NEW i \in Slots,
                        i < nextIndex[b], tree[b][i] = EmptyLeaf
                 PROVE  tree'[b][i] = EmptyLeaf
      OBVIOUS
    <2>0. tree \in [Instances -> Trees] /\ nextIndex \in [Instances -> 0 .. Capacity]
      BY DEF Inv, TypeOK, Trees
    <2>1. ASSUME NEW a \in Instances, NEW c \in Citizens, NEW adult \in BOOLEAN,
                 NEW leaf \in Leaves, Enroll(a, c, adult, leaf)
          PROVE  tree'[b][i] = EmptyLeaf
      BY <2>0, <2>1, SMT DEF Enroll, NextSlot, Trees, Slots
    <2>2. ASSUME NEW a \in Instances, NEW c \in Citizens, Revoke(a, c)
          PROVE  tree'[b][i] = EmptyLeaf
      BY <2>0, <2>2, SMT DEF Revoke, Trees
    <2>3. CASE UNCHANGED tree
      BY <2>3
    <2> QED BY <2>1, <2>2, <2>3 DEF Next, EnrollTreeFull, PublishRootBundle, Tick, vars
  <1> QED BY <1>1, Invariance, PTL DEF Spec, NoSlotReuse

(* Every step of the authority is a step of an accumulator, or none, for each of its
   trees: a revoked slot was handed out before. *)
THEOREM KeepsAccumulators == Spec => TreesAreAccumulators
  <1>1. Init => \A a \in Instances : Kept(a)!Init
    BY DEF Init, EmptyTree, Slots, Kept!Init
  <1>2. Inv /\ [Next]_vars =>
            [\A a \in Instances : [Kept(a)!Next]_<<tree[a], nextIndex[a]>>]_vars
    <2> SUFFICES ASSUME Inv, Next, NEW b \in Instances
                 PROVE  Kept(b)!Next \/ (tree'[b] = tree[b] /\ nextIndex'[b] = nextIndex[b])
      OBVIOUS
    <2>0. /\ tree \in [Instances -> Trees] /\ nextIndex \in [Instances -> 0 .. Capacity]
          /\ registry \in [Instances -> Registries]
      BY DEF Inv, TypeOK, Trees, Registries
    <2>1. ASSUME NEW a \in Instances, NEW c \in Citizens, NEW adult \in BOOLEAN,
                 NEW leaf \in Leaves, Enroll(a, c, adult, leaf)
          PROVE  Kept(b)!Next \/ (tree'[b] = tree[b] /\ nextIndex'[b] = nextIndex[b])
      <3>1. CASE b = a
        <4>1. Kept(b)!Append(leaf)
          BY <2>0, <2>1, <3>1, CapacityAssumption, SMT
          DEF Enroll, NextSlot, TreeFull, Kept!Append
        <4> QED BY <4>1 DEF Kept!Next
      <3>2. CASE b # a
        BY <2>0, <2>1, <3>2 DEF Enroll
      <3> QED BY <3>1, <3>2
    <2>2. ASSUME NEW a \in Instances, NEW c \in Citizens, Revoke(a, c)
          PROVE  Kept(b)!Next \/ (tree'[b] = tree[b] /\ nextIndex'[b] = nextIndex[b])
      <3>1. CASE b = a
        <4>1. Kept(b)!Revoke(registry[b][c])
          BY <2>0, <2>2, <3>1 DEF Revoke, Kept!Revoke
        <4>2. registry[b][c] \in Slots /\ registry[b][c] < nextIndex[b]
          BY <2>0, <2>2, <3>1 DEF Revoke, Inv, InstanceOK, Registries
        <4>3. registry[b][c] \in 0 .. nextIndex[b] - 1
          BY <2>0, <4>2, CapacityAssumption, SMT DEF Slots
        <4> QED BY <4>1, <4>3 DEF Kept!Next
      <3>2. CASE b # a
        BY <2>0, <2>2, <3>2 DEF Revoke
      <3> QED BY <3>1, <3>2
    <2>3. CASE UNCHANGED <<tree, nextIndex>>
      BY <2>3
    <2> QED BY <2>1, <2>2, <2>3 DEF Next, EnrollTreeFull, PublishRootBundle, Tick, vars
  <1> QED BY <1>1, <1>2, Invariance, PTL DEF Spec, TreesAreAccumulators

=============================================================================
