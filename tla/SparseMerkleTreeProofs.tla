----------------------- MODULE SparseMerkleTreeProofs -----------------------
(* What the tree and the circuit's climb guarantee for every depth, every set of leaves,
   and every hash: for FoldDecidesMembership every hash without collisions; for what a
   root commits to, the free one of MerkleRefinement. *)
EXTENDS MerkleRefinement, TLAPS, WellFoundedInduction, NaturalsInduction

CollisionFree == \A l1, r1, l2, r2 : Compress(l1, r1) = Compress(l2, r2) => l1 = l2 /\ r1 = r2

Levels == 0 .. Depth - 1

IsList(s) == \E S : s \in Seq(S)

(* The list of empty subtrees, and the first node a set_leaf stores. *)
ZeroOK ==
    /\ IsList(zero)
    /\ pc = "build" => Len(zero) = h + 1
    /\ pc # "build" => Len(zero) = Depth + 1
    /\ \A k \in 1 .. Len(zero) - 1 : zero[k + 1] = Compress(zero[k], zero[k])
    /\ pc = "build" => DOMAIN nodes = {}
    /\ pc = "set" => <<h, cur>> \in DOMAIN nodes

(* The indices of the nodes from slot idx up to level n. *)
Positions(n) ==
    {pos \in [0 .. n -> Nat] :
        /\ pos[0] = idx
        /\ \A k \in 0 .. n : pos[k] < Width[k]
        /\ \A k \in 0 .. n - 1 : pos[k + 1] = pos[k] \div 2}

Follows(pos, n) ==
    /\ IsList(path)
    /\ Len(path) = n
    /\ \A k \in 0 .. n - 1 : path[k + 1] = [bit |-> Bit(pos[k]), sib |-> Get(k, Sibling(pos[k]))]

(* The circuit holds the node of a level when it started from the right leaf, and only
   then unless two inputs of the hash collide. *)
Decided(digest, level, i, right) ==
    /\ right => digest = Get(level, i)
    /\ CollisionFree => (digest = Get(level, i) => right)

(* The path lists the siblings of these nodes. *)
PathOK ==
    /\ pc = "idle" => path = <<>> /\ h = 0
    /\ pc = "path" => \E pos \in Positions(h) : Follows(pos, h) /\ cur = pos[h]
    /\ pc = "walked" => h = 0 /\ cur = 0 /\ \E pos \in Positions(Depth) : Follows(pos, Depth)
    /\ pc = "set" => path = <<>>
    /\ pc = "build" => path = <<>> /\ cur = 0

Right == leaf = Get(0, idx)

FoldOK ==
    pc \in {"fold", "folded"} =>
        cur = 0 /\ \E pos \in Positions(Depth) :
            /\ Follows(pos, Depth)
            /\ pc = "fold" => Decided(value, h, pos[h], Right)
            /\ pc = "folded" => h = 0 /\ Decided(value, Depth, pos[Depth], Right)

(* The inductive invariant. *)
Inv == TypeOK /\ ZeroOK /\ NodesHashTheirChildren /\ PathOK /\ FoldOK

-----------------------------------------------------------------------------
(* Arithmetic of a level. *)
LEMMA LevelUp ==
    ASSUME NEW k \in Levels, NEW i \in 0 .. Width[k] - 1
    PROVE  /\ i \div 2 \in 0 .. Width[k + 1] - 1
           /\ Sibling(i) \in 0 .. Width[k] - 1
           /\ i % 2 = 0 => 2 * (i \div 2) = i /\ 2 * (i \div 2) + 1 = Sibling(i)
           /\ i % 2 # 0 => i % 2 = 1 /\ 2 * (i \div 2) = Sibling(i) /\ 2 * (i \div 2) + 1 = i
  <1>1. Width[k] = 2 * Width[k + 1] /\ Width[k] \in Nat /\ Width[k + 1] \in Nat
    BY WidthAssumption, DepthAssumption, SMT DEF Levels
  <1> QED BY <1>1, SMT DEF Sibling

LEMMA Children ==
    ASSUME NEW i \in Nat, NEW j \in Nat
    PROVE  /\ (2 * i = j \/ 2 * i + 1 = j) => i = j \div 2
           /\ 2 * i # 2 * j + 1
  BY SMT

LEMMA Widths ==
    ASSUME NEW k \in 0 .. Depth
    PROVE  Width[k] \in Nat
  BY WidthAssumption, SMT

(* Reading after a write. *)
LEMMA GetAfter ==
    ASSUME NEW a, NEW b, NEW digest, nodes' = Written(<<a, b>>, digest), zero' = zero
    PROVE  /\ \A k, i : Get(k, i)' = IF k = a /\ i = b THEN digest ELSE Get(k, i)
           /\ DOMAIN nodes' = DOMAIN nodes \cup {<<a, b>>}
  <1>1. DOMAIN nodes' = DOMAIN nodes \cup {<<a, b>>}
        /\ \A n \in DOMAIN nodes' : nodes'[n] = IF n = <<a, b>> THEN digest ELSE nodes[n]
    BY DEF Written
  <1>2. ASSUME NEW k, NEW i
        PROVE  Get(k, i)' = IF k = a /\ i = b THEN digest ELSE Get(k, i)
    BY <1>1 DEF Get
  <1> QED BY <1>1, <1>2

(* The node above i is the hash of i and its sibling, whichever of the two is stored. *)
LEMMA ParentHashes ==
    ASSUME NEW k \in Levels, NEW i \in 0 .. Width[k] - 1
    PROVE  Parent(i, Get(k, i), Get(k, Sibling(i))) =
               Compress(Get(k, 2 * (i \div 2)), Get(k, 2 * (i \div 2) + 1))
  BY LevelUp DEF Parent

(* Outside set_leaf and path the shape of a node is known. *)
LEMMA InRange ==
    ASSUME Inv
    PROVE  /\ h \in Levels /\ cur \in 0 .. Width[h] - 1 /\ 0 \in Slots /\ 0 \in Levels
           /\ idx \in Slots /\ h + 1 \in 0 .. Depth /\ h \in Nat
           /\ ~Last => h + 1 \in Levels
           /\ Last => h + 1 = Depth
  <1>1. Width[0] \in Nat \ {0}
    BY WidthAssumption, DepthAssumption, SMT
  <1>2. h \in 0 .. Depth - 1 /\ cur \in 0 .. Width[h] - 1 /\ idx \in Slots
    BY DEF Inv, TypeOK
  <1>3. h \in Levels /\ 0 \in Levels /\ 0 \in Slots
    BY <1>1, <1>2, DepthAssumption, SMT DEF Levels, Slots
  <1>4. h \in Nat /\ h + 1 \in 0 .. Depth /\ (h + 1 # Depth => h + 1 \in Levels)
    BY <1>2, DepthAssumption, SMT DEF Levels
  <1> QED BY <1>2, <1>3, <1>4 DEF Last

-----------------------------------------------------------------------------
LEMMA InvInit == Init => Inv
  <1> SUFFICES ASSUME Init PROVE Inv
    OBVIOUS
  <1>1. Width[0] \in Nat \ {0} /\ 0 \in Levels
    BY WidthAssumption, DepthAssumption, SMT DEF Levels
  <1>2. TypeOK
    BY <1>1 DEF Init, TypeOK, Slots, Levels
  <1>3. zero \in Seq({EmptyLeaf}) /\ Len(zero) = 1
    BY DEF Init
  <1>4. ZeroOK
    <2>0. IsList(zero)
      BY <1>3 DEF IsList
    <2>1. IsList(zero) /\ Len(zero) = h + 1
      <3>1. h = 0
        BY DEF Init
      <3> QED BY <1>3, <2>0, <3>1, SMT
    <2>2. 1 .. Len(zero) - 1 = {}
      BY <1>3
    <2> QED BY <2>1, <2>2 DEF Init, ZeroOK
  <1> QED BY <1>2, <1>4 DEF Inv, Init, NodesHashTheirChildren, PathOK, FoldOK

LEMMA BuildKeeps == ASSUME Inv, BuildZero PROVE Inv'
  <1> DEFINE empty == Compress(zero[h + 1], zero[h + 1])
  <1>1. pc = "build" /\ zero' = Append(zero, empty) /\ DOMAIN nodes = {} /\ nodes' = nodes
    BY DEF BuildZero, Inv, ZeroOK
  <1>2. PICK S : zero \in Seq(S)
    BY DEF Inv, ZeroOK, IsList
  <1>3. Len(zero) = h + 1 /\ h \in Nat
    <2>1. Len(zero) = h + 1
      BY <1>1 DEF Inv, ZeroOK
    <2> QED BY <2>1, InRange
  <1>4. /\ zero' \in Seq(S \cup {empty}) /\ Len(zero') = h + 2
        /\ \A k \in 1 .. h + 1 : zero'[k] = zero[k]
        /\ zero'[h + 2] = empty
    <2>1. zero \in Seq(S \cup {empty})
      BY <1>2
    <2> HIDE DEF empty
    <2> QED BY <1>1, <1>3, <2>1
  <1>5. \A k \in 1 .. Len(zero') - 1 : zero'[k + 1] = Compress(zero'[k], zero'[k])
    <2> SUFFICES ASSUME NEW k \in 1 .. h + 1
                 PROVE  zero'[k + 1] = Compress(zero'[k], zero'[k])
      BY <1>3, <1>4
    <2>1. CASE k = h + 1
      <3>1. k + 1 = h + 2
        BY <1>3, <2>1
      <3> QED BY <1>4, <2>1, <3>1
    <2>2. CASE k # h + 1
      <3>1. k \in 1 .. Len(zero) - 1 /\ k + 1 \in 1 .. h + 1
        BY <1>3, <2>2
      <3> QED BY <1>4, <3>1 DEF Inv, ZeroOK
    <2> QED BY <2>1, <2>2
  <1>6. pc' \in {"build", "idle"} /\ h' \in Levels /\ (pc' = "idle" => h' = 0)
        /\ (pc' = "build" => Len(zero') = h' + 1) /\ (pc' = "idle" => Len(zero') = Depth + 1)
        /\ nextIndex' = nextIndex /\ idx' = idx /\ cur' = cur /\ path' = path
    <2>1. CASE Last
      BY <1>3, <1>4, <2>1, InRange DEF BuildZero, Last
    <2>2. CASE ~Last
      BY <1>3, <1>4, <2>2, InRange DEF BuildZero
    <2> QED BY <2>1, <2>2
  <1>7. path = <<>> /\ cur = 0
    BY <1>1 DEF Inv, PathOK
  <1>8. Width[h'] \in Nat \ {0}
    <2>1. h' \in 0 .. Depth
      BY <1>6, DepthAssumption, SMT DEF Levels
    <2> QED BY <2>1, WidthAssumption
  <1>9. TypeOK'
    <2>1. 0 \in 0 .. Width[h'] - 1
      BY <1>8, SMT
    <2> QED BY <1>1, <1>6, <1>7, <2>1 DEF Inv, TypeOK, Levels
  <1>10. ZeroOK'
    <2>1. IsList(zero')
      BY <1>4 DEF IsList
    <2> QED BY <1>1, <1>5, <1>6, <2>1 DEF ZeroOK
  <1>11. NodesHashTheirChildren'
    <2> SUFFICES ASSUME pc' = "idle", NEW k \in Levels, NEW i \in 0 .. Width[k + 1] - 1
                 PROVE  Get(k + 1, i)' = Compress(Get(k, 2 * i)', Get(k, 2 * i + 1)')
      BY <1>6 DEF NodesHashTheirChildren, Levels
    <2>1. \A l, j : Get(l, j)' = zero'[l + 1]
      BY <1>1 DEF Get
    <2>2. k \in Nat /\ k + 1 \in 1 .. Len(zero') - 1
      <3> Len(zero') = Depth + 1
        BY <1>6
      <3> QED BY DepthAssumption, SMT DEF Levels
    <2>3. zero'[(k + 1) + 1] = Compress(zero'[k + 1], zero'[k + 1])
      BY <1>5, <2>2
    <2> QED BY <2>1, <2>3
  <1> QED BY <1>6, <1>7, <1>9, <1>10, <1>11 DEF Inv, PathOK, FoldOK

(* append and revoke write a leaf: only the node above it is left to be written. *)
LEMMA SetLeafKeeps ==
    ASSUME Inv, pc = "idle", NEW slot \in Slots, NEW digest, SetLeaf(slot, digest),
           nextIndex' \in 0 .. Width[0]
    PROVE  Inv'
  <1>1. /\ nodes' = Written(<<0, slot>>, digest) /\ zero' = zero /\ path' = path
        /\ pc' = "set" /\ idx' = slot /\ cur' = slot /\ h' = 0
    BY DEF SetLeaf
  <1>2. /\ \A k, i : Get(k, i)' = IF k = 0 /\ i = slot THEN digest ELSE Get(k, i)
        /\ DOMAIN nodes' = DOMAIN nodes \cup {<<0, slot>>}
    BY <1>1, GetAfter
  <1>3. slot \in Nat /\ slot \in 0 .. Width[0] - 1 /\ slot < Width[0] /\ 0 \in 0 .. Depth
    BY InRange, WidthAssumption, DepthAssumption, SMT DEF Slots
  <1>4. TypeOK'
    BY <1>1, <1>2, <1>3, InRange DEF Inv, TypeOK, Levels
  <1>5. ZeroOK'
    BY <1>1, <1>2 DEF Inv, ZeroOK
  <1>6. NodesHashTheirChildren'
    <2> SUFFICES ASSUME NEW k \in Levels, NEW i \in 0 .. Width[k + 1] - 1,
                        ~(k = 0 /\ i = slot \div 2)
                 PROVE  Get(k + 1, i)' = Compress(Get(k, 2 * i)', Get(k, 2 * i + 1)')
      BY <1>1 DEF NodesHashTheirChildren, Levels
    <2>1. k + 1 # 0 /\ i \in Nat /\ k \in Nat
      BY SMT DEF Levels
    <2>2. ~(k = 0 /\ 2 * i = slot) /\ ~(k = 0 /\ 2 * i + 1 = slot)
      BY <1>3, <2>1, Children
    <2>3. Get(k + 1, i) = Compress(Get(k, 2 * i), Get(k, 2 * i + 1))
      BY DEF Inv, NodesHashTheirChildren, Levels
    <2> QED BY <1>2, <2>1, <2>2, <2>3
  <1> QED BY <1>1, <1>4, <1>5, <1>6 DEF Inv, PathOK, FoldOK

(* One level of set_leaf: the node above cur is made the hash of its children, and the
   next node up is what is left to be written. *)
LEMMA ClimbKeeps == ASSUME Inv, Climb PROVE Inv'
  <1> DEFINE up == cur \div 2
             digest == Parent(cur, nodes[<<h, cur>>], Get(h, Sibling(cur)))
  <1>1. /\ pc = "set" /\ nodes' = Written(<<h + 1, up>>, digest) /\ zero' = zero /\ path' = path
        /\ nextIndex' = nextIndex
        /\ Last => pc' = "idle" /\ h' = 0 /\ cur' = 0 /\ idx' = 0
        /\ ~Last => pc' = "set" /\ h' = h + 1 /\ cur' = up /\ idx' = idx
    BY DEF Climb
  <1>2. /\ \A k, i : Get(k, i)' = IF k = h + 1 /\ i = up THEN digest ELSE Get(k, i)
        /\ DOMAIN nodes' = DOMAIN nodes \cup {<<h + 1, up>>}
    <2> HIDE DEF up, digest
    <2> QED BY <1>1, GetAfter
  <1>3. h \in Levels /\ cur \in 0 .. Width[h] - 1 /\ up \in 0 .. Width[h + 1] - 1
        /\ Width[h + 1] \in Nat
    BY InRange, LevelUp, Widths
  <1>4. up \in Nat /\ up < Width[h + 1]
    <2> HIDE DEF up
    <2> QED BY <1>3, SMT
  <1>5. digest = Compress(Get(h, 2 * up), Get(h, 2 * up + 1))
    <2>1. nodes[<<h, cur>>] = Get(h, cur)
      BY <1>1 DEF Inv, ZeroOK, Get
    <2> QED BY <1>3, <2>1, ParentHashes
  <1> HIDE DEF up, digest
  <1>6. TypeOK'
    <2>1. 0 \in 0 .. Width[0] - 1
      BY InRange DEF Slots
    <2> QED BY <1>1, <1>2, <1>3, <1>4, <2>1, InRange DEF Inv, TypeOK, Levels
  <1>7. ZeroOK'
    BY <1>1, <1>2 DEF Inv, ZeroOK
  <1>8. NodesHashTheirChildren'
    <2> SUFFICES ASSUME NEW k \in Levels, NEW i \in 0 .. Width[k + 1] - 1,
                        ~(pc' = "set" /\ k = h' /\ i = cur' \div 2)
                 PROVE  Get(k + 1, i)' = Compress(Get(k, 2 * i)', Get(k, 2 * i + 1)')
      BY DEF NodesHashTheirChildren, Levels
    <2>1. i \in Nat /\ k \in Nat /\ h \in Nat
      BY <1>3, SMT DEF Levels
    <2>2. Get(k, 2 * i)' = Get(k, 2 * i) /\ Get(k, 2 * i + 1)' = Get(k, 2 * i + 1)
      <3>1. CASE k = h + 1
        <4>1. ~Last
          BY <3>1, <2>1, SMT DEF Last, Levels
        <4>2. i # up \div 2
          BY <1>1, <3>1, <4>1
        <4>3. 2 * i # up /\ 2 * i + 1 # up
          BY <1>4, <2>1, <4>2, Children
        <4> QED BY <1>2, <4>3
      <3>2. CASE k # h + 1
        BY <1>2, <3>2
      <3> QED BY <3>1, <3>2
    <2>3. CASE k = h /\ i = up
      BY <1>2, <1>5, <2>2, <2>3
    <2>4. CASE ~(k = h /\ i = up)
      <3>1. Get(k + 1, i)' = Get(k + 1, i)
        <4>1. ~(k + 1 = h + 1 /\ i = up)
          BY <2>1, <2>4, SMT
        <4> QED BY <1>2, <4>1
      <3>2. Get(k + 1, i) = Compress(Get(k, 2 * i), Get(k, 2 * i + 1))
        BY <1>1, <2>4 DEF Inv, NodesHashTheirChildren, Levels, up
      <3> QED BY <2>2, <3>1, <3>2
    <2> QED BY <2>3, <2>4
  <1> QED BY <1>1, <1>6, <1>7, <1>8 DEF Inv, PathOK, FoldOK

-----------------------------------------------------------------------------
(* A step that leaves the tree alone keeps what is known of it. *)
LEMMA TreeKept ==
    ASSUME Inv, nodes' = nodes, zero' = zero, nextIndex' = nextIndex,
           pc \notin {"build", "set"},
           pc' \in {"idle", "path", "walked", "fold", "folded"},
           h' \in Levels, cur' \in 0 .. Width[h'] - 1, idx' \in Slots
    PROVE  /\ TypeOK' /\ ZeroOK' /\ NodesHashTheirChildren'
           /\ \A k, i : Get(k, i)' = Get(k, i)
  <1>1. \A k, i : Get(k, i)' = Get(k, i)
    BY DEF Get
  <1>2. TypeOK'
    BY DEF Inv, TypeOK, Levels
  <1>3. ZeroOK'
    BY DEF Inv, ZeroOK
  <1>4. \A k \in 0 .. Depth - 1 : \A i \in 0 .. Width[k + 1] - 1 :
            Get(k + 1, i)' = Compress(Get(k, 2 * i)', Get(k, 2 * i + 1)')
    BY <1>1 DEF Inv, NodesHashTheirChildren
  <1>5. NodesHashTheirChildren'
    BY <1>4 DEF NodesHashTheirChildren
  <1> QED BY <1>1, <1>2, <1>3, <1>5

LEMMA StartPathKeeps == ASSUME Inv, NEW slot \in Slots, StartPath(slot) PROVE Inv'
  <1>1. /\ pc = "idle" /\ pc' = "path" /\ idx' = slot /\ cur' = slot /\ h' = h /\ path' = path
        /\ nodes' = nodes /\ zero' = zero /\ nextIndex' = nextIndex
    BY DEF StartPath
  <1>2. h = 0 /\ path = <<>>
    BY <1>1 DEF Inv, PathOK
  <1>3. slot \in 0 .. Width[0] - 1 /\ slot \in Nat /\ slot < Width[0]
    BY InRange, WidthAssumption, DepthAssumption, SMT DEF Slots
  <1>4. TypeOK' /\ ZeroOK' /\ NodesHashTheirChildren'
    BY <1>1, <1>2, <1>3, InRange, TreeKept
  <1>5. PathOK'
    <2> DEFINE pos == [k \in 0 .. 0 |-> slot]
    <2>1. pos \in Positions(0)'
      BY <1>1, <1>3 DEF Positions
    <2>2. path' \in Seq({}) /\ Len(path') = 0
      BY <1>1, <1>2
    <2>3. Follows(pos, 0)'
      BY <2>2 DEF Follows, IsList
    <2> QED BY <1>1, <1>2, <2>1, <2>3 DEF PathOK
  <1> QED BY <1>1, <1>4, <1>5 DEF Inv, FoldOK

(* One more level: the next position is half of this one, and the entry read there is
   appended. *)
LEMMA WalkKeeps == ASSUME Inv, Walk PROVE Inv'
  <1> DEFINE entry == [bit |-> Bit(cur), sib |-> Get(h, Sibling(cur))]
             up == cur \div 2
  <1>1. /\ pc = "path" /\ path' = Append(path, entry) /\ idx' = idx
        /\ nodes' = nodes /\ zero' = zero /\ nextIndex' = nextIndex
        /\ Last => pc' = "walked" /\ h' = 0 /\ cur' = 0
        /\ ~Last => pc' = "path" /\ h' = h + 1 /\ cur' = up
    BY DEF Walk
  <1>2. PICK pos \in Positions(h) : Follows(pos, h) /\ cur = pos[h]
    BY <1>1 DEF Inv, PathOK
  <1>3. h \in Levels /\ h \in Nat /\ up \in 0 .. Width[h + 1] - 1 /\ Width[h + 1] \in Nat
    BY InRange, LevelUp, Widths
  <1>4. up \in Nat /\ up < Width[h + 1]
    <2> HIDE DEF up
    <2> QED BY <1>3, SMT
  <1>5. TypeOK' /\ ZeroOK' /\ NodesHashTheirChildren' /\ \A k, i : Get(k, i)' = Get(k, i)
    <2> HIDE DEF up
    <2>1. 0 \in 0 .. Width[0] - 1
      BY InRange DEF Slots
    <2> QED BY <1>1, <1>3, <2>1, InRange, TreeKept
  <1> DEFINE pos2 == [k \in 0 .. h + 1 |-> IF k = h + 1 THEN up ELSE pos[k]]
  <1>a. PICK n, p : n = h + 1 /\ p = pos2
    OBVIOUS
  <1>6. p \in Positions(n)'
    <2>1. /\ pos \in [0 .. h -> Nat] /\ pos[0] = idx
          /\ \A k \in 0 .. h : pos[k] < Width[k]
          /\ \A k \in 0 .. h - 1 : pos[k + 1] = pos[k] \div 2
      BY DEF Positions
    <2>2. \A k \in 0 .. h + 1 : k # h + 1 => k \in 0 .. h
      BY <1>3
    <2>3. pos2 \in [0 .. h + 1 -> Nat] /\ \A k \in 0 .. h + 1 : pos2[k] < Width[k]
      <3> HIDE DEF up
      <3> QED BY <1>4, <2>1, <2>2
    <2>4. pos2[0] = idx'
      BY <1>1, <1>3, <2>1
    <2>5. \A k \in 0 .. h : pos2[k + 1] = pos2[k] \div 2
      <3> TAKE k \in 0 .. h
      <3>1. CASE k = h
        BY <1>2, <1>3, <3>1
      <3>2. CASE k # h
        <4>1. k \in 0 .. h - 1 /\ k + 1 \in 0 .. h + 1 /\ k + 1 # h + 1
          BY <1>3, <3>2
        <4> QED BY <1>3, <2>1, <4>1
      <3> QED BY <3>1, <3>2
    <2>6. (h + 1) - 1 = h
      BY <1>3
    <2> HIDE DEF pos2
    <2> QED BY <1>a, <2>3, <2>4, <2>5, <2>6 DEF Positions
  <1>7. Follows(p, n)'
    <2>1. PICK S : path \in Seq(S)
      BY <1>2 DEF Follows, IsList
    <2>2. /\ Len(path) = h
          /\ \A k \in 0 .. h - 1 : path[k + 1] = [bit |-> Bit(pos[k]), sib |-> Get(k, Sibling(pos[k]))]
      BY <1>2 DEF Follows
    <2>3. /\ path' \in Seq(S \cup {entry}) /\ Len(path') = h + 1
          /\ \A k \in 1 .. h : path'[k] = path[k]
          /\ path'[h + 1] = entry
      <3>1. path \in Seq(S \cup {entry})
        BY <2>1
      <3> HIDE DEF entry
      <3> QED BY <1>1, <1>3, <2>2, <3>1
    <2>4. ASSUME NEW k \in 0 .. h
          PROVE  path'[k + 1] = [bit |-> Bit(pos2[k]), sib |-> Get(k, Sibling(pos2[k]))]
      <3>1. k # h + 1 /\ k \in 0 .. h + 1 /\ pos2[k] = pos[k]
        BY <1>3
      <3>2. CASE k = h
        BY <1>2, <2>3, <3>1, <3>2
      <3>3. CASE k # h
        <4>1. k \in 0 .. h - 1 /\ k + 1 \in 1 .. h
          BY <1>3, <3>3
        <4> HIDE DEF pos2, entry
        <4> QED BY <2>2, <2>3, <3>1, <4>1
      <3> QED BY <3>2, <3>3
    <2>5. (h + 1) - 1 = h
      BY <1>3
    <2>6. IsList(path')
      BY <2>3 DEF IsList
    <2> HIDE DEF pos2, entry
    <2> QED BY <1>5, <1>a, <2>3, <2>4, <2>5, <2>6 DEF Follows
  <1>8. p[n] = up
    BY <1>3, <1>a
  <1>9. n = h + 1 /\ (Last => n = Depth)
    BY <1>a DEF Last
  <1> HIDE DEF pos2, up, entry
  <1>10. PathOK'
    BY <1>1, <1>6, <1>7, <1>8, <1>9 DEF PathOK
  <1> QED BY <1>1, <1>5, <1>10 DEF Inv, FoldOK

(* A path that is not touched still lists the siblings of the same nodes. *)
LEMMA FollowsKept ==
    ASSUME NEW pos, NEW n, pos \in Positions(n), Follows(pos, n), idx' = idx, path' = path,
           \A k, i : Get(k, i)' = Get(k, i)
    PROVE  pos \in Positions(n)' /\ Follows(pos, n)'
  BY DEF Positions, Follows

LEMMA StartFoldKeeps == ASSUME Inv, NEW digest, StartFold(digest) PROVE Inv'
  <1>1. /\ pc = "walked" /\ pc' = "fold" /\ leaf' = digest /\ value' = digest
        /\ idx' = idx /\ h' = h /\ cur' = cur /\ path' = path
        /\ nodes' = nodes /\ zero' = zero /\ nextIndex' = nextIndex
    BY DEF StartFold
  <1>2. h = 0 /\ cur = 0
    BY <1>1 DEF Inv, PathOK
  <1>3. TypeOK' /\ ZeroOK' /\ NodesHashTheirChildren' /\ \A k, i : Get(k, i)' = Get(k, i)
    BY <1>1, InRange, TreeKept
  <1>4. PICK pos \in Positions(Depth) : Follows(pos, Depth)
    BY <1>1 DEF Inv, PathOK
  <1>5. pos[0] = idx
    BY DEF Positions
  <1>6. pos \in Positions(Depth)' /\ Follows(pos, Depth)'
    BY <1>1, <1>3, <1>4, FollowsKept
  <1>7. Decided(value, h, pos[h], Right)'
    BY <1>1, <1>2, <1>5 DEF Decided, Right
  <1>8. FoldOK'
    BY <1>1, <1>2, <1>6, <1>7 DEF FoldOK
  <1> QED BY <1>1, <1>3, <1>8 DEF Inv, PathOK

(* The fold of one level and the hash of that level agree. *)
LEMMA FoldAgrees ==
    ASSUME Inv, pc = "fold", NEW k \in Levels, NEW i \in 0 .. Width[k] - 1, NEW digest, NEW right,
           Decided(digest, k, i, right)
    PROVE  Decided(Fold(Bit(i), digest, Get(k, Sibling(i))), k + 1, i \div 2, right)
  <1> DEFINE me == Get(k, i)
             sib == Get(k, Sibling(i))
             up == Get(k + 1, i \div 2)
  <1>1. up = Compress(Get(k, 2 * (i \div 2)), Get(k, 2 * (i \div 2) + 1))
    <2>1. i \div 2 \in 0 .. Width[k + 1] - 1
      BY LevelUp
    <2> QED BY <2>1 DEF Inv, NodesHashTheirChildren, Levels
  <1>2. \/ Bit(i) = 1 /\ up = Compress(sib, me)
        \/ Bit(i) # 1 /\ up = Compress(me, sib)
    BY <1>1, LevelUp DEF Bit
  <1> HIDE DEF up, me, sib
  <1>3. Fold(Bit(i), me, sib) = up
    BY <1>2 DEF Fold
  <1>4. CollisionFree => (Fold(Bit(i), digest, sib) = up => digest = me)
    BY <1>2 DEF Fold, CollisionFree
  <1> QED BY <1>3, <1>4 DEF Decided, up, me, sib

LEMMA FoldLevelKeeps == ASSUME Inv, FoldLevel PROVE Inv'
  <1>1. /\ pc = "fold" /\ value' = Fold(path[h + 1].bit, value, path[h + 1].sib)
        /\ idx' = idx /\ cur' = cur /\ path' = path /\ leaf' = leaf
        /\ nodes' = nodes /\ zero' = zero /\ nextIndex' = nextIndex
        /\ Last => pc' = "folded" /\ h' = 0
        /\ ~Last => pc' = "fold" /\ h' = h + 1
    BY DEF FoldLevel
  <1>2. PICK pos \in Positions(Depth) : Follows(pos, Depth) /\ Decided(value, h, pos[h], Right)
    BY <1>1 DEF Inv, FoldOK
  <1>3. /\ h \in Levels /\ h \in Nat /\ pos[h] \in 0 .. Width[h] - 1 /\ pos[h + 1] = pos[h] \div 2
        /\ path[h + 1] = [bit |-> Bit(pos[h]), sib |-> Get(h, Sibling(pos[h]))]
    <2>1. h \in Levels /\ h \in Nat /\ h \in 0 .. Depth
      BY InRange, DepthAssumption DEF Levels
    <2>2. pos[h] \in Nat /\ pos[h] < Width[h] /\ pos[h + 1] = pos[h] \div 2
      BY <2>1 DEF Positions, Levels
    <2>3. Width[h] \in Nat
      BY <2>1, Widths
    <2>4. pos[h] \in 0 .. Width[h] - 1
      BY <2>2, <2>3, SMT
    <2> QED BY <1>2, <2>1, <2>2, <2>4 DEF Follows, Levels
  <1>4. Decided(value', h + 1, pos[h + 1], Right)
    BY <1>1, <1>2, <1>3, FoldAgrees
  <1>5. cur' \in 0 .. Width[h'] - 1 /\ h' \in Levels
    <2>1. cur' = 0
      BY <1>1 DEF Inv, FoldOK
    <2>2. h' \in Levels
      BY <1>1, InRange
    <2>3. h' \in 0 .. Depth
      BY <2>2, DepthAssumption, SMT DEF Levels
    <2>4. Width[h'] \in Nat \ {0}
      BY <2>3, WidthAssumption
    <2> QED BY <2>1, <2>2, <2>4, SMT
  <1>6. TypeOK' /\ ZeroOK' /\ NodesHashTheirChildren' /\ \A k, i : Get(k, i)' = Get(k, i)
    BY <1>1, <1>5, InRange, TreeKept
  <1>7. pos \in Positions(Depth)' /\ Follows(pos, Depth)'
    BY <1>1, <1>2, <1>6, FollowsKept
  <1>8. Right' = Right
    BY <1>1, <1>6 DEF Right
  <1>9. FoldOK'
    <2>1. cur' = 0
      BY <1>1 DEF Inv, FoldOK
    <2>2. CASE Last
      BY <1>1, <1>4, <1>6, <1>7, <1>8, <2>1, <2>2 DEF FoldOK, Decided, Last
    <2>3. CASE ~Last
      BY <1>1, <1>4, <1>6, <1>7, <1>8, <2>1, <2>3 DEF FoldOK, Decided
    <2> QED BY <2>2, <2>3
  <1> QED BY <1>1, <1>6, <1>9 DEF Inv, PathOK

LEMMA ReturnKeeps == ASSUME Inv, Return PROVE Inv'
  <1>1. /\ pc = "folded" /\ pc' = "idle" /\ idx' = 0 /\ path' = <<>> /\ h' = h /\ cur' = cur
        /\ nodes' = nodes /\ zero' = zero /\ nextIndex' = nextIndex
    BY DEF Return
  <1>2. h = 0
    BY <1>1 DEF Inv, FoldOK
  <1>3. TypeOK' /\ ZeroOK' /\ NodesHashTheirChildren'
    BY <1>1, InRange, TreeKept
  <1> QED BY <1>1, <1>2, <1>3 DEF Inv, PathOK, FoldOK

LEMMA InvNext == Inv /\ [Next]_vars => Inv'
  <1> SUFFICES ASSUME Inv, [Next]_vars PROVE Inv'
    OBVIOUS
  <1>1. ASSUME BuildZero PROVE Inv'
    BY <1>1, BuildKeeps
  <1>2. ASSUME NEW digest \in Leaves, AppendLeaf(digest) PROVE Inv'
    <2>1. pc = "idle" /\ nextIndex < Width[0] /\ nextIndex' = nextIndex + 1
          /\ SetLeaf(nextIndex, digest)
      BY <1>2 DEF AppendLeaf
    <2>2. nextIndex \in 0 .. Width[0] /\ Width[0] \in Nat
      BY WidthAssumption, DepthAssumption DEF Inv, TypeOK
    <2>3. nextIndex \in Slots /\ nextIndex' \in 0 .. Width[0]
      BY <2>1, <2>2, SMT DEF Slots
    <2> QED BY <2>1, <2>3, SetLeafKeeps
  <1>3. ASSUME NEW slot \in Slots, Revoke(slot) PROVE Inv'
    <2>1. pc = "idle" /\ nextIndex' = nextIndex /\ SetLeaf(slot, EmptyLeaf)
      BY <1>3 DEF Revoke
    <2>2. nextIndex' \in 0 .. Width[0]
      BY <2>1 DEF Inv, TypeOK
    <2> QED BY <2>1, <2>2, SetLeafKeeps
  <1>4. ASSUME Climb PROVE Inv'
    BY <1>4, ClimbKeeps
  <1>5. ASSUME NEW slot \in Slots, StartPath(slot) PROVE Inv'
    BY <1>5, StartPathKeeps
  <1>6. ASSUME Walk PROVE Inv'
    BY <1>6, WalkKeeps
  <1>7. ASSUME NEW digest \in Leaves \cup {EmptyLeaf}, StartFold(digest) PROVE Inv'
    BY <1>7, StartFoldKeeps
  <1>8. ASSUME FoldLevel PROVE Inv'
    BY <1>8, FoldLevelKeeps
  <1>9. ASSUME Return PROVE Inv'
    BY <1>9, ReturnKeeps
  <1>10. CASE UNCHANGED vars
    <2> USE <1>10 DEF vars
    <2>1. \A k, i : Get(k, i)' = Get(k, i)
      BY DEF Get
    <2>2. TypeOK' /\ ZeroOK'
      BY DEF Inv, TypeOK, ZeroOK
    <2>3. NodesHashTheirChildren'
      BY <2>1 DEF Inv, NodesHashTheirChildren
    <2>4. \A pos, n : pos \in Positions(n) /\ Follows(pos, n) =>
              pos \in Positions(n)' /\ Follows(pos, n)'
      BY <2>1, FollowsKept
    <2>5. PathOK'
      BY <2>4 DEF Inv, PathOK
    <2>6. Right' = Right
      BY <2>1 DEF Right
    <2>7. FoldOK'
      BY <2>1, <2>4, <2>6 DEF Inv, FoldOK, Decided
    <2> QED BY <2>2, <2>3, <2>5, <2>7 DEF Inv
  <1> QED BY <1>1, <1>2, <1>3, <1>4, <1>5, <1>6, <1>7, <1>8, <1>9, <1>10 DEF Next

THEOREM Invariance == Spec => []Inv
  BY InvInit, InvNext, PTL DEF Spec

(* The loop variables stay within the tree, for every depth. *)
THEOREM TypeCorrect == Spec => []TypeOK
  <1>1. Inv => TypeOK
    BY DEF Inv
  <1> QED BY <1>1, Invariance, PTL

(* set_leaf leaves every node the hash of its children, for every depth and every hash,
   after any sequence of appends and revocations. *)
THEOREM TreeIsHashed == Spec => []NodesHashTheirChildren
  <1>1. Inv => NodesHashTheirChildren
    BY DEF Inv
  <1> QED BY <1>1, Invariance, PTL

(* The circuit's answer at the top is decided by the leaf it started from. *)
LEMMA Verdict == Inv /\ pc = "folded" => Decided(value, Depth, 0, Right)
  <1> SUFFICES ASSUME Inv, pc = "folded" PROVE Decided(value, Depth, 0, Right)
    OBVIOUS
  <1>1. PICK pos \in Positions(Depth) : Decided(value, Depth, pos[Depth], Right)
    BY DEF Inv, FoldOK
  <1>2. pos[Depth] \in Nat /\ pos[Depth] < Width[Depth] /\ Width[Depth] = 1
    BY DepthAssumption, WidthAssumption DEF Positions
  <1>3. pos[Depth] = 0
    BY <1>2
  <1> QED BY <1>1, <1>3

(* A holder whose leaf is in the slot reaches the root along path(), whatever the hash. *)
THEOREM HonestFold == Spec => [](pc = "folded" /\ leaf = Get(0, idx) => value = Root)
  <1>1. Inv => (pc = "folded" /\ leaf = Get(0, idx) => value = Root)
    BY Verdict DEF Decided, Right, Root
  <1> QED BY <1>1, Invariance, PTL

(* If the hash has no collisions, the circuit reaches the root of the tree along path()
   from the leaf in that slot and from no other, for every depth and every tree. *)
THEOREM MembershipDecided ==
    ASSUME CollisionFree
    PROVE  Spec => []FoldDecidesMembership
  <1>1. Inv => FoldDecidesMembership
    BY Verdict DEF Decided, Right, Root, FoldDecidesMembership
  <1> QED BY <1>1, Invariance, PTL

-----------------------------------------------------------------------------
(* What a root commits to.  Induction over the levels is by a least counterexample. *)

(* A set of naturals has a least element. *)
LEMMA Least ==
    ASSUME NEW T, T \subseteq Nat, T # {}
    PROVE  \E x \in T : \A y \in T : ~(y < x)
  <1> DEFINE R == OpToRel(<, Nat)
  <1>1. IsWellFoundedOn(R, Nat)
    BY NatLessThanWellFounded
  <1>2. PICK x \in T : \A y \in T : <<y, x>> \notin R
    <2> HIDE DEF R
    <2> QED BY <1>1, WFMin
  <1>3. \A y \in Nat, z \in Nat : y < z => <<y, z>> \in R
    BY DEF OpToRel
  <1> QED BY <1>2, <1>3

(* What holds of 0 and goes from a level to the next holds of every level. *)
LEMMA Upwards ==
    ASSUME NEW S, NEW d \in Nat, S \subseteq 0 .. d, 0 \in S,
           \A n \in 0 .. d - 1 : n \in S => n + 1 \in S
    PROVE  S = 0 .. d
  <1> SUFFICES ASSUME (0 .. d) \ S # {} PROVE FALSE
    OBVIOUS
  <1> DEFINE T == (0 .. d) \ S
  <1>1. T \subseteq Nat /\ T # {}
    BY SMT
  <1>2. PICK x \in T : \A y \in T : ~(y < x)
    <2> HIDE DEF T
    <2> QED BY <1>1, Least
  <1>3. x # 0 /\ x \in 0 .. d
    BY <1>2
  <1>4. x - 1 \in 0 .. d - 1 /\ x - 1 < x /\ (x - 1) + 1 = x /\ x - 1 \in 0 .. d
    BY <1>3, SMT
  <1>5. x - 1 \in S
    BY <1>2, <1>4
  <1> QED BY <1>2, <1>4, <1>5

(* Halving twice the width of a block. *)
LEMMA HalfDiv ==
    ASSUME NEW i \in Nat, NEW w \in Nat \ {0}
    PROVE  /\ i \div (2 * w) = (i \div w) \div 2
           /\ i \div w \in Nat
  BY SMT

-----------------------------------------------------------------------------
FreeHash == \A l, r : Compress(l, r) = Pair(l, r)

(* A table of the nodes of a tree: each is the hash of its two children. *)
Hashed(N) ==
    \A k \in Levels : \A q \in 0 .. Width[k + 1] - 1 :
        N[k + 1][q] = Compress(N[k][2 * q], N[k][2 * q + 1])

(* The node of each level above leaf i lies in its level, and halves from one level to
   the next. *)
LEMMA Above ==
    ASSUME NEW i \in Slots, NEW n \in 0 .. Depth
    PROVE  i \div Width[n] \in 0 .. Width[Depth - n] - 1
  <1> DEFINE S == {k \in 0 .. Depth : i \div Width[k] \in 0 .. Width[Depth - k] - 1}
  <1>1. 0 \in S
    <2>1. Width[0] \in Nat \ {0} /\ Width[Depth - 0] = 1 /\ 0 \in 0 .. Depth
      BY DepthAssumption, WidthAssumption
    <2>2. i \div Width[0] = 0
      <3> DEFINE w == Width[0]
      <3>1. i \in 0 .. w - 1 /\ w \in Nat
        BY <2>1 DEF Slots
      <3> HIDE DEF w
      <3>2. i \div w = 0
        BY <3>1, SMT
      <3> QED BY <3>2 DEF w
    <2> QED BY <2>1, <2>2
  <1>2. ASSUME NEW k \in 0 .. Depth - 1, k \in S
        PROVE  k + 1 \in S
    <2> DEFINE j == Depth - (k + 1)
               w == Width[k + 1]
               W == Width[j]
               q == i \div w
    <2>1. k + 1 \in 0 .. Depth /\ j \in 0 .. Depth - 1 /\ j + 1 = Depth - k
      BY DepthAssumption, SMT
    <2>2. w \in Nat \ {0} /\ Width[k] = 2 * w /\ W = 2 * Width[j + 1] /\ Width[j + 1] \in Nat
      BY <2>1, WidthAssumption, DepthAssumption
    <2>3. i \in Nat
      BY DEF Slots
    <2>4. q \in Nat /\ i \div Width[k] = q \div 2
      <3> HIDE DEF w
      <3> QED BY <2>2, <2>3, HalfDiv
    <2>5. q \div 2 \in 0 .. Width[j + 1] - 1
      BY <1>2, <2>1, <2>4
    <2>6. q \in 0 .. W - 1
      <3> DEFINE V == Width[j + 1]
      <3> HIDE DEF q, W, V
      <3>1. V \in Nat /\ W = 2 * V /\ q \div 2 \in 0 .. V - 1
        BY <2>2, <2>5 DEF V
      <3> QED BY <2>4, <3>1, SMT
    <2> QED BY <2>1, <2>6
  <1> HIDE DEF S
  <1>3. S = 0 .. Depth
    <2>1. S \subseteq 0 .. Depth
      BY DEF S
    <2> QED BY <1>1, <1>2, <2>1, DepthAssumption, Upwards
  <1> QED BY <1>3 DEF S

(* Going down from the root of such a table one meets its nodes, and the leaf at last. *)
LEMMA Opens ==
    ASSUME FreeHash, NEW N, Hashed(N), NEW i \in Slots
    PROVE  LeafBelow(N[Depth][0], i) = N[0][i]
  <1> DEFINE At(n) == N[Depth - n][i \div Width[n]]
             Walks(f) == f = [n \in 0 .. Depth |->
                                 IF n = 0 THEN N[Depth][0]
                                 ELSE f[n - 1][Bit(i \div Width[n]) + 1]]
             down == [n \in 0 .. Depth |-> At(n)]
  <1>1. At(0) = N[Depth][0] /\ At(Depth) = N[0][i]
    <2>1. Depth - 0 = Depth /\ Depth - Depth = 0 /\ 0 \in 0 .. Depth
      BY DepthAssumption, SMT
    <2>2. Width[Depth] = 1 /\ Width[Depth - 0] = 1
      BY <2>1, WidthAssumption
    <2>3. i \div 1 = i
      BY SMT DEF Slots
    <2>4. i \div Width[0] \in 0 .. 0
      BY <2>1, <2>2, Above
    <2> QED BY <2>1, <2>2, <2>3, <2>4
  <1>2. ASSUME NEW n \in 1 .. Depth
        PROVE  At(n) = At(n - 1)[Bit(i \div Width[n]) + 1]
    <2> DEFINE k == Depth - n
               q == i \div Width[n]
               p == i \div Width[n - 1]
    <2>1. /\ k \in Levels /\ k + 1 = Depth - (n - 1) /\ n - 1 \in 0 .. Depth
          /\ n - 1 \in 0 .. Depth - 1 /\ (n - 1) + 1 = n /\ n \in 0 .. Depth
      BY DepthAssumption, SMT DEF Levels
    <2>2. Width[n] \in Nat \ {0} /\ Width[n - 1] = 2 * Width[n]
      BY <2>1, WidthAssumption
    <2>3. i \in Nat
      BY DEF Slots
    <2>4. q \in Nat /\ p = q \div 2
      BY <2>2, <2>3, HalfDiv
    <2>5. p \in 0 .. Width[k + 1] - 1
      BY <2>1, Above
    <2>6. N[k + 1][p] = <<N[k][2 * p], N[k][2 * p + 1]>>
      BY <2>1, <2>5 DEF Hashed, FreeHash, Pair
    <2>7. \/ Bit(q) = 0 /\ q = 2 * p
          \/ Bit(q) = 1 /\ q = 2 * p + 1
      <3> HIDE DEF p, q
      <3> QED BY <2>4, SMT DEF Bit
    <2>8. N[k + 1][p][Bit(q) + 1] = N[k][q]
      <3> HIDE DEF k, p, q
      <3>1. CASE Bit(q) = 0 /\ q = 2 * p
        BY <2>6, <3>1
      <3>2. CASE Bit(q) = 1 /\ q = 2 * p + 1
        BY <2>6, <3>2
      <3> QED BY <2>7, <3>1, <3>2
    <2> QED BY <2>1, <2>8
  <1>3. Walks(down)
    <2>1. ASSUME NEW n \in 0 .. Depth
          PROVE  At(n) = IF n = 0 THEN N[Depth][0] ELSE down[n - 1][Bit(i \div Width[n]) + 1]
      <3>1. CASE n = 0
        BY <1>1, <3>1
      <3>2. CASE n # 0
        <4>1. n \in 1 .. Depth /\ n - 1 \in 0 .. Depth
          BY <3>2, DepthAssumption, SMT
        <4>2. down[n - 1] = At(n - 1)
          BY <4>1
        <4> HIDE DEF At, down
        <4> QED BY <1>2, <3>2, <4>1, <4>2
      <3> QED BY <3>1, <3>2
    <2> HIDE DEF At
    <2> QED BY <2>1
  <1> DEFINE walk == CHOOSE f : Walks(f)
  <1>4. Walks(walk)
    <2> HIDE DEF Walks, down
    <2> QED BY <1>3
  <1>5. LeafBelow(N[Depth][0], i) = walk[Depth]
    BY DEF LeafBelow
  <1> DEFINE S == {n \in 0 .. Depth : walk[n] = At(n)}
  <1>6. 0 \in S
    <2>1. 0 \in 0 .. Depth
      BY DepthAssumption, SMT
    <2>2. walk[0] = N[Depth][0]
      <3> HIDE DEF walk
      <3> QED BY <1>4, <2>1
    <2> QED BY <1>1, <2>1, <2>2
  <1>7. ASSUME NEW n \in 0 .. Depth - 1, n \in S
        PROVE  n + 1 \in S
    <2>1. n + 1 \in 1 .. Depth /\ n + 1 \in 0 .. Depth /\ n + 1 # 0 /\ (n + 1) - 1 = n
      BY DepthAssumption, SMT
    <2>2. walk[n + 1] = walk[(n + 1) - 1][Bit(i \div Width[n + 1]) + 1]
      <3> HIDE DEF walk, At
      <3> QED BY <1>4, <2>1
    <2> HIDE DEF walk, At
    <2> QED BY <1>2, <1>7, <2>1, <2>2
  <1>8. S = 0 .. Depth
    <2> HIDE DEF walk, At
    <2>1. S \subseteq 0 .. Depth
      OBVIOUS
    <2> HIDE DEF S
    <2> QED BY <1>6, <1>7, <2>1, DepthAssumption, Upwards
  <1>9. walk[Depth] = At(Depth)
    <2>1. Depth \in 0 .. Depth
      BY DepthAssumption, SMT
    <2> HIDE DEF walk, At
    <2> QED BY <1>8, <2>1
  <1> QED BY <1>1, <1>5, <1>9

(* What a root commits to, when every stored node is the hash of its children. *)
LEMMA OpensAll ==
    ASSUME FreeHash, NEW N, Hashed(N)
    PROVE  Opened(N[Depth][0]) = [i \in Slots |-> N[0][i]]
  BY Opens DEF Opened

LEMMA OpensTree ==
    ASSUME FreeHash, NodesHashTheirChildren, pc \notin {"build", "set"}
    PROVE  Opened(Root) = [i \in Slots |-> Get(0, i)]
  <1> DEFINE N == [k \in 0 .. Depth |-> [q \in Nat |-> Get(k, q)]]
  <1>1. Hashed(N)
    <2> SUFFICES ASSUME NEW k \in Levels, NEW q \in 0 .. Width[k + 1] - 1
                 PROVE  N[k + 1][q] = Compress(N[k][2 * q], N[k][2 * q + 1])
      BY DEF Hashed
    <2>1. k + 1 \in 0 .. Depth /\ k \in 0 .. Depth /\ q \in Nat /\ 2 * q \in Nat /\ 2 * q + 1 \in Nat
      BY DepthAssumption, SMT DEF Levels
    <2> QED BY <2>1 DEF NodesHashTheirChildren, Levels
  <1>2. N[Depth][0] = Root /\ \A i \in Slots : N[0][i] = Get(0, i)
    <2>1. Depth \in 0 .. Depth /\ 0 \in 0 .. Depth /\ 0 \in Nat /\ \A i \in Slots : i \in Nat
      BY DepthAssumption, SMT DEF Slots
    <2> QED BY <2>1 DEF Root
  <1> HIDE DEF N
  <1> QED BY <1>1, <1>2, OpensAll

(* The same after a step. *)
LEMMA OpensTreeAfter ==
    ASSUME FreeHash, NodesHashTheirChildren', pc' \notin {"build", "set"}
    PROVE  Opened(Root') = [i \in Slots |-> Get(0, i)']
  <1> DEFINE N == [k \in 0 .. Depth |-> [q \in Nat |-> Get(k, q)']]
  <1>1. Hashed(N)
    <2> SUFFICES ASSUME NEW k \in Levels, NEW q \in 0 .. Width[k + 1] - 1
                 PROVE  N[k + 1][q] = Compress(N[k][2 * q], N[k][2 * q + 1])
      BY DEF Hashed
    <2>1. k + 1 \in 0 .. Depth /\ k \in 0 .. Depth /\ q \in Nat /\ 2 * q \in Nat /\ 2 * q + 1 \in Nat
      BY DepthAssumption, SMT DEF Levels
    <2> QED BY <2>1 DEF NodesHashTheirChildren, Levels
  <1>2. N[Depth][0] = Root' /\ \A i \in Slots : N[0][i] = Get(0, i)'
    <2>1. Depth \in 0 .. Depth /\ 0 \in 0 .. Depth /\ 0 \in Nat /\ \A i \in Slots : i \in Nat
      BY DepthAssumption, SMT DEF Slots
    <2> QED BY <2>1 DEF Root
  <1> HIDE DEF N
  <1> QED BY <1>1, <1>2, OpensAll

(* While set_leaf climbs, the root still commits to the leaves from before; a slot is
   being filled for the first time or emptied. *)
Pending ==
    /\ zero[1] = EmptyLeaf
    /\ pc = "build" => nextIndex = 0
    /\ pc = "set" => /\ \A i \in Slots \ {idx} : Opened(Root)[i] = Get(0, i)
                     /\ <<0, idx>> \in DOMAIN nodes
                     /\ nodes[<<0, idx>>] \in Leaves \cup {EmptyLeaf}
                     /\ idx < nextIndex
                     /\ nodes[<<0, idx>>] # EmptyLeaf => idx + 1 = nextIndex

Abstract == <<Committed, Handed>>
Promise == [Promised!Next]_Abstract

LEMMA Primes == Opened(Root)' = Opened(Root')
  BY DEF Opened, LeafBelow, Bit

LEMMA PendingInit == Init => Pending /\ Promised!Init
  <1> SUFFICES ASSUME Init PROVE Pending /\ Promised!Init
    OBVIOUS
  <1>1. zero[1] = EmptyLeaf /\ pc = "build" /\ nextIndex = 0
    BY DEF Init
  <1> QED BY <1>1 DEF Pending, Promised!Init, Committed, Handed, Slots

(* Every step that leaves slots, root and counter alone promises nothing. *)
LEMMA Quiet ==
    ASSUME Pending, nodes' = nodes, zero' = zero, nextIndex' = nextIndex,
           pc \notin {"build", "set"}, pc' \notin {"build", "set"}
    PROVE  Pending' /\ Promise
  <1>1. Root' = Root
    BY DEF Root, Get
  <1>2. Committed' = Committed
    BY <1>1, Primes DEF Committed
  <1>3. Handed' = Handed
    BY DEF Handed
  <1> QED BY <1>2, <1>3 DEF Pending, Promise, Abstract

LEMMA BuildPromise == ASSUME FreeHash, Inv, Pending, BuildZero PROVE Pending' /\ Promise
  <1> DEFINE empty == Compress(zero[h + 1], zero[h + 1])
  <1>1. /\ pc = "build" /\ zero' = Append(zero, empty) /\ DOMAIN nodes = {} /\ nodes' = nodes
        /\ nextIndex' = nextIndex /\ nextIndex = 0 /\ pc' \in {"build", "idle"}
    BY DEF BuildZero, Inv, ZeroOK, Pending
  <1>2. PICK S : zero \in Seq(S)
    BY DEF Inv, ZeroOK, IsList
  <1>3. Len(zero) = h + 1 /\ h \in Nat
    <2>1. Len(zero) = h + 1
      BY <1>1 DEF Inv, ZeroOK
    <2> QED BY <2>1, InRange
  <1>4. zero'[1] = EmptyLeaf
    <2>1. zero \in Seq(S \cup {empty}) /\ zero[1] = EmptyLeaf
      BY <1>2 DEF Pending
    <2> HIDE DEF empty
    <2> QED BY <1>1, <1>3, <2>1
  <1>5. Pending'
    BY <1>1, <1>4 DEF Pending
  <1>6. Committed' = Committed
    <2>1. CASE pc' = "build"
      BY <1>1, <2>1 DEF Committed
    <2>2. CASE pc' = "idle"
      <3>1. NodesHashTheirChildren'
        BY BuildKeeps DEF Inv
      <3>2. \A i \in Slots : Get(0, i)' = EmptyLeaf
        BY <1>1, <1>4 DEF Get
      <3>3. Opened(Root') = [i \in Slots |-> EmptyLeaf]
        BY <2>2, <3>1, <3>2, OpensTreeAfter
      <3> QED BY <1>1, <2>2, <3>3, Primes DEF Committed
    <2> QED BY <1>1, <2>1, <2>2
  <1>7. Handed' = Handed
    BY <1>1 DEF Handed
  <1> QED BY <1>5, <1>6, <1>7 DEF Promise, Abstract

(* set_leaf begins below the root: nothing is committed to yet. *)
LEMMA SetLeafPromise ==
    ASSUME FreeHash, Inv, Pending, pc = "idle", NEW slot \in Slots,
           NEW digest \in Leaves \cup {EmptyLeaf}, SetLeaf(slot, digest), slot < nextIndex',
           digest # EmptyLeaf => slot + 1 = nextIndex' /\ nextIndex' = nextIndex + 1,
           digest = EmptyLeaf => nextIndex' = nextIndex
    PROVE  Pending' /\ Promise
  <1>1. /\ nodes' = Written(<<0, slot>>, digest) /\ zero' = zero
        /\ pc' = "set" /\ idx' = slot
    BY DEF SetLeaf
  <1>2. /\ \A k, i : Get(k, i)' = IF k = 0 /\ i = slot THEN digest ELSE Get(k, i)
        /\ DOMAIN nodes' = DOMAIN nodes \cup {<<0, slot>>}
    BY <1>1, GetAfter
  <1>3. Root' = Root
    <2>1. Depth # 0
      BY DepthAssumption
    <2> QED BY <1>2, <2>1 DEF Root
  <1>4. nodes'[<<0, slot>>] = digest
    BY <1>1 DEF Written
  <1>5. Opened(Root) = [i \in Slots |-> Get(0, i)]
    BY OpensTree DEF Inv
  <1>6. \A i \in Slots \ {slot} : Opened(Root)'[i] = Get(0, i)'
    BY <1>2, <1>3, <1>5, Primes
  <1>7. Pending'
    BY <1>1, <1>2, <1>4, <1>6 DEF Pending
  <1>8. Committed' = Committed
    BY <1>1, <1>3, Primes DEF Committed
  <1>9. Handed' = Handed
    <2>1. nextIndex \in Nat
      BY WidthAssumption, DepthAssumption DEF Inv, TypeOK
    <2> QED BY <1>1, <1>4, <2>1 DEF Handed
  <1> QED BY <1>7, <1>8, <1>9 DEF Promise, Abstract

(* The last level of set_leaf replaces the root, and with it one leaf. *)
LEMMA ClimbPromise ==
    ASSUME FreeHash, Inv, Pending, Climb
    PROVE  Pending' /\ Promise
  <1> DEFINE up == cur \div 2
             digest == Parent(cur, nodes[<<h, cur>>], Get(h, Sibling(cur)))
  <1>1. /\ pc = "set" /\ nodes' = Written(<<h + 1, up>>, digest) /\ zero' = zero
        /\ nextIndex' = nextIndex
        /\ Last => pc' = "idle"
        /\ ~Last => pc' = "set" /\ idx' = idx
    BY DEF Climb
  <1>2. /\ \A k, i : Get(k, i)' = IF k = h + 1 /\ i = up THEN digest ELSE Get(k, i)
        /\ DOMAIN nodes' = DOMAIN nodes \cup {<<h + 1, up>>}
    <2> HIDE DEF up, digest
    <2> QED BY <1>1, GetAfter
  <1>3. h + 1 # 0
    BY InRange, SMT DEF Levels
  <1>4. \A i : Get(0, i)' = Get(0, i)
    BY <1>2, <1>3
  <1> HIDE DEF up, digest
  <1>5. /\ \A i \in Slots \ {idx} : Opened(Root)[i] = Get(0, i)
        /\ <<0, idx>> \in DOMAIN nodes
        /\ nodes[<<0, idx>>] \in Leaves \cup {EmptyLeaf}
        /\ idx < nextIndex
        /\ nodes[<<0, idx>>] # EmptyLeaf => idx + 1 = nextIndex
    BY <1>1 DEF Pending
  <1>6. CASE ~Last
    <2>1. Root' = Root
      <3>1. Depth # h + 1
        BY <1>6 DEF Last
      <3> QED BY <1>2, <3>1 DEF Root
    <2>2. nodes'[<<0, idx>>] = nodes[<<0, idx>>] /\ <<0, idx>> \in DOMAIN nodes'
      BY <1>1, <1>2, <1>3, <1>5 DEF Written
    <2>3. Pending'
      BY <1>1, <1>4, <1>5, <1>6, <2>1, <2>2, Primes DEF Pending
    <2>4. Committed' = Committed
      BY <1>1, <1>6, <2>1, Primes DEF Committed
    <2>5. Handed' = Handed
      BY <1>1, <1>6, <2>2 DEF Handed
    <2> QED BY <2>3, <2>4, <2>5 DEF Promise, Abstract
  <1>7. CASE Last
    <2> DEFINE leaf0 == nodes[<<0, idx>>]
    <2>1. Pending'
      BY <1>1, <1>7 DEF Pending
    <2>2. NodesHashTheirChildren'
      BY ClimbKeeps DEF Inv
    <2>3. Opened(Root') = [i \in Slots |-> Get(0, i)]
      BY <1>1, <1>4, <1>7, <2>2, OpensTreeAfter
    <2>4. Get(0, idx) = leaf0 /\ idx \in Slots
      BY <1>5, InRange DEF Get
    <2>5. Committed = Opened(Root) /\ Committed' = Opened(Root')
      BY <1>1, <1>7, Primes DEF Committed
    <2>6. Committed' = [Committed EXCEPT ![idx] = leaf0]
      <3>1. DOMAIN Opened(Root) = Slots /\ Opened(Root) = [i \in Slots |-> Opened(Root)[i]]
        BY DEF Opened
      <3> QED BY <1>5, <2>3, <2>4, <2>5, <3>1
    <2>7. Handed' = nextIndex /\ Handed = IF leaf0 # EmptyLeaf THEN nextIndex - 1 ELSE nextIndex
      BY <1>1, <1>7 DEF Handed
    <2>8. idx \in Nat /\ nextIndex \in Nat /\ nextIndex <= Width[0] /\ Width[0] \in Nat
      BY <2>4, WidthAssumption, DepthAssumption DEF Inv, TypeOK, Slots
    <2>9. CASE leaf0 = EmptyLeaf
      <3>1. idx \in 0 .. Handed - 1 /\ Handed' = Handed
        BY <1>5, <2>7, <2>8, <2>9
      <3>2. Promised!Revoke(idx)
        BY <2>6, <2>9, <3>1 DEF Promised!Revoke
      <3> QED BY <2>1, <3>1, <3>2 DEF Promise, Promised!Next
    <2>10. CASE leaf0 # EmptyLeaf
      <3>1. Handed = idx /\ Handed' = Handed + 1 /\ Handed < Width[0] /\ leaf0 \in Leaves
        BY <1>5, <2>7, <2>8, <2>10
      <3>2. Promised!Append(leaf0)
        BY <2>6, <3>1 DEF Promised!Append
      <3> QED BY <2>1, <3>1, <3>2 DEF Promise, Promised!Next
    <2> QED BY <2>9, <2>10
  <1> QED BY <1>6, <1>7

LEMMA PendingNext ==
    ASSUME FreeHash, EmptyLeaf \notin Leaves, Inv, Pending, [Next]_vars
    PROVE  Pending' /\ Promise
  <1>1. ASSUME BuildZero PROVE Pending' /\ Promise
    BY <1>1, BuildPromise
  <1>2. ASSUME NEW digest \in Leaves, AppendLeaf(digest) PROVE Pending' /\ Promise
    <2>1. pc = "idle" /\ nextIndex < Width[0] /\ nextIndex' = nextIndex + 1
          /\ SetLeaf(nextIndex, digest)
      BY <1>2 DEF AppendLeaf
    <2>2. nextIndex \in 0 .. Width[0] /\ Width[0] \in Nat
      BY WidthAssumption, DepthAssumption DEF Inv, TypeOK
    <2>3. nextIndex \in Slots /\ nextIndex < nextIndex'
      BY <2>1, <2>2, SMT DEF Slots
    <2>4. digest # EmptyLeaf
      OBVIOUS
    <2> QED BY <2>1, <2>3, <2>4, SetLeafPromise
  <1>3. ASSUME NEW slot \in Slots, Revoke(slot) PROVE Pending' /\ Promise
    <2>1. pc = "idle" /\ nextIndex' = nextIndex /\ SetLeaf(slot, EmptyLeaf) /\ slot < nextIndex'
      BY <1>3 DEF Revoke
    <2> QED BY <2>1, SetLeafPromise
  <1>4. ASSUME Climb PROVE Pending' /\ Promise
    BY <1>4, ClimbPromise
  <1>5. ASSUME NEW slot \in Slots, StartPath(slot) PROVE Pending' /\ Promise
    BY <1>5, Quiet DEF StartPath
  <1>6. ASSUME Walk PROVE Pending' /\ Promise
    BY <1>6, Quiet DEF Walk
  <1>7. ASSUME NEW digest \in Leaves \cup {EmptyLeaf}, StartFold(digest) PROVE Pending' /\ Promise
    BY <1>7, Quiet DEF StartFold
  <1>8. ASSUME FoldLevel PROVE Pending' /\ Promise
    BY <1>8, Quiet DEF FoldLevel
  <1>9. ASSUME Return PROVE Pending' /\ Promise
    BY <1>9, Quiet DEF Return
  <1>10. CASE UNCHANGED vars
    <2> USE <1>10 DEF vars
    <2>1. Root' = Root /\ \A k, i : Get(k, i)' = Get(k, i)
      BY DEF Root, Get
    <2>2. Committed' = Committed /\ Handed' = Handed
      BY <2>1, Primes DEF Committed, Handed
    <2>3. Pending'
      BY <2>1, Primes DEF Pending
    <2> QED BY <2>2, <2>3 DEF Promise, Abstract
  <1> QED BY <1>1, <1>2, <1>3, <1>4, <1>5, <1>6, <1>7, <1>8, <1>9, <1>10 DEF Next

(* The whole tree, constructor, append, revoke, set_leaf and path with their loops, is an
   accumulator: for every depth and any sequence of calls its root commits to exactly the
   leaves appended and not revoked, and changes only at the last level of a set_leaf.  A
   root is opened, so the hash is free; and an appended leaf is not EMPTY_LEAF. *)
THEOREM TreeImplementsTheAccumulator ==
    ASSUME FreeHash, EmptyLeaf \notin Leaves
    PROVE  Spec => ImplementsAccumulator
  <1>1. Init => Inv /\ Pending /\ Promised!Init
    BY InvInit, PendingInit
  <1>2. Inv /\ Pending /\ [Next]_vars => Inv' /\ Pending' /\ Promise
    BY InvNext, PendingNext
  <1> QED BY <1>1, <1>2, PTL DEF Spec, ImplementsAccumulator, Promised!Spec, Promise, Abstract

-----------------------------------------------------------------------------
(* The digests that the circuit has held, from its leaf up to level n. *)
Climbed(trail, pos, n) ==
    /\ trail[0] = leaf
    /\ \A k \in 0 .. n - 1 : trail[k + 1] = Fold(Bit(pos[k]), trail[k], Get(k, Sibling(pos[k])))
    /\ value = trail[n]

TrailOK ==
    pc \in {"fold", "folded"} =>
        \E pos \in Positions(Depth) : \E trail :
            /\ Follows(pos, Depth)
            /\ Climbed(trail, pos, IF pc = "fold" THEN h ELSE Depth)

(* A path and a climb that are not touched. *)
LEMMA ClimbedKept ==
    ASSUME NEW trail, NEW pos, NEW n, Climbed(trail, pos, n), leaf' = leaf, value' = value,
           \A k, i : Get(k, i)' = Get(k, i)
    PROVE  Climbed(trail, pos, n)'
  BY DEF Climbed

LEMMA TrailFoldLevel == ASSUME Inv, TrailOK, FoldLevel PROVE TrailOK'
  <1>1. /\ pc = "fold" /\ value' = Fold(path[h + 1].bit, value, path[h + 1].sib)
        /\ idx' = idx /\ path' = path /\ leaf' = leaf
        /\ nodes' = nodes /\ zero' = zero
        /\ Last => pc' = "folded"
        /\ ~Last => pc' = "fold" /\ h' = h + 1
    BY DEF FoldLevel
  <1>2. PICK pos \in Positions(Depth) : \E trail : Follows(pos, Depth) /\ Climbed(trail, pos, h)
    BY <1>1 DEF TrailOK
  <1>3. PICK trail : Follows(pos, Depth) /\ Climbed(trail, pos, h)
    BY <1>2
  <1>4. h \in Nat /\ h \in 0 .. Depth - 1
    BY InRange DEF Levels
  <1>5. value' = Fold(Bit(pos[h]), trail[h], Get(h, Sibling(pos[h])))
    <2>1. path[h + 1] = [bit |-> Bit(pos[h]), sib |-> Get(h, Sibling(pos[h]))]
      BY <1>3, <1>4 DEF Follows
    <2>2. value = trail[h]
      BY <1>3 DEF Climbed
    <2> QED BY <1>1, <2>1, <2>2
  <1>6. \A k, i : Get(k, i)' = Get(k, i)
    BY <1>1 DEF Get
  <1> DEFINE longer == [k \in 0 .. h + 1 |-> IF k = h + 1 THEN value' ELSE trail[k]]
  <1>a. PICK n, t : n = h + 1 /\ t = longer
    OBVIOUS
  <1>7. Climbed(t, pos, n)'
    <2>1. longer[0] = leaf /\ longer[h + 1] = value'
      BY <1>3, <1>4 DEF Climbed
    <2>2. ASSUME NEW k \in 0 .. h
          PROVE  longer[k + 1] = Fold(Bit(pos[k]), longer[k], Get(k, Sibling(pos[k])))
      <3>1. k # h + 1 /\ k \in 0 .. h + 1 /\ longer[k] = trail[k]
        BY <1>4
      <3>2. CASE k = h
        BY <1>5, <2>1, <3>1, <3>2
      <3>3. CASE k # h
        <4>1. k \in 0 .. h - 1 /\ k + 1 \in 0 .. h + 1 /\ k + 1 # h + 1
          BY <1>4, <3>3
        <4>2. longer[k + 1] = trail[k + 1]
          BY <4>1
        <4> HIDE DEF longer
        <4> QED BY <1>3, <3>1, <4>1, <4>2 DEF Climbed
      <3> QED BY <3>2, <3>3
    <2>3. (h + 1) - 1 = h
      BY <1>4
    <2> HIDE DEF longer
    <2> QED BY <1>1, <1>6, <1>a, <2>1, <2>2, <2>3 DEF Climbed
  <1>8. pos \in Positions(Depth)' /\ Follows(pos, Depth)'
    BY <1>1, <1>3, <1>6, FollowsKept
  <1>9. n = h + 1 /\ (Last => n = Depth)
    BY <1>a DEF Last
  <1> HIDE DEF longer
  <1> QED BY <1>1, <1>7, <1>8, <1>9 DEF TrailOK

LEMMA TrailInit == Init => TrailOK
  BY DEF Init, TrailOK

LEMMA TrailNext == ASSUME Inv, TrailOK, [Next]_vars PROVE TrailOK'
  <1>1. ASSUME BuildZero PROVE TrailOK'
    BY <1>1 DEF BuildZero, TrailOK
  <1>2. ASSUME NEW digest \in Leaves, AppendLeaf(digest) PROVE TrailOK'
    BY <1>2 DEF AppendLeaf, SetLeaf, TrailOK
  <1>3. ASSUME NEW slot \in Slots, Revoke(slot) PROVE TrailOK'
    BY <1>3 DEF Revoke, SetLeaf, TrailOK
  <1>4. ASSUME Climb PROVE TrailOK'
    <2>1. pc' \in {"set", "idle"}
      BY <1>4 DEF Climb
    <2> QED BY <2>1 DEF TrailOK
  <1>5. ASSUME NEW slot \in Slots, StartPath(slot) PROVE TrailOK'
    BY <1>5 DEF StartPath, TrailOK
  <1>6. ASSUME Walk PROVE TrailOK'
    <2>1. pc' \in {"path", "walked"}
      BY <1>6 DEF Walk
    <2> QED BY <2>1 DEF TrailOK
  <1>7. ASSUME NEW digest \in Leaves \cup {EmptyLeaf}, StartFold(digest) PROVE TrailOK'
    <2>1. /\ pc = "walked" /\ pc' = "fold" /\ leaf' = digest /\ value' = digest
          /\ idx' = idx /\ h' = h /\ path' = path /\ nodes' = nodes /\ zero' = zero
      BY <1>7 DEF StartFold
    <2>2. h = 0
      BY <2>1 DEF Inv, PathOK
    <2>3. PICK pos \in Positions(Depth) : Follows(pos, Depth)
      BY <2>1 DEF Inv, PathOK
    <2>4. \A k, i : Get(k, i)' = Get(k, i)
      BY <2>1 DEF Get
    <2>5. pos \in Positions(Depth)' /\ Follows(pos, Depth)'
      BY <2>1, <2>3, <2>4, FollowsKept
    <2> DEFINE trail == [k \in {0} |-> digest]
    <2>6. trail[0] = digest /\ 0 .. 0 - 1 = {}
      BY SMT
    <2>7. Climbed(trail, pos, 0)'
      <3> HIDE DEF trail
      <3> QED BY <2>1, <2>6 DEF Climbed
    <2> HIDE DEF trail
    <2> QED BY <2>1, <2>2, <2>5, <2>7 DEF TrailOK
  <1>8. ASSUME FoldLevel PROVE TrailOK'
    BY <1>8, TrailFoldLevel
  <1>9. ASSUME Return PROVE TrailOK'
    BY <1>9 DEF Return, TrailOK
  <1>10. CASE UNCHANGED vars
    <2> USE <1>10 DEF vars
    <2>1. \A k, i : Get(k, i)' = Get(k, i)
      BY DEF Get
    <2>2. \A pos, n : pos \in Positions(n) /\ Follows(pos, n) =>
              pos \in Positions(n)' /\ Follows(pos, n)'
      BY <2>1, FollowsKept
    <2>3. \A trail, pos, n : Climbed(trail, pos, n) => Climbed(trail, pos, n)'
      BY <2>1, ClimbedKept
    <2> QED BY <2>2, <2>3 DEF TrailOK
  <1> QED BY <1>1, <1>2, <1>3, <1>4, <1>5, <1>6, <1>7, <1>8, <1>9, <1>10 DEF Next

(* The digests of a finished climb are the nodes of the tree with another leaf. *)
LEMMA Replaced == ASSUME FreeHash, Inv, TrailOK PROVE FoldIsReplacement
  <1> SUFFICES ASSUME pc = "folded" PROVE Opened(value) = [Opened(Root) EXCEPT ![idx] = leaf]
    BY DEF FoldIsReplacement
  <1>1. PICK pos \in Positions(Depth) : \E trail : Climbed(trail, pos, Depth)
    BY DEF TrailOK
  <1>2. PICK trail : Climbed(trail, pos, Depth)
    BY <1>1
  <1>3. /\ pos[0] = idx
        /\ \A k \in 0 .. Depth : pos[k] \in Nat /\ pos[k] < Width[k] /\ Width[k] \in Nat
        /\ \A k \in Levels : pos[k + 1] = pos[k] \div 2
    BY Widths DEF Positions, Levels
  <1> DEFINE N == [k \in 0 .. Depth |-> [q \in Nat |-> IF q = pos[k] THEN trail[k] ELSE Get(k, q)]]
  <1>4. ASSUME NEW k \in Levels, NEW q \in 0 .. Width[k + 1] - 1
        PROVE  N[k + 1][q] = Compress(N[k][2 * q], N[k][2 * q + 1])
    <2>1. k + 1 \in 0 .. Depth /\ k \in 0 .. Depth /\ q \in Nat /\ 2 * q \in Nat /\ 2 * q + 1 \in Nat
      BY DepthAssumption, SMT DEF Levels
    <2> DEFINE p == pos[k]
    <2>2. p \in Nat /\ p < Width[k] /\ Width[k] \in Nat /\ pos[k + 1] = p \div 2
      BY <1>3, <2>1
    <2>3. p \in 0 .. Width[k] - 1
      <3> HIDE DEF p
      <3> QED BY <2>2, SMT
    <2>4. Get(k + 1, q) = Compress(Get(k, 2 * q), Get(k, 2 * q + 1))
      BY DEF Inv, NodesHashTheirChildren, Levels
    <2>5. CASE q # pos[k + 1]
      <3>1. 2 * q # p /\ 2 * q + 1 # p
        <4> HIDE DEF p
        <4> QED BY <2>1, <2>2, <2>5, Children
      <3> QED BY <2>1, <2>4, <2>5, <3>1
    <2>6. CASE q = pos[k + 1]
      <3>1. trail[k + 1] = Fold(Bit(p), trail[k], Get(k, Sibling(p)))
        BY <1>2 DEF Climbed, Levels
      <3>2. \/ Bit(p) = 0 /\ 2 * q = p /\ 2 * q + 1 = Sibling(p) /\ 2 * q + 1 # p
            \/ Bit(p) = 1 /\ 2 * q = Sibling(p) /\ 2 * q + 1 = p /\ 2 * q # p
        <4>1. q = p \div 2
          BY <2>2, <2>6
        <4>2. 2 * q # 2 * q + 1
          BY <2>1
        <4> HIDE DEF p
        <4> QED BY <2>3, <4>1, <4>2, LevelUp DEF Bit
      <3>3. N[k + 1][q] = trail[k + 1]
        BY <2>1, <2>6
      <3>4. CASE Bit(p) = 0 /\ 2 * q = p /\ 2 * q + 1 = Sibling(p) /\ 2 * q + 1 # p
        BY <2>1, <3>1, <3>3, <3>4 DEF Fold
      <3>5. CASE Bit(p) = 1 /\ 2 * q = Sibling(p) /\ 2 * q + 1 = p /\ 2 * q # p
        BY <2>1, <3>1, <3>3, <3>5 DEF Fold
      <3> QED BY <3>2, <3>4, <3>5
    <2> QED BY <2>5, <2>6
  <1>5. N[Depth][0] = value
    <2>1. pos[Depth] \in Nat /\ pos[Depth] < Width[Depth] /\ Width[Depth] = 1 /\ Depth \in 0 .. Depth
      BY <1>3, DepthAssumption, WidthAssumption
    <2>2. pos[Depth] = 0
      BY <2>1
    <2> QED BY <1>2, <2>1, <2>2 DEF Climbed
  <1>6. \A i \in Slots : N[0][i] = IF i = idx THEN leaf ELSE Get(0, i)
    <2>1. 0 \in 0 .. Depth /\ \A i \in Slots : i \in Nat
      BY DepthAssumption, SMT DEF Slots
    <2> QED BY <1>2, <1>3, <2>1 DEF Climbed
  <1>7. Hashed(N)
    <2> HIDE DEF N
    <2> QED BY <1>4 DEF Hashed
  <1> HIDE DEF N
  <1>8. Opened(value) = [i \in Slots |-> IF i = idx THEN leaf ELSE Get(0, i)]
    BY <1>5, <1>6, <1>7, OpensAll
  <1>9. Opened(Root) = [i \in Slots |-> Get(0, i)]
    BY OpensTree DEF Inv
  <1> QED BY <1>8, <1>9

(* Whatever leaf the circuit starts from, the digest at the top of a path is the root of
   the same tree with the leaf of that slot replaced, for every depth and every tree. *)
THEOREM FoldReplacesOneLeaf ==
    ASSUME FreeHash
    PROVE  Spec => []FoldIsReplacement
  <1>1. Init => Inv /\ TrailOK
    BY InvInit, TrailInit
  <1>2. Inv /\ TrailOK /\ [Next]_vars => Inv' /\ TrailOK'
    BY InvNext, TrailNext
  <1>3. Inv /\ TrailOK => FoldIsReplacement
    BY Replaced
  <1> QED BY <1>1, <1>2, <1>3, PTL DEF Spec

=============================================================================
