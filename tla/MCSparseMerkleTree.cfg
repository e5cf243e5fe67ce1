CONSTANTS
    LeafA = LeafA
    LeafB = LeafB
    EmptyLeaf = EmptyLeaf
    Depth = 3
    Width <- MCWidth
    Leaves <- MCLeaves
    Compress <- Pair
SPECIFICATION Spec
INVARIANTS
    NodesHashTheirChildren
    FoldDecidesMembership
    FoldIsReplacement
PROPERTY
    ImplementsAccumulator
SYMMETRY MCSymmetry
