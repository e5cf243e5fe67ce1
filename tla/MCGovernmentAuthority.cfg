CONSTANTS
    Alice = Alice
    Bob = Bob
    LeafA = LeafA
    LeafB = LeafB
    Single = Single
    EmptyLeaf = EmptyLeaf
    NoIndex = NoIndex
    Instances <- MCInstances
    Citizens <- MCCitizens
    Leaves <- MCLeaves
    Capacity = 2
    MaxTime = 1
    MaxBundles = 2
SPECIFICATION Spec
INVARIANTS
    TypeOK
    RegistryMatchesTree
    BundlesAreAHistory
PROPERTIES
    NoSlotReuse
    TreesAreAccumulators
SYMMETRY MCSymmetry
