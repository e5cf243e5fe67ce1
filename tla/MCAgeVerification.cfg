CONSTANTS
    Alice = Alice
    Bob = Bob
    Shop = Shop
    Shop16 = Shop16
    ShopAll = ShopAll
    Hash = Hash
    Bar = Bar
    NoThreshold = NoThreshold
    EmptyLeaf = EmptyLeaf
    NoIndex = NoIndex
    NoFile = NoFile
    NoBundle = NoBundle
    Absent = Absent
    Idle = Idle
    AdultAge = 18
    Capacity = 2
    EpochSeconds = 2
    TTL = 0
    Holders <- MCHolders
    Age <- MCAge
    Instances <- MCInstances
    Sites <- MCSites
    Domain <- MCDomain
    Required <- MCRequired
    OtherBundles <- MCOtherBundles
    OtherDomains <- MCOtherDomains
    Answers = {FALSE}
    Savers = {Alice}
    MaxEnrolments = 2
    MaxExchanges = 2
    MaxGaTime = 1
    MaxBundles = 2
    MaxTime = 1
    MaxNonces = 1
    MaxCalls = 1
SPECIFICATION Spec
INVARIANTS
    AcceptedHoldersQualify
    AcceptedWasRequested
    EnrolledHolderIsServed
PROPERTY SiteRootsMoveForward
CHECK_DEADLOCK FALSE
