CONSTANTS
    Shop = Shop
    Forum = Forum
    Alice = Alice
    Bob = Bob
    EmptyLeaf = EmptyLeaf
    NoBundle = NoBundle
    Absent = Absent
    Idle = Idle
    Hash = Hash
    Bar = Bar
    NoThreshold = NoThreshold
    Sites <- MCSites
    Domain <- MCDomain
    Required <- MCRequired
    Bundles <- MCBundles
    Tokens <- MCTokens
    TTL = 1
    EpochSeconds = 2
    MaxTime = 4
    MaxNonces = 2
SPECIFICATION Spec
INVARIANTS
    TypeOK
    NonceAcceptedOnce
    TokenAcceptedOnce
    AcceptedInTime
    ConsumedMeansAccepted
    ChallengesStayAnswerable
    AccountsAreFirstAcceptances
PROPERTY SweepIsComplete
CHECK_DEADLOCK FALSE
