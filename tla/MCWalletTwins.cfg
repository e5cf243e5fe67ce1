CONSTANTS
    One = One
    Other = Other
    Shop = Shop
    Forum = Forum
    NoThreshold = NoThreshold
    NoIndex = NoIndex
    NoFile = NoFile
    Wallets <- MCWallets
    Instances <- MCInstances
    Domains <- MCDomains
    Malformed = {}
    MaxIndex = 0
    MaxCalls = 4
SPECIFICATION SpecTwins
INVARIANTS
    WarningsRevealNothing
    WarningsAreJustified
SYMMETRY DomainSymmetry
