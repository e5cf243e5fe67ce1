CONSTANTS
    Alice = Alice
    Shop = Shop
    Sixteen = Sixteen
    Eighteen = Eighteen
    NoThreshold = NoThreshold
    NoIndex = NoIndex
    NoFile = NoFile
    Wallets <- MCWallets
    Instances <- MCInstances
    Domains <- MCDomains
    Malformed <- MCMalformed
    MaxIndex = 1
    MaxCalls = 3
SPECIFICATION Spec
INVARIANTS
    SecondThresholdConfirmed
    WarningsAreJustified
    IndexFollowsAuthority
