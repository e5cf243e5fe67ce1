CONSTANTS
    Alice = Alice
    Shop = Shop
    Sixteen = Sixteen
    Eighteen = Eighteen
    NoThreshold = NoThreshold
    NoIndex = NoIndex
    NoFile = NoFile
    Wallets <- MCWallets
    Instances <- MCInstances
    Domains <- MCDomains
    Malformed = {}
    MaxIndex = 0
    MaxCalls = 3
SPECIFICATION Spec
INVARIANT SecondThresholdAlwaysConfirmed
