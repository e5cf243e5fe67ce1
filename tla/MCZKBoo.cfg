CONSTANTS
    P = 3
    NumInputs = 1
    Program <- MCProgram
    Outputs <- MCOutputs
    Seeds <- MCSeeds
    Expand <- MCExpand
    NoProof = NoProof
    NoChallenge = NoChallenge
    NoOpening = NoOpening
    MaxLies = 1
SPECIFICATION Spec
INVARIANTS
    TypeOK
    SharesReconstruct
    HonestProofAccepted
    ThreeAcceptancesAreProof
CHECK_DEADLOCK FALSE
