CONSTANTS
    MaxReps = 4
    MaxThreads = 4
    Bytes = {0, 1, 5, 255}
    CommitLen = 1
    OutsLen = 1
    SeedLen = 1
    InputsLen = 2
    MultsLen = 1
    MaxDeclared = 4
    NoBlob = NoBlob
    AlteredBlobs <- MCAlteredBlobs
    MaxAltered = 2
SPECIFICATION PipelineSpec
INVARIANTS
    EachRepetitionOnce
    VerdictIsUnanimous
    DecodersAgree
    DecodingIsExact
    ArrivingProofIsJudged
PROPERTIES
    EveryCallReturns
CHECK_DEADLOCK FALSE
