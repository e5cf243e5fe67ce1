CONSTANTS
    B = 16
    RF_HALF = 4
    RP = 22
    RC8 <- MCRC8
    MAT_DIAG8_M_1 <- MCDiag
    TAG_LEAF = 1017
    TAG_KEY = 300
    Witnesses <- MCWitnesses
    CtxWords = {3, 240, 250}
    MaxDrawn = 18
SPECIFICATION Spec
INVARIANTS
    EnginesAgree
    BufferIsLongEnough
    CircuitIsTheStatement
    ProductsAreCounted
CHECK_DEADLOCK FALSE
