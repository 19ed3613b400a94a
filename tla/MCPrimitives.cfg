SPECIFICATION MCSpec
CONSTANTS
    W = 4
    DetWords <- MCDetWords
    LimbBits4 = 2
    N4 = 233
    Operands4 <- MCOperands4
    LimbBits8 = 3
    N8 = 16772015
    Operands8 <- MCOperands8
    NLow = 13
    LambdaLow = 9
    BitsLow = 8
    ByteLow = 2
    BytesLow = 5
    S64 = 8
    Modulus64 <- MCModulus64
    Inv64 = 51
    Limb64 = 7
    Iterations64 = 9
    MaxIterations64 = 7
    JacobiIterations64 = 6
    S32 = 9
    Modulus32 <- MCModulus32
    Inv32 = 511
    Limb32 = 5
    Iterations32 = 6
    MaxIterations32 = 7
    JacobiIterations32 = 6
    Inverted <- MCInverted
    w5 = 11
    t5 = 9
    C5 = 11
    Word5 = 16
    Storage5 = 14
    Factors5 <- MCFactors5
    w10 = 8
    t10 = 7
    C10 = 19
    C10High = 2
    Word10 = 12
    Storage10 = 10
    Factors10 <- MCFactors10
    MaxMag = 8
    MulMag = 2
    MaxFeSteps = 2
    Compress <- MCCompress
    InitialState <- MCInitial
    Pieces <- MCPieces
    KeyLengths <- MCKeyLengths
    Outputs <- MCOutputs
    MaxMessage = 200
    MaxGenerated = 3
    DerContents <- MCContents
    Keys <- MCKeys
    SizeMax = 31
    Alignment = 4
    HeaderSize = 6
    Sizes = {0, 1, 6, 8, 22, 29, 31}
    MaxMarks = 2
INVARIANTS
    WideImplementationsAgree
    ScalarsAreResidues
    InverseCorrect
    FieldLimbsSound
    DigestIsOfMessage
    NonceIsRfc6979
    DerIsStrict
    FramesSound
    MaxAllocationHonest
PROPERTY CheckpointUndoes
CHECK_DEADLOCK FALSE
