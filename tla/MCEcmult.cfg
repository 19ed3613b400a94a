CONSTANTS
    P = 31
    B = 3
    N = 43
    Gx = 1
    Gy = 2
    Beta = 25
    Lambda = 36
    ScalarBits = 6
    HalfBits = 3
    A1 = 1
    MinusB1 = 6
    A2 = 7
    B2 = 1
    WindowA = 3
    WindowG = 4
    GroupSize = 3
    BucketWindows = {1, 2}
    CombShapes <- MCCombShapes
    Inputs <- MCInputs
    Numbers <- MCNumbers
    SecretPairs <- MCSecretPairs
    Candidates <- MCCandidates
SPECIFICATION EllSpec
INVARIANTS
    ProductCorrect
    EncodingsSound
    SharedSecretsAgree
CHECK_DEADLOCK FALSE
