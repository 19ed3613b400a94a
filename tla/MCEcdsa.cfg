SPECIFICATION Spec
CONSTANTS
    N = 11
    OddY <- MCOddY
    P = 17
    X <- MCX
    Bytes <- MCBytes
    MaxCount = 1
INVARIANTS
    SignatureVerifies
    SignerIsRecovered
    RecoveryIsVerification
