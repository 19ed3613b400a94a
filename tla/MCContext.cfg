SPECIFICATION Spec
CONSTANTS
    N = 5
    OddY <- MCOddY5
    Threads = {t1, t2}
    Blocks = {b1, b2}
    Static = static
    Seeds = {1}
    Functions <- TwoFunctions
    Inputs = {0, 1, 4}
    CombBits = 4
    Field <- MCField
    HProj <- MCHProj
    HBlind <- MCHBlind
INVARIANTS
    GenCorrect
    BlindingSound
    SecretsCleared
