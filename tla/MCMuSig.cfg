SPECIFICATION Spec
CONSTANTS
    N = 7
    OddY <- MCOddY
    NumSigners = 2
    KeyLists <- KeysOfTwo
    Msgs = {1}
    Tweaks = {3, 7}
    MaxTweaks = 2
    MaxNonces = 2
    Nonce <- MCNonce
    Received <- MCReceivedOverflow
    HKeyAgg <- MCHKeyAgg
    HNonce <- MCHNonce
    HChallenge <- MCHChallenge
INVARIANTS
    SignaturesSound
    TweakSound
PROPERTY ImplementsOneTimeNonce
ACTION_CONSTRAINT SecondTweakEarly
