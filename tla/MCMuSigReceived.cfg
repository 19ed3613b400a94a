SPECIFICATION Spec
CONSTANTS
    N = 7
    OddY <- MCOddY
    NumSigners = 2
    KeyLists <- OneKeyList
    Msgs = {1}
    Tweaks = {3, 7}
    MaxTweaks = 0
    MaxNonces = 2
    Nonce <- MCNonce
    Received <- MCReceivedAny
    HKeyAgg <- MCHKeyAgg
    HNonce <- MCHNonce
    HChallenge <- MCHChallenge
INVARIANT BadPartialSigIsCaught
