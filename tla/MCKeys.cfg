SPECIFICATION MCSpec
CONSTANTS
    N = 5
    OddY <- MCOddY
    Bytes <- MCBytes
    SortKeys <- MCSort
    MaxCount = 6
INVARIANTS
    WatcherFollows
    CommitmentOpens
    SignaturesVerify
    HeapSound
PROPERTY
    Terminates
