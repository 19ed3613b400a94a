SPECIFICATION Spec
CONSTANTS
    SizeMax = 4095
    Alignment = 4
    HeaderSize = 6
    SpaceSizes <- MCSpaceSizes
    FrameSizes <- MCFrameSizes
    MaxFrames = 1
    MaxPoints = 6
    Sz <- MCSz
    TableSize = 2
    WnafBits = 12
    WindowInv <- MCWindowInv
    Threshold = 3
    MaxPerBatch = 4
INVARIANTS
    EveryTermOnce
    FailsOnlyByCallback
    SpaceReturned
