\* Up to three workers.  The byte has four values, so that run_concurrent's limit
\* lies just below it as in the code (255 and 256), and the slots hold more targets.
SPECIFICATION RunnerSpec
CONSTANTS
    Jobs = {0, 1, 2, 3}
    MaxArgs = 5
    MaxTargets = 3
    ByteSize = 4
    PipeCapacity = 2
INVARIANTS
    StatusHonest
    CrashIsContained
PROPERTY
    Ends
