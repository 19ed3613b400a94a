\* The runner of TestRunner.cfg, held against what unit_test.h promises of its
\* exit status: a read that fails is taken for the end of the pipe.
SPECIFICATION RunnerSpec
CONSTANTS
    Jobs = {0, 1, 2, 3}
    MaxArgs = 5
    MaxTargets = 3
    ByteSize = 4
    PipeCapacity = 2
INVARIANT SuccessMeansPassed
