SPECIFICATION Spec
CONSTANTS
    Jobs <- MCJobs
    W = 4
    Y = {0, 1, 2, 3, 8, 15, 16, 17, 100, 127, 128, 240, 241, 255}
    SumW = 5
    Bcd = {0, 1, 4, 5, 8, 9}
INVARIANTS
    LongArithmetic
    InstructionsExact
PROPERTY
    Ends
CHECK_DEADLOCK FALSE
