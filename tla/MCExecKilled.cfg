CONSTANTS
    MaxLines = 2
    PipeSize = 1
SPECIFICATION SafeSpec
INVARIANT FailureIsRetried
CHECK_DEADLOCK FALSE
