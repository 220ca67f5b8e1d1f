CONSTANTS
    Origins = {o1}
    Copies = {c1, c2}
    NoCopy = NoCopy
    Setups = {FALSE, TRUE}
    Limit = 0
    Threshold = 1
    ExpiredHandler = FALSE
    Filtering = TRUE
    Faults = TRUE
    Restarts = TRUE
    Others = TRUE
SPECIFICATION Spec
PROPERTIES EventuallySettled ShutdownCompletes PlainSinkRecovers
CHECK_DEADLOCK FALSE
