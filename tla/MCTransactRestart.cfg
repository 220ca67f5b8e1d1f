CONSTANTS
    Origins = {o1}
    Copies = {c1, c2}
    NoCopy = NoCopy
    Setups = {TRUE}
    Limit = 1
    Threshold = 2
    ExpiredHandler = FALSE
    Filtering = FALSE
    Faults = FALSE
    Restarts = TRUE
    Others = FALSE
SPECIFICATION SafeSpec
INVARIANT NothingLost
CHECK_DEADLOCK FALSE
