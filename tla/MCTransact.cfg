CONSTANTS
    Origins = {o1, o2}
    Copies = {c1, c2, c3}
    NoCopy = NoCopy
    Setups = {TRUE}
    Limit = 0
    Threshold = 0
    ExpiredHandler = FALSE
    Filtering = FALSE
    Faults = TRUE
    Restarts = FALSE
    Others = FALSE
SPECIFICATION SafeSpec
SYMMETRY CopySymmetry
INVARIANTS TypeOK NothingLost CopyBeforeAck NoDuplicates
CHECK_DEADLOCK FALSE
