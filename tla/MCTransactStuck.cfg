CONSTANTS
    Origins = {o1}
    Copies = {c1, c2}
    NoCopy = NoCopy
    Setups = {TRUE}
    Limit = 0
    Threshold = 1
    ExpiredHandler = FALSE
    Filtering = FALSE
    Faults = TRUE
    Restarts = FALSE
    Others = TRUE
SPECIFICATION Spec
PROPERTY Recovers
CHECK_DEADLOCK FALSE
