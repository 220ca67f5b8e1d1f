CONSTANTS
    Messages = {m1, m2}
    NoMsg = NoMsg
    MaxSize = 2
    HasHandler = TRUE
SPECIFICATION Spec
INVARIANTS TypeOK VerdictIsTrue SettledOnce BacklogReported
PROPERTIES OverflowReportsAreTrue ImplementsOutbox CallersReturn
CHECK_DEADLOCK FALSE
