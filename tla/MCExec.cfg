CONSTANTS
    MaxLines = 4
    PipeSize = 2
SPECIFICATION Spec
INVARIANTS TypeOK NoLineDropped WholeOutputIsOfSuccess
PROPERTY NobodyWaitsForever
CHECK_DEADLOCK FALSE
