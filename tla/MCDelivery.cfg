CONSTANTS
    Messages = {m1, m2}
    NoMessage = NoMessage
    MaxCount = 3
    DefaultRetries = 1
    Setups <- MCSetups
SPECIFICATION Spec
CHECK_DEADLOCK FALSE
INVARIANTS
    TypeOK
    NamedQueueLosesNothing
    SignatureSurvives
    
    NoChannelError
    HandledOnce
PROPERTIES
    InfrastructureRestored
    LoopPrintsAll
