CONSTANTS
    Handlers = {s1, h1}
    Watchers = {s1}
    Retriers = {s1}
    Nil = Nil
    NumUrls = 2
    RacyAppend = TRUE
    MaxConns = 2
SPECIFICATION Spec
INVARIANTS TypeOK NothingOutlivesConnection OneGoroutinePerHandler
PROPERTIES ImplementsLifecycle ShutdownCompletes EndsAreNoticed RegisteredGetsChannel
CHECK_DEADLOCK FALSE
