CONSTANTS
    Producers = {p1, p2}
    Consumer = consumer
    NoMsg = NoMsg
    MaxPuts = 2
SPECIFICATION Spec
INVARIANTS TypeOK NoLostWakeup
PROPERTY ImplementsMailbox
