CONSTANTS
    Messages = {m1}
    NoMessage = NoMessage
    MaxCount = 3
    DefaultRetries = 1
    Setups <- PlainSetups
SPECIFICATION SafeSpec
CHECK_DEADLOCK FALSE
INVARIANT RetriesLimited
