CONSTANTS
    Calls = {k1, k2}
    NoCall = NoCall
    MaxReplies = 2
SPECIFICATION Spec
INVARIANTS TypeOK ChannelsUsedOnce FirstReplyArrives
PROPERTY ReadersReleased
CHECK_DEADLOCK FALSE
