------------------------------ MODULE Lifecycle ------------------------------
(***************************************************************************)
(* The connection states that amqp.go names in the comments of its on...   *)
(* methods, with the channels that exist in them: what a user of Server    *)
(* may rely on, whatever goroutines bring it about.  A handler has at most *)
(* one channel at a time, only on an established connection, and every     *)
(* channel is gone before the connection is.                               *)
(***************************************************************************)
CONSTANT Handlers

VARIABLES state,    \* the state the server is in
          channels  \* the handlers whose channel is open

lifecycleVars == <<state, channels>>

States == {"ready", "connection_established", "channels_created",
           "disconnected", "idle", "finished"}

Connected == state \in {"connection_established", "channels_created"}

Init == state = "ready" /\ channels = {}

Move(from, to) ==
    /\ state = from /\ state' = to
    /\ UNCHANGED channels

\* IDLE waits for the next circle and can cause READY, or ends on shutdown;
\* READY may cause DISCONNECTED (here: idle) or CONNECTION_ESTABLISHED.
Retry          == Move("idle", "ready")
Finish         == Move("idle", "finished")
DialFailed     == Move("ready", "idle")
Connect        == Move("ready", "connection_established")
StopCreating   == Move("connection_established", "channels_created")
Disconnect     == channels = {} /\ Move("channels_created", "disconnected")
Rest           == Move("disconnected", "idle")

ChannelCreated(h) ==
    /\ Connected /\ h \notin channels
    /\ channels' = channels \union {h}
    /\ UNCHANGED state

ChannelClosed(h) ==
    /\ Connected /\ h \in channels
    /\ channels' = channels \ {h}
    /\ UNCHANGED state

Next ==
    \/ Retry \/ Finish \/ DialFailed \/ Connect \/ StopCreating
    \/ Disconnect \/ Rest
    \/ \E h \in Handlers : ChannelCreated(h) \/ ChannelClosed(h)

Spec == Init /\ [][Next]_lifecycleVars
==============================================================================
