--------------------------- MODULE MCMessageQueue ---------------------------
(* Two producers against the publisher goroutine. *)
EXTENDS MessageQueue
==============================================================================
