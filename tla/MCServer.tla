------------------------------ MODULE MCServer ------------------------------
(* The server with a sink, which watches the connection and has a requeue,   *)
(* and with handlers that do not watch it.                                   *)
EXTENDS Server
==============================================================================
