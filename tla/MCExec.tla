------------------------------- MODULE MCExec -------------------------------
(* A child of a few lines and a pipe that is smaller than they are. *)
EXTENDS Exec
==============================================================================
