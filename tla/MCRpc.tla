------------------------------- MODULE MCRpc -------------------------------
(* A few calls, each answered up to twice. *)
EXTENDS Rpc, TLC

CallSymmetry == Permutations(Calls)
==============================================================================
