---------------------------- MODULE MCPublisher ----------------------------
(* Two messages outstanding at once, sent again and again. *)
EXTENDS Publisher, TLC

MessageSymmetry == Permutations(Messages)
==============================================================================
