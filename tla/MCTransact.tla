----------------------------- MODULE MCTransact -----------------------------
(* A sink and its requeue against a broker that holds a few copies. *)
EXTENDS Transact, TLC

CopySymmetry == Permutations(Copies) \union Permutations(Origins)
==============================================================================
