---------------------------- MODULE MCClientPool ----------------------------
(* The workers are interchangeable.                                         *)
EXTENDS ClientPool, TLC

Symmetry == Permutations(Workers)
=============================================================================
