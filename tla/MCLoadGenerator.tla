-------------------------- MODULE MCLoadGenerator --------------------------
(* Instances of LoadGenerator for TLC.                                      *)
EXTENDS LoadGenerator, TLC

CONSTANTS w1, w2, w3

Symmetry == Permutations(Workers)
=============================================================================
