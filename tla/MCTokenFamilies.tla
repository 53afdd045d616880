-------------------------- MODULE MCTokenFamilies --------------------------
(* Values for TLC. *)
EXTENDS TokenFamilies, TLC

Symmetry == Permutations(Request)
=============================================================================
