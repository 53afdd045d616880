--------------------------- MODULE MCRateLimiter ---------------------------
(* Values for TLC. *)
EXTENDS RateLimiter, TLC

Symmetry == Permutations(Call)
=============================================================================
