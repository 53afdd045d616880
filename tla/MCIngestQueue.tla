--------------------------- MODULE MCIngestQueue ---------------------------
(* Values for TLC. *)
EXTENDS IngestQueue, TLC

Symmetry == Permutations(Worker)
=============================================================================
