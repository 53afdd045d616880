---------------------------- MODULE MCIngestion ----------------------------
(* Values for TLC: which document each job is for. *)
EXTENDS Ingestion, TLC

\* Two jobs of one document.
OneDocument == [j \in Job |-> CHOOSE d \in Document : TRUE]
=============================================================================
