----------------------------- MODULE MCAskPage -----------------------------
(* Values for TLC. *)
EXTENDS AskPage
=============================================================================
