------------------------------ MODULE Keeping ------------------------------
(* The members of a set in a sequence, in order: what a comprehension with a *)
(* condition keeps of a list.                                                *)
EXTENDS Sequences, SequencesExt

KeepIn(S, kept, x) == IF x \in S THEN Append(kept, x) ELSE kept
Those(S, list) == FoldLeft(LAMBDA kept, x : KeepIn(S, kept, x), <<>>, list)
=============================================================================
