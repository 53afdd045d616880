---------------------------- MODULE MCChatTurn ----------------------------
(* Values for TLC: a question the workspace answers and one it does not. *)
EXTENDS ChatTurn, TLC

CONSTANTS t1, t2, own, other

MCNear == (t1 :> {own, other}) @@ (t2 :> {other})
=============================================================================
