---------------------------- MODULE AnswerStream ----------------------------
(***************************************************************************)
(* What the stream of an answer promises its reader: which event may       *)
(* follow which (api/v1/chat.py, services/chat_service.py).                *)
(*                                                                         *)
(* An answer is "meta", tokens, "citations", "usage", "done"; a refusal    *)
(* ("refusal" is a meta with refused = true) has only words before "done". *)
(* An error may come at any point, after "done" too, when the turn could   *)
(* not be stored; and once more after an error.  The stream may break off  *)
(* anywhere.                                                               *)
(***************************************************************************)
EXTENDS FiniteSets

CONSTANT Turn       \* questions, one stream each

VARIABLES
    last,       \* the last event sent, "none" before the first
    closed      \* the streams that have ended

Event == {"meta", "token", "citations", "usage", "done",
          "refusal", "word", "error", "lastError"}

Follows(event) ==
    CASE event = "none"      -> {"meta", "refusal", "error"}
      [] event = "meta"      -> {"token", "citations", "error"}
      [] event = "token"     -> {"token", "citations", "error"}
      [] event = "citations" -> {"usage", "error"}
      [] event = "usage"     -> {"done", "error"}
      [] event = "refusal"   -> {"word", "error"}
      [] event = "word"      -> {"word", "done", "error"}
      [] event = "done"      -> {"error"}
      [] event = "error"     -> {"lastError"}
      [] event = "lastError" -> {}

Init == last = [t \in Turn |-> "none"] /\ closed = {}

Send(t) ==
    /\ t \notin closed
    /\ \E event \in Follows(last[t]) : last' = [last EXCEPT ![t] = event]
    /\ UNCHANGED closed

\* With an event or without one.
Close(t) ==
    /\ t \notin closed
    /\ closed' = closed \cup {t}
    /\ \E event \in Follows(last[t]) \cup {last[t]} : last' = [last EXCEPT ![t] = event]

Next == \E t \in Turn : Send(t) \/ Close(t)

Spec == Init /\ [][Next]_<<last, closed>>
=============================================================================
