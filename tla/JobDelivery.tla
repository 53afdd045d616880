---------------------------- MODULE JobDelivery ----------------------------
(***************************************************************************)
(* What the ingestion queue promises its callers: at-least-once delivery.  *)
(* A job that was accepted is owed until a worker settles it; it may be    *)
(* delivered again after that (a reclaimed entry, a lost acknowledge), but *)
(* it is never dropped before.                                             *)
(***************************************************************************)
CONSTANT Job

VARIABLES
    owed,     \* jobs something still leads to a delivery of
    settled   \* jobs a worker has finished with, given up or abandoned

jobVars == <<owed, settled>>

Init ==
    /\ owed = {}
    /\ settled = {}

\* enqueue
Accept(j) ==
    /\ j \notin owed \cup settled
    /\ owed' = owed \cup {j}
    /\ UNCHANGED settled

\* A worker finishes with the job; another delivery of it may be under way.
Settle(j) ==
    /\ j \in owed \cup settled
    /\ settled' = settled \cup {j}
    /\ owed' \in {owed, owed \ {j}}

\* A settled job comes back.
Redeliver(j) ==
    /\ j \in settled \ owed
    /\ owed' = owed \cup {j}
    /\ UNCHANGED settled

Next == \E j \in Job : Accept(j) \/ Settle(j) \/ Redeliver(j)

Spec == Init /\ [][Next]_jobVars
=============================================================================
