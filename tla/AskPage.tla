------------------------------ MODULE AskPage ------------------------------
(***************************************************************************)
(* The console's page (frontend/src/app/console/page.tsx) and its reader   *)
(* of the stream (frontend/src/lib/stream.ts), over what AnswerStream      *)
(* promises.                                                               *)
(*                                                                         *)
(* Every step is one callback of the browser: a click, a timer, an answer  *)
(* of the API, an event of a stream.  A stream goes on when its thread is  *)
(* no longer the one on the page.                                          *)
(***************************************************************************)
EXTENDS Naturals, Sequences, SequencesExt, FiniteSets

CONSTANTS
    Turn,       \* questions asked; also the conversations created for them
    Old,        \* conversations of the list, each opened at most once
    NoThread    \* no conversation

ASSUME PageAssumption == NoThread \notin Turn \cup Old /\ Turn \cap Old = {}

VARIABLES
    pc,             \* "new", "creating" its conversation, "asked" or "failed"
    thread,         \* the conversation a question was sent to
    selected,       \* the page's conversation
    restored,       \* the conversation whose stored turns are shown
    turns,          \* the questions shown below them
    streaming,      \* those shown as still streaming
    phase,          \* what the page says it is doing
    retrievingTimer, generatingTimer,   \* questions with a phase timer running
    streamRef,      \* the question Stop is for
    loads,          \* conversations whose messages are on their way
    opened,         \* bound: those opened so far
    last, closed,   \* the streams, as in AnswerStream
    late,           \* history: the phase is that of a timer whose stream was over
    crossed         \* history: the user went on while a load or a creation was
                    \* under way, or one failed

threads == <<selected, restored, turns, loads, opened, crossed>>
timers == <<retrievingTimer, generatingTimer>>
streams == <<last, closed>>
vars == <<pc, thread, threads, streaming, phase, timers, streamRef, streams, late>>

Stream == INSTANCE AnswerStream

Init ==
    /\ pc = [t \in Turn |-> "new"] /\ thread = [t \in Turn |-> NoThread]
    /\ selected = NoThread /\ restored = NoThread
    /\ turns = <<>> /\ streaming = {} /\ phase = "idle"
    /\ retrievingTimer = {} /\ generatingTimer = {}
    /\ streamRef = {} /\ loads = {} /\ opened = {}
    /\ Stream!Init
    /\ late = FALSE /\ crossed = FALSE

Busy == phase \notin {"idle", "done"}
Creating == {t \in Turn : pc[t] = "creating"}
Open == {t \in Turn : pc[t] = "asked"} \ closed
Over(t) == t \in closed \/ last[t] \in {"done", "error", "lastError"}

Says(p) == phase' = p /\ late' = FALSE
Crosses == crossed' = (crossed \/ loads # {} \/ Creating # {})

-----------------------------------------------------------------------------
(* Asking. *)

\* The turn is shown, its timer set and its stream opened, all at once.
Start(t, conversation) ==
    /\ pc' = [pc EXCEPT ![t] = "asked"]
    /\ thread' = [thread EXCEPT ![t] = conversation]
    /\ turns' = Append(turns, t) /\ streaming' = streaming \cup {t}
    /\ Says("embedding")
    /\ retrievingTimer' = retrievingTimer \cup {t}
    /\ streamRef' = {t}

\* The page is not busy yet while the conversation is being created.
Ask(t) ==
    /\ pc[t] = "new" /\ ~Busy
    /\ Crosses
    /\ IF selected # NoThread
       THEN Start(t, selected)
       ELSE /\ pc' = [pc EXCEPT ![t] = "creating"]
            /\ UNCHANGED <<thread, turns, streaming, phase, late, retrievingTimer, streamRef>>
    /\ UNCHANGED <<selected, restored, loads, opened, generatingTimer, streams>>

Created(t) ==
    /\ pc[t] = "creating"
    /\ selected' = t
    /\ Start(t, t)
    /\ UNCHANGED <<restored, loads, opened, crossed, generatingTimer, streams>>

CreateFails(t) ==
    /\ pc[t] = "creating"
    /\ pc' = [pc EXCEPT ![t] = "failed"]
    /\ UNCHANGED <<thread, threads, streaming, phase, timers, streamRef, streams, late>>

-----------------------------------------------------------------------------
(* The callbacks of the stream. *)

OnlyPhase(t) == Says("done") /\ UNCHANGED streaming           \* a mutant
OnlyTurn(t) ==                                                \* a mutant
    UNCHANGED <<phase, late>> /\ streaming' = streaming \ {t}
Finished(t) == Says("done") /\ streaming' = streaming \ {t}

OnMeta(t) ==
    /\ last'[t] = "meta"
    /\ Says("fusing")
    /\ retrievingTimer' = retrievingTimer \ {t}
    /\ generatingTimer' = generatingTimer \cup {t}
    /\ UNCHANGED streaming

OnRefusal(t) ==
    /\ last'[t] = "refusal"
    /\ Says("done")
    /\ retrievingTimer' = retrievingTimer \ {t}
    /\ UNCHANGED <<generatingTimer, streaming>>

OnText(t) ==
    /\ last'[t] \in {"token", "word", "citations", "usage"}
    /\ UNCHANGED <<timers, streaming, phase, late>>

OnDone(t) == last'[t] = "done" /\ Finished(t) /\ UNCHANGED timers

OnError(t) == last'[t] \in {"error", "lastError"} /\ Finished(t) /\ UNCHANGED timers

Receive(t) ==
    /\ t \in Open
    /\ Stream!Send(t)
    /\ OnMeta(t) \/ OnRefusal(t) \/ OnText(t) \/ OnDone(t) \/ OnError(t)
    /\ UNCHANGED <<pc, thread, threads, streamRef>>

\* The server ends the stream after its last event.
EndOfStream(t) ==
    /\ t \in Open /\ last[t] \in {"done", "error", "lastError"}
    /\ closed' = closed \cup {t}
    /\ UNCHANGED <<pc, thread, threads, streaming, phase, timers, streamRef, last, late>>

\* The request is refused, does not come through, or the connection breaks.
Fail(t) ==
    /\ t \in Open
    /\ closed' = closed \cup {t}
    /\ Finished(t)
    /\ UNCHANGED <<pc, thread, threads, timers, streamRef, last>>

\* The timers set the phase whatever has become of their stream.
Retrieving(t) ==
    /\ t \in retrievingTimer
    /\ phase' = "retrieving" /\ late' = Over(t)
    /\ retrievingTimer' = retrievingTimer \ {t}
    /\ UNCHANGED <<pc, thread, threads, streaming, generatingTimer, streamRef, streams>>

Generating(t) ==
    /\ t \in generatingTimer
    /\ phase' = "generating" /\ late' = Over(t)
    /\ generatingTimer' = generatingTimer \ {t}
    /\ UNCHANGED <<pc, thread, threads, streaming, retrievingTimer, streamRef, streams>>

-----------------------------------------------------------------------------
(* The other buttons. *)

\* An aborted stream calls nothing back.
Stop ==
    /\ Busy
    /\ closed' = closed \cup streamRef
    /\ streaming' = IF turns = <<>> THEN streaming ELSE streaming \ {Last(turns)}
    /\ Says("done")
    /\ UNCHANGED <<pc, thread, threads, timers, streamRef, last>>

KeepsTurns == turns                                           \* a mutant
Cleared == <<>>

NewThread ==
    /\ Crosses
    /\ selected' = NoThread /\ restored' = NoThread /\ turns' = Cleared
    /\ Says("idle")
    /\ UNCHANGED <<pc, thread, streaming, timers, streamRef, loads, opened, streams>>

OpenThread(c) ==
    /\ c \notin opened
    /\ Crosses
    /\ selected' = c
    /\ loads' = loads \cup {c} /\ opened' = opened \cup {c}
    /\ UNCHANGED <<pc, thread, restored, turns, streaming, phase, timers, streamRef, streams, late>>

Loaded(c) ==
    /\ c \in loads
    /\ restored' = c /\ turns' = <<>>
    /\ Says("done")
    /\ loads' = loads \ {c}
    /\ UNCHANGED <<pc, thread, selected, streaming, timers, streamRef, opened, crossed, streams>>

LoadFails(c) ==
    /\ c \in loads
    /\ loads' = loads \ {c} /\ crossed' = TRUE
    /\ UNCHANGED <<pc, thread, selected, restored, turns, streaming, phase, timers,
                   streamRef, opened, streams, late>>

User ==
    \/ \E t \in Turn : Ask(t)
    \/ Stop \/ NewThread
    \/ \E c \in Old : OpenThread(c)

Callback ==
    \/ \E t \in Turn : \/ Created(t) \/ CreateFails(t)
                       \/ Receive(t) \/ EndOfStream(t) \/ Fail(t)
                       \/ Retrieving(t) \/ Generating(t)
    \/ \E c \in Old : Loaded(c) \/ LoadFails(c)

Next == User \/ Callback

Spec == Init /\ [][Next]_vars

-----------------------------------------------------------------------------
(* Properties. *)

\* What is shown is the thread that is selected, unless the user went on while
\* a load or a creation was under way, or one failed.
ShownIsSelected ==
    loads = {} /\ ~crossed =>
        /\ restored \in {NoThread, selected}
        /\ \A i \in DOMAIN turns : thread[turns[i]] = selected

\* When nothing goes on any more the page is ready for a question, unless a
\* timer ran out after the end of its stream.
ReadyWhenQuiet == Open = {} /\ retrievingTimer \cup generatingTimer = {} => ~Busy \/ late

\* A turn is shown as streaming only while its stream is open.
SpinnerHonest == \A t \in ToSet(turns) : t \in streaming => t \in Open
=============================================================================
