--------------------------- MODULE AskPage_proofs ---------------------------
(***************************************************************************)
(* What holds of the page for any number of questions and stored threads,  *)
(* in whatever order timers, answers and events come.                      *)
(***************************************************************************)
EXTENDS AskPage, TLAPS

Thread == Turn \cup Old \cup {NoThread}

TypeOK ==
    /\ pc \in [Turn -> {"new", "creating", "asked", "failed"}]
    /\ thread \in [Turn -> Thread]
    /\ selected \in Thread
    /\ turns \in Seq(Turn)
    /\ streaming \subseteq Turn
    /\ streamRef \subseteq Turn
    /\ loads \subseteq Old
    /\ DOMAIN last = Turn
    /\ late \in BOOLEAN /\ crossed \in BOOLEAN

\* What has not happened to a question that has no stream yet.
Begun ==
    \A t \in Turn :
        /\ pc[t] # "asked" => t \notin closed /\ t \notin streaming /\ last[t] = "none"
        /\ pc[t] # "asked" => t \notin retrievingTimer /\ t \notin generatingTimer
        /\ pc[t] = "asked" => thread[t] # NoThread

\* The last turn on the page is the one that Stop is for.
Spinning ==
    /\ SpinnerHonest
    /\ \A t \in streaming : last[t] \notin {"done", "error", "lastError"}
    /\ ToSet(turns) \cup streamRef \subseteq {t \in Turn : pc[t] = "asked"}
    /\ turns # <<>> => streamRef = {Last(turns)}

\* While the user waits, one load or one creation is under way, for the thread
\* that is selected.
Waiting ==
    /\ loads # {} => loads = {selected} /\ Creating = {}
    /\ Creating # {} => selected = NoThread
    /\ \A t, u \in Creating : t = u

\* A page that is busy has a timer running or a stream that is not over.
Awake ==
    Busy /\ ~late =>
        \/ retrievingTimer \cup generatingTimer # {}
        \/ \E t \in Open : ~Over(t)

IInv ==
    /\ TypeOK /\ Begun /\ Spinning /\ Awake
    /\ ~crossed => Waiting /\ ShownIsSelected

-----------------------------------------------------------------------------
LEMMA InitInv == Init => IInv
<1>1. ToSet(<<>>) = {}
  BY DEF ToSet
<1> SUFFICES ASSUME Init
             PROVE  IInv
  OBVIOUS
<1>2. TypeOK
  <2>1. turns \in Seq(Turn)
    BY DEF Init
  <2>2. late \in BOOLEAN /\ crossed \in BOOLEAN
    BY DEF Init
  <2> QED
    BY <2>1, <2>2 DEF Init, TypeOK, Thread, Stream!Init
<1>3. Begun
  BY DEF Init, Begun, Stream!Init
<1>4. Spinning
  BY <1>1 DEF Init, Spinning, SpinnerHonest
<1>5. Awake
  BY DEF Init, Awake, Busy
<1>6. Waiting /\ ShownIsSelected
  BY DEF Init, Waiting, ShownIsSelected, Creating
<1> QED
  BY <1>2, <1>3, <1>4, <1>5, <1>6 DEF IInv

LEMMA Appended ==
  ASSUME NEW s \in Seq(Turn), NEW t \in Turn
  PROVE  /\ Append(s, t) \in Seq(Turn) /\ Append(s, t) # <<>>
         /\ Last(Append(s, t)) = t
         /\ ToSet(Append(s, t)) = ToSet(s) \cup {t}
         /\ DOMAIN Append(s, t) = DOMAIN s \cup {Len(s) + 1}
         /\ \A i \in DOMAIN s : Append(s, t)[i] = s[i]
         /\ Append(s, t)[Len(s) + 1] = t
<1>1. /\ Append(s, t) \in Seq(Turn) /\ Append(s, t) # <<>>
      /\ Len(Append(s, t)) = Len(s) + 1 /\ Len(s) \in Nat
      /\ \A i \in DOMAIN s : Append(s, t)[i] = s[i]
      /\ Append(s, t)[Len(s) + 1] = t
      /\ DOMAIN s = 1 .. Len(s)
      /\ DOMAIN Append(s, t) = 1 .. Len(s) + 1
  OBVIOUS
<1>2. DOMAIN Append(s, t) = DOMAIN s \cup {Len(s) + 1}
  BY <1>1
<1>3. ToSet(Append(s, t)) = ToSet(s) \cup {t}
  BY <1>1, <1>2 DEF ToSet
<1> QED
  BY <1>1, <1>2, <1>3 DEF Last

\* A question begins in the thread that is selected after the step.
LEMMA StartInv ==
  ASSUME IInv, NEW t \in Turn, NEW c \in Thread, c # NoThread,
         pc[t] # "asked", Start(t, c), UNCHANGED <<loads, generatingTimer, streams>>,
         selected' \in Thread, crossed' \in BOOLEAN
  PROVE  TypeOK' /\ Begun' /\ Spinning' /\ Awake'
<1> USE DEF IInv, TypeOK
<1>1. TypeOK'
  BY Appended DEF Start, Says, streams
<1>2. Begun'
  BY DEF Begun, Start, streams
<1>3. Spinning'
  <2>1. ToSet(turns') = ToSet(turns) \cup {t} /\ Last(turns') = t
    BY Appended DEF Start
  <2>2. t \notin closed /\ last[t] = "none"
    BY DEF Begun
  <2> QED
    BY <2>1, <2>2 DEF Spinning, SpinnerHonest, Open, Start, streams
<1>4. Awake'
  BY DEF Awake, Start
<1> QED
  BY <1>1, <1>2, <1>3, <1>4

LEMMA AskInv ==
  ASSUME IInv, NEW t \in Turn, Ask(t)
  PROVE  IInv'
<1> USE DEF IInv, TypeOK
<1>1. crossed' \in BOOLEAN /\ (~crossed' => ~crossed /\ loads = {} /\ Creating = {})
  BY DEF Ask, Crosses
<1>2. CASE selected # NoThread
  <2>1. Start(t, selected) /\ pc[t] # "asked"
    BY <1>2 DEF Ask
  <2>2. TypeOK' /\ Begun' /\ Spinning' /\ Awake'
    BY <1>1, <1>2, <2>1, StartInv DEF Ask
  <2>3. ASSUME ~crossed'
        PROVE  Waiting' /\ ShownIsSelected'
    <3>1. Waiting'
      BY <1>1, <2>1, <2>3 DEF Ask, Start, Waiting, Creating
    <3>2. ShownIsSelected'
      <4> SUFFICES ASSUME NEW i \in DOMAIN turns'
                   PROVE  thread'[turns'[i]] = selected'
        BY <1>1, <2>3 DEF Ask, ShownIsSelected
      <4>1. thread' = [thread EXCEPT ![t] = selected] /\ selected' = selected
        BY <2>1 DEF Start, Ask
      <4>2. turns'[i] = t \/ (i \in DOMAIN turns /\ turns'[i] = turns[i] /\ turns[i] \in Turn)
        BY <2>1, Appended DEF Start
      <4> QED
        BY <1>1, <2>3, <4>1, <4>2 DEF ShownIsSelected
    <3> QED
      BY <3>1, <3>2
  <2> QED
    BY <2>2, <2>3
<1>3. CASE selected = NoThread
  <2>1. /\ pc' = [pc EXCEPT ![t] = "creating"] /\ pc[t] = "new"
        /\ UNCHANGED <<thread, turns, streaming, phase, late, retrievingTimer, streamRef,
                       selected, restored, loads, opened, generatingTimer, last, closed>>
    BY <1>3 DEF Ask, streams
  <2>2. TypeOK' /\ Begun'
    BY <1>1, <2>1 DEF Begun
  <2>3. Spinning' /\ Awake'
    BY <2>1 DEF Spinning, SpinnerHonest, Awake, Busy, Open, Over
  <2>4. ~crossed' => Waiting' /\ ShownIsSelected'
    BY <1>1, <1>3, <2>1 DEF Waiting, ShownIsSelected, Creating
  <2> QED
    BY <2>2, <2>3, <2>4
<1> QED
  BY <1>2, <1>3

\* Nothing of another thread is on the page when the new one is selected.
LEMMA CreatedInv ==
  ASSUME IInv, NEW t \in Turn, Created(t)
  PROVE  IInv'
<1> USE DEF IInv, TypeOK
<1>1. /\ Start(t, t) /\ pc[t] = "creating" /\ selected' = t
      /\ UNCHANGED <<restored, loads, opened, crossed, generatingTimer, streams>>
  BY DEF Created
<1>2. t \in Thread /\ t # NoThread
  BY PageAssumption DEF Thread
<1>3. TypeOK' /\ Begun' /\ Spinning' /\ Awake'
  BY <1>1, <1>2, StartInv
<1>4. ASSUME ~crossed'
      PROVE  Waiting' /\ ShownIsSelected'
  <2>1. Creating = {t} /\ selected = NoThread /\ loads = {} /\ ~crossed
    BY <1>1, <1>4 DEF Waiting, Creating
  <2>2. restored = NoThread /\ DOMAIN turns = {}
    <3>1. \A i \in DOMAIN turns : turns[i] \in ToSet(turns)
      BY DEF ToSet
    <3>2. \A i \in DOMAIN turns : thread[turns[i]] # NoThread
      BY <3>1 DEF Spinning, Begun
    <3> QED
      BY <2>1, <3>2 DEF ShownIsSelected
  <2>3. \A i \in DOMAIN turns' : turns'[i] = t
    BY <1>1, <2>2, Appended DEF Start
  <2>4. ShownIsSelected'
    BY <1>1, <2>2, <2>3 DEF ShownIsSelected, Start
  <2>5. Waiting'
    BY <1>1, <2>1 DEF Waiting, Creating, Start
  <2> QED
    BY <2>4, <2>5
<1> QED
  BY <1>3, <1>4

LEMMA CreateFailsInv ==
  ASSUME IInv, NEW t \in Turn, CreateFails(t)
  PROVE  IInv'
<1> USE DEF IInv, TypeOK, CreateFails, threads, timers, streams
<1>1. TypeOK' /\ Begun'
  BY DEF Begun
<1>2. Spinning' /\ Awake'
  BY DEF Spinning, SpinnerHonest, Awake, Busy, Open, Over
<1>3. ~crossed' => Waiting' /\ ShownIsSelected'
  BY DEF Waiting, ShownIsSelected, Creating
<1> QED
  BY <1>1, <1>2, <1>3

-----------------------------------------------------------------------------
\* An event is of an open stream; the last ones make the page ready.
LEMMA ReceiveInv ==
  ASSUME IInv, NEW t \in Turn, Receive(t)
  PROVE  IInv'
<1> USE DEF IInv, TypeOK
<1>1. /\ pc[t] = "asked" /\ t \notin closed
      /\ UNCHANGED <<pc, thread, selected, restored, turns, loads, opened, crossed,
                     streamRef, closed>>
      /\ \E event : last' = [last EXCEPT ![t] = event]
  BY DEF Receive, Open, threads, Stream!Send
<1>2. \/ OnMeta(t) \/ OnRefusal(t) \/ OnText(t) \/ OnDone(t) \/ OnError(t)
  BY DEF Receive
<1>3. late' \in BOOLEAN /\ streaming' \subseteq streaming
  BY <1>2 DEF OnMeta, OnRefusal, OnText, OnDone, OnError, Finished, Says
<1>4. /\ retrievingTimer' \subseteq retrievingTimer
      /\ generatingTimer' \subseteq generatingTimer \cup {t}
  BY <1>2 DEF OnMeta, OnRefusal, OnText, OnDone, OnError, timers
<1>5. TypeOK' /\ Begun'
  <2>1. TypeOK'
    BY <1>1, <1>3
  <2>2. Begun'
    BY <1>1, <1>3, <1>4 DEF Begun
  <2> QED
    BY <2>1, <2>2
<1>6. Spinning'
  <2>1. last'[t] \in {"done", "error", "lastError"} => t \notin streaming'
    BY <1>2 DEF OnMeta, OnRefusal, OnText, OnDone, OnError, Finished
  <2> QED
    BY <1>1, <1>3, <2>1 DEF Spinning, SpinnerHonest, Open
<1>7. Awake'
  <2>1. CASE OnMeta(t)
    BY <2>1 DEF OnMeta, Awake
  <2>2. CASE OnRefusal(t) \/ OnDone(t) \/ OnError(t)
    BY <2>2 DEF OnRefusal, OnDone, OnError, Finished, Says, Awake, Busy
  <2>3. CASE OnText(t)
    <3>1. last'[t] \notin {"done", "error", "lastError"}
      BY <2>3 DEF OnText
    <3> QED
      BY <1>1, <2>3, <3>1 DEF OnText, timers, Awake, Busy, Open, Over
  <2> QED
    BY <1>2, <2>1, <2>2, <2>3
<1>8. ~crossed' => Waiting' /\ ShownIsSelected'
  BY <1>1 DEF Waiting, ShownIsSelected, Creating
<1> QED
  BY <1>5, <1>6, <1>7, <1>8

LEMMA ClosesInv ==
  ASSUME IInv, NEW t \in Turn, EndOfStream(t) \/ Fail(t)
  PROVE  IInv'
<1> USE DEF IInv, TypeOK
<1>1. /\ pc[t] = "asked" /\ t \notin closed /\ closed' = closed \cup {t}
      /\ UNCHANGED <<pc, thread, selected, restored, turns, loads, opened, crossed,
                     streamRef, last, retrievingTimer, generatingTimer>>
  BY DEF EndOfStream, Fail, Open, threads, timers
<1>2. late' \in BOOLEAN /\ streaming' \subseteq streaming /\ t \notin streaming'
  BY DEF EndOfStream, Fail, Finished, Says, Spinning
<1>3. TypeOK' /\ Begun'
  BY <1>1, <1>2 DEF Begun
<1>4. Spinning'
  BY <1>1, <1>2 DEF Spinning, SpinnerHonest, Open
<1>5. Awake'
  <2>1. CASE Fail(t)
    BY <2>1 DEF Fail, Finished, Says, Awake, Busy
  <2>2. CASE EndOfStream(t)
    <3>1. UNCHANGED <<phase, late>> /\ last[t] \in {"done", "error", "lastError"}
      BY <2>2 DEF EndOfStream
    <3> QED
      BY <1>1, <3>1 DEF Awake, Busy, Open, Over
  <2> QED
    BY <2>1, <2>2
<1>6. ~crossed' => Waiting' /\ ShownIsSelected'
  BY <1>1 DEF Waiting, ShownIsSelected, Creating
<1> QED
  BY <1>3, <1>4, <1>5, <1>6

\* A timer makes the page busy: its own stream is still open, or it is late.
LEMMA TimerInv ==
  ASSUME IInv, NEW t \in Turn, Retrieving(t) \/ Generating(t)
  PROVE  IInv'
<1> USE DEF IInv, TypeOK
<1>1. /\ t \in retrievingTimer \cup generatingTimer /\ late' = Over(t)
      /\ retrievingTimer' \subseteq retrievingTimer
      /\ generatingTimer' \subseteq generatingTimer
      /\ UNCHANGED <<pc, thread, selected, restored, turns, loads, opened, crossed,
                     streaming, streamRef, last, closed>>
  BY DEF Retrieving, Generating, threads, streams
<1>2. late' \in BOOLEAN
  BY <1>1 DEF Over
<1>3. TypeOK' /\ Begun'
  BY <1>1, <1>2 DEF Begun
<1>4. Spinning'
  BY <1>1 DEF Spinning, SpinnerHonest, Open
<1>5. Awake'
  <2>1. pc[t] = "asked"
    BY <1>1 DEF Begun
  <2>2. ~late' => t \in Open' /\ ~Over(t)'
    BY <1>1, <2>1 DEF Open, Over
  <2> QED
    BY <2>2 DEF Awake
<1>6. ~crossed' => Waiting' /\ ShownIsSelected'
  BY <1>1 DEF Waiting, ShownIsSelected, Creating
<1> QED
  BY <1>3, <1>4, <1>5, <1>6

-----------------------------------------------------------------------------
\* Stop closes the stream of the last turn, whose spinner it takes away.
LEMMA StopInv ==
  ASSUME IInv, Stop
  PROVE  IInv'
<1> USE DEF IInv, TypeOK
<1>1. /\ closed' = closed \cup streamRef
      /\ streaming' \subseteq streaming
      /\ turns # <<>> => streaming' = streaming \ {Last(turns)}
      /\ phase' = "done" /\ late' = FALSE
      /\ UNCHANGED <<pc, thread, selected, restored, turns, loads, opened, crossed,
                     retrievingTimer, generatingTimer, streamRef, last>>
  BY DEF Stop, Says, threads, timers
<1>2. TypeOK'
  BY <1>1
<1>3. Begun'
  BY <1>1 DEF Begun, Spinning
<1>4. Spinning'
  <2>1. turns = <<>> => ToSet(turns) = {}
    BY DEF ToSet
  <2> QED
    BY <1>1, <2>1 DEF Spinning, SpinnerHonest, Open
<1>5. Awake'
  BY <1>1 DEF Awake, Busy
<1>6. ~crossed' => Waiting' /\ ShownIsSelected'
  BY <1>1 DEF Waiting, ShownIsSelected, Creating
<1> QED
  BY <1>2, <1>3, <1>4, <1>5, <1>6

\* The page is emptied, by the user or by the turns of a thread that was loaded.
LEMMA ClearedInv ==
  ASSUME IInv, NewThread \/ \E c \in Old : Loaded(c)
  PROVE  IInv'
<1> USE DEF IInv, TypeOK
<1>1. /\ turns' = <<>> /\ loads' \subseteq loads
      /\ phase' \in {"idle", "done"} /\ late' = FALSE
      /\ UNCHANGED <<pc, thread, opened, streaming, retrievingTimer, generatingTimer,
                     streamRef, last, closed>>
  BY DEF NewThread, Loaded, Cleared, Says, timers, streams
<1>2. ToSet(turns') = {} /\ turns' \in Seq(Turn) /\ DOMAIN turns' = {}
  BY <1>1 DEF ToSet
<1>3. selected' \in Thread /\ crossed' \in BOOLEAN
  BY DEF NewThread, Loaded, Crosses, Thread
<1>4. TypeOK'
  BY <1>1, <1>2, <1>3
<1>5. Begun'
  BY <1>1 DEF Begun
<1>6. Spinning'
  BY <1>1, <1>2 DEF Spinning, SpinnerHonest
<1>7. Awake'
  BY <1>1 DEF Awake, Busy
<1>8. ASSUME ~crossed'
      PROVE  Waiting' /\ ShownIsSelected'
  <2>1. CASE NewThread
    <3>1. loads' = {} /\ Creating' = {} /\ restored' = NoThread
      BY <1>1, <1>8, <2>1 DEF NewThread, Crosses, Creating
    <3> QED
      BY <1>2, <3>1 DEF Waiting, ShownIsSelected
  <2>2. ASSUME NEW c \in Old, Loaded(c)
        PROVE  Waiting' /\ ShownIsSelected'
    <3>1. loads = {selected} /\ Creating = {} /\ c = selected
      BY <1>8, <2>2 DEF Loaded, Waiting
    <3>2. loads' = {} /\ Creating' = {} /\ restored' = selected'
      BY <1>1, <2>2, <3>1 DEF Loaded, Creating
    <3> QED
      BY <1>2, <3>2 DEF Waiting, ShownIsSelected
  <2> QED
    BY <2>1, <2>2
<1> QED
  BY <1>4, <1>5, <1>6, <1>7, <1>8

LEMMA OpenThreadInv ==
  ASSUME IInv, NEW c \in Old, OpenThread(c)
  PROVE  IInv'
<1> USE DEF IInv, TypeOK
<1>1. /\ selected' = c /\ loads' = loads \cup {c}
      /\ UNCHANGED <<pc, thread, restored, turns, streaming, phase, late, retrievingTimer,
                     generatingTimer, streamRef, last, closed>>
  BY DEF OpenThread, timers, streams
<1>2. crossed' \in BOOLEAN /\ (~crossed' => loads = {} /\ Creating = {})
  BY DEF OpenThread, Crosses
<1>3. TypeOK' /\ Begun'
  BY <1>1, <1>2 DEF Begun, Thread
<1>4. Spinning' /\ Awake'
  BY <1>1 DEF Spinning, SpinnerHonest, Awake, Busy, Open, Over
<1>5. ~crossed' => Waiting' /\ ShownIsSelected'
  BY <1>1, <1>2 DEF Waiting, ShownIsSelected, Creating
<1> QED
  BY <1>3, <1>4, <1>5

LEMMA LoadFailsInv ==
  ASSUME IInv, NEW c \in Old, LoadFails(c)
  PROVE  IInv'
<1> USE DEF IInv, TypeOK, LoadFails, timers, streams
<1>1. TypeOK' /\ Begun'
  BY DEF Begun
<1>2. Spinning' /\ Awake'
  BY DEF Spinning, SpinnerHonest, Awake, Busy, Open, Over
<1> QED
  BY <1>1, <1>2

-----------------------------------------------------------------------------
LEMMA StepInv == IInv /\ [Next]_vars => IInv'
<1> SUFFICES ASSUME IInv, [Next]_vars
             PROVE  IInv'
  OBVIOUS
<1>1. CASE User
  BY <1>1, AskInv, StopInv, ClearedInv, OpenThreadInv DEF User
<1>2. CASE Callback
  BY <1>2, CreatedInv, CreateFailsInv, ReceiveInv, ClosesInv, TimerInv, ClearedInv,
     LoadFailsInv DEF Callback
<1>3. CASE UNCHANGED vars
  BY <1>3 DEF vars, threads, timers, streams, IInv, TypeOK, Begun, Spinning, SpinnerHonest,
              Awake, Busy, Waiting, Creating, ShownIsSelected, Open, Over
<1> QED
  BY <1>1, <1>2, <1>3 DEF Next

THEOREM Inductive == Spec => []IInv
  BY InitInv, StepInv, PTL DEF Spec

\* Unless the user goes on while a load or a creation is under way, or a load
\* fails, the page shows the thread that is selected and no other.
THEOREM PageShowsSelected == Spec => []ShownIsSelected
<1>1. IInv => ShownIsSelected
  BY DEF IInv, ShownIsSelected
<1> QED
  BY Inductive, <1>1, PTL

\* When every stream has ended and no timer is left, the page takes a question,
\* unless a timer came late.
THEOREM PageBecomesReady == Spec => []ReadyWhenQuiet
<1>1. IInv => ReadyWhenQuiet
  BY DEF IInv, TypeOK, Awake, ReadyWhenQuiet
<1> QED
  BY Inductive, <1>1, PTL

\* A turn on the page is shown as streaming only while its stream is open.
THEOREM SpinnersAreHonest == Spec => []SpinnerHonest
<1>1. IInv => SpinnerHonest
  BY DEF IInv, Spinning
<1> QED
  BY Inductive, <1>1, PTL
=============================================================================
