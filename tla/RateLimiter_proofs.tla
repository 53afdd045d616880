------------------------- MODULE RateLimiter_proofs -------------------------
(***************************************************************************)
(* The sliding window of check_rate_limit, for any number of calls, any    *)
(* limit, window and delay: an orderly window lets no more than Limit      *)
(* calls through, and a call is turned away only by a full one.            *)
(***************************************************************************)
EXTENDS RateLimiter, FiniteSetTheorems, TLAPS

USE DEF vars

-----------------------------------------------------------------------------
(* The inductive invariant. *)

\* No clock reading lies ahead.
StampPast == \A c \in Call : stamp[c] <= now

\* The key outlives the windows of all it holds.
Outlives == \A d \in zset : expires >= stamp[d] + Window + Slack

\* A call that Redis has counted is in the set, unless a call a window fresher
\* pruned it or the key expired a window and Slack after it.
Kept ==
    \A d \in Counted :
        \/ d \in zset
        \/ \E e \in Counted : stamp[e] >= stamp[d] + Window
        \/ now >= stamp[d] + Window + Slack

WindowInv == TypeOK /\ zset \subseteq Counted /\ StampPast /\ Outlives /\ Kept

LEMMA InitWindow == Init => WindowInv /\ OrderlyWindow
<1> SUFFICES ASSUME Init PROVE WindowInv /\ OrderlyWindow
  OBVIOUS
<1>1. WindowInv
  BY LimiterAssumption
  DEF Init, WindowInv, TypeOK, Time, Place, Counted, StampPast, Outlives, Kept
<1>2. \A t \in Time : Admitted(t) = {}
  BY DEF Init, Admitted, InWindow
<1>3. Cardinality({}) = 0
  BY FS_EmptySet
<1> QED
  BY <1>1, <1>2, <1>3, LimiterAssumption DEF OrderlyWindow

\* What a transaction leaves behind, whatever its call then answers.
LEMMA TransactKeeps ==
    ASSUME WindowInv, NEW c \in Call, NEW place \in {"admitted", "rejected", "resent"},
           pc[c] \in {"stamped", "resent"}, Transact(c), pc' = [pc EXCEPT ![c] = place]
    PROVE  /\ WindowInv'
           /\ Counted' = Counted \cup {c}
           /\ straggled \subseteq straggled'
<1> USE LimiterAssumption DEF WindowInv, TypeOK
<1>1. Counted' = Counted \cup {c}
  BY DEF Counted
<1>2. straggled \subseteq straggled' /\ straggled' \subseteq Call
  BY DEF Transact
<1>3. TypeOK'
  BY <1>2 DEF Transact, Unpruned, Lifetime, Place, Time
<1>4. zset' \subseteq Counted'
  BY <1>1 DEF Transact, Unpruned
<1>5. StampPast'
  BY DEF Transact, StampPast
<1>6. Outlives'
  BY DEF Transact, Unpruned, Lifetime, StampPast, Outlives, Time
<1>7. Kept'
  <2> SUFFICES ASSUME NEW d \in Counted', d \notin zset'
               PROVE  \/ \E e \in Counted' : stamp[e] >= stamp[d] + Window
                      \/ now >= stamp[d] + Window + Slack
    BY DEF Kept, Transact
  <2>1. d \in Counted
    BY <1>1 DEF Transact
  <2>2. CASE d \in zset
    <3>1. stamp[c] >= stamp[d] + Window
      BY <2>2 DEF Transact, Unpruned
    <3> QED
      BY <1>1, <3>1
  <2>3. CASE d \notin zset
    BY <1>1, <2>1, <2>3 DEF Kept
  <2> QED
    BY <2>2, <2>3
<1> QED
  BY <1>1, <1>2, <1>3, <1>4, <1>5, <1>6, <1>7

\* Whatever else happens keeps the invariant, forgets no straggler, and lets
\* nobody through.
Unadmitting ==
    /\ WindowInv'
    /\ straggled \subseteq straggled'
    /\ \A t \in Time : InWindow(t) \subseteq InWindow(t)' /\ Admitted(t)' = Admitted(t)

LEMMA OtherKeeps ==
    ASSUME WindowInv, [Next]_vars, \A c \in Call : ~ Check(c)
    PROVE  Unadmitting
<1> USE LimiterAssumption DEF WindowInv, TypeOK
<1>1. ASSUME NEW c \in Call, ReadClock(c) PROVE Unadmitting
  <2>1. Counted' = Counted /\ c \notin Counted
    BY <1>1 DEF ReadClock, Counted
  <2>2. \A d \in Call \ {c} : pc'[d] = pc[d] /\ stamp'[d] = stamp[d]
    BY <1>1 DEF ReadClock
  <2>3. pc[c] = "new" /\ pc'[c] = "stamped" /\ stamp'[c] = now
    BY <1>1 DEF ReadClock
  <2>4. TypeOK'
    BY <1>1 DEF ReadClock, Place, Time
  <2>5. WindowInv'
    BY <1>1, <2>1, <2>2, <2>3, <2>4 DEF ReadClock, StampPast, Outlives, Kept, Time, Counted
  <2>6. \A t \in Time : InWindow(t) \subseteq InWindow(t)' /\ Admitted(t)' = Admitted(t)
    BY <2>2, <2>3 DEF InWindow, Admitted
  <2> QED
    BY <1>1, <2>5, <2>6 DEF ReadClock, Unadmitting
<1>2. ASSUME NEW c \in Call, CheckUnheard(c) PROVE Unadmitting
  <2>1. WindowInv' /\ straggled \subseteq straggled'
    BY <1>2, TransactKeeps DEF CheckUnheard
  <2>2. \A t \in Time : InWindow(t)' = InWindow(t) /\ Admitted(t)' = Admitted(t)
    BY <1>2 DEF CheckUnheard, Transact, InWindow, Admitted
  <2> QED
    BY <2>1, <2>2 DEF Unadmitting
<1>3. ASSUME NEW c \in Call, FailOpen(c) PROVE Unadmitting
  <2>1. Counted' = Counted
    BY <1>3 DEF FailOpen, Counted
  <2>2. WindowInv'
    BY <1>3, <2>1 DEF FailOpen, StampPast, Outlives, Kept, Place, Time
  <2>3. \A t \in Time : InWindow(t)' = InWindow(t) /\ Admitted(t)' = Admitted(t)
    BY <1>3 DEF FailOpen, InWindow, Admitted
  <2> QED
    BY <1>3, <2>2, <2>3 DEF FailOpen, Unadmitting
<1>4. CASE Tick
  <2>1. now' = now + 1 /\ now \in Nat /\ now' \in Time
    BY <1>4 DEF Tick, Time
  <2>2. \A t \in Time : InWindow(t)' = InWindow(t) /\ Admitted(t)' = Admitted(t)
    BY <1>4 DEF Tick, InWindow, Admitted
  <2>3. Counted' = Counted
    BY <1>4 DEF Tick, Counted
  <2>4. Kept'
    BY <1>4, <2>1, <2>3 DEF Tick, Kept, Outlives, Counted
  <2>5. TypeOK' /\ zset' \subseteq Counted' /\ StampPast' /\ Outlives'
    BY <1>4, <2>1, <2>3 DEF Tick, StampPast, Outlives
  <2> QED
    BY <1>4, <2>2, <2>4, <2>5 DEF Tick, Unadmitting
<1>5. CASE UNCHANGED vars
  BY <1>5 DEF Unadmitting, InWindow, Admitted, Counted, StampPast, Outlives, Kept, Time
<1> QED
  BY <1>1, <1>2, <1>3, <1>4, <1>5 DEF Next

-----------------------------------------------------------------------------
(* The window. *)

\* A call that is let through an orderly window finds in the set every call let
\* through before it: none of them was pruned by a fresher call, since then this
\* one came behind it, and none went with the key, since then this one came late.
LEMMA SeesAdmitted ==
    ASSUME WindowInv, NEW c \in Call, NEW t \in Time,
           pc[c] \in {"stamped", "resent"}, Transact(c),
           stamp[c] <= t, t - Window < stamp[c], c \notin straggled'
    PROVE  Admitted(t) \subseteq Unpruned(c)
<1> USE LimiterAssumption DEF WindowInv, TypeOK, Time
<1>1. now <= stamp[c] + Slack /\ \A e \in Counted : stamp[e] <= stamp[c]
  BY DEF Transact, Counted
<1> SUFFICES ASSUME NEW d \in Admitted(t) PROVE d \in Unpruned(c)
  OBVIOUS
<1>2. d \in Counted /\ t - Window < stamp[d] /\ d \in Call
  BY DEF Admitted, InWindow, Counted
<1>3. stamp[d] > stamp[c] - Window
  BY <1>2
<1>4. ~ \E e \in Counted : stamp[e] >= stamp[d] + Window
  BY <1>1, <1>3, <1>2 DEF Counted
<1>5. now < stamp[d] + Window + Slack
  BY <1>1, <1>3, <1>2
<1>6. d \in zset
  BY <1>2, <1>4, <1>5 DEF Kept
<1> QED
  BY <1>3, <1>6 DEF Unpruned

LEMMA NextWindow ==
    ASSUME WindowInv, OrderlyWindow, [Next]_vars
    PROVE  WindowInv' /\ OrderlyWindow'
<1> USE LimiterAssumption
<1>1. CASE \A c \in Call : ~ Check(c)
  <2>1. Unadmitting
    BY <1>1, OtherKeeps
  <2> QED
    BY <2>1 DEF Unadmitting, OrderlyWindow
<1>2. ASSUME NEW c \in Call, Check(c) PROVE WindowInv' /\ OrderlyWindow'
  <2>1. WindowInv' /\ straggled \subseteq straggled'
    BY <1>2, TransactKeeps DEF Check
  <2> SUFFICES ASSUME NEW t \in Time, InWindow(t)' \cap straggled' = {}
               PROVE  Cardinality(Admitted(t)') <= Limit
    BY <2>1 DEF OrderlyWindow
  <2>2. InWindow(t)' = InWindow(t)
    BY <1>2 DEF Check, Transact, InWindow, WindowInv, TypeOK
  <2>3. Cardinality(Admitted(t)) <= Limit
    BY <2>1, <2>2 DEF OrderlyWindow
  <2>4. CASE Admitted(t)' = Admitted(t)
    BY <2>3, <2>4
  <2>5. CASE Admitted(t)' # Admitted(t)
    <3>1. /\ pc'[c] = "admitted" /\ c \in InWindow(t)
          /\ Admitted(t)' = Admitted(t) \cup {c}
      BY <1>2, <2>2, <2>5 DEF Check, Transact, Admitted, InWindow, WindowInv, TypeOK
    <3>2. Cardinality(Unpruned(c)) < Limit
      <4>1. ~ Exceeds(Cardinality(Unpruned(c)))
        BY <1>2, <3>1 DEF Check, WindowInv, TypeOK
      <4>2. Cardinality(Unpruned(c)) \in Nat
        BY FS_CardinalityType, FS_Subset DEF Unpruned, WindowInv, TypeOK
      <4> QED
        BY <4>1, <4>2 DEF Exceeds
    <3>3. Admitted(t) \subseteq Unpruned(c)
      BY <1>2, <2>2, <3>1, SeesAdmitted DEF Check, InWindow, Time
    <3>4. IsFiniteSet(Unpruned(c)) /\ IsFiniteSet(Admitted(t))
      BY FS_Subset DEF Unpruned, Admitted, InWindow, WindowInv, TypeOK
    <3>5. Cardinality(Admitted(t)) <= Cardinality(Unpruned(c))
      BY <3>3, <3>4, FS_Subset
    <3>6. Cardinality(Admitted(t)) \in Nat /\ Cardinality(Unpruned(c)) \in Nat
      BY <3>4, FS_CardinalityType
    <3>7. Cardinality(Admitted(t) \cup {c}) \in
              {Cardinality(Admitted(t)), Cardinality(Admitted(t)) + 1}
      BY <3>4, FS_AddElement
    <3> QED
      BY <3>1, <3>2, <3>5, <3>6, <3>7, LimiterAssumption
  <2> QED
    BY <2>4, <2>5
<1> QED
  BY <1>1, <1>2

LEMMA AlwaysWindow == Spec => [](WindowInv /\ OrderlyWindow)
<1>1. WindowInv /\ OrderlyWindow /\ [Next]_vars => (WindowInv /\ OrderlyWindow)'
  BY NextWindow
<1> QED
  BY InitWindow, <1>1, PTL DEF Spec

\* No window of calls that reached Redis in the order of their clock readings,
\* and in time, lets more than `limit' calls through (rate_limit.py, 43-55).
THEOREM WindowIsKept == Spec => []OrderlyWindow
BY AlwaysWindow, PTL

\* A call is turned away only when Redis counted `limit' calls in its window,
\* itself among them if it was sent twice.
THEOREM RejectionsAreDue == Spec => RejectsOnlyFullWindows
<1>1. ASSUME WindowInv, [Next]_vars,
             NEW c \in Call, pc[c] # "rejected", pc'[c] = "rejected"
      PROVE  Cardinality({d \in Counted : stamp[d] > stamp[c] - Window}) >= Limit
  <2> DEFINE Counts == {d \in Counted : stamp[d] > stamp[c] - Window}
  <2> USE LimiterAssumption DEF WindowInv, TypeOK
  <2>1. Check(c)
    BY <1>1 DEF Next, ReadClock, Check, CheckUnheard, FailOpen, Tick
  <2>2. Cardinality(Unpruned(c)) >= Limit
    BY <1>1, <2>1 DEF Check, Exceeds
  <2>3. Unpruned(c) \subseteq Counts /\ Counts \subseteq Call
    BY <1>1 DEF Unpruned, Counted
  <2>4. /\ Cardinality(Unpruned(c)) <= Cardinality(Counts)
        /\ Cardinality(Unpruned(c)) \in Nat /\ Cardinality(Counts) \in Nat
    BY <2>3, FS_Subset, FS_CardinalityType
  <2> QED
    BY <2>2, <2>4
<1>2. WindowInv /\ [Next]_vars =>
          [\A c \in Call : pc[c] # "rejected" /\ pc'[c] = "rejected" =>
              Cardinality({d \in Counted : stamp[d] > stamp[c] - Window}) >= Limit]_vars
  BY <1>1
<1> QED
  BY AlwaysWindow, <1>2, PTL DEF Spec, RejectsOnlyFullWindows
=============================================================================
