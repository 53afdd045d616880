------------------------ MODULE IngestQueue_proofs ------------------------
(* Theorems about IngestQueue, for every set of workers and jobs. *)
EXTENDS IngestQueue, SequenceTheorems, FiniteSetTheorems, TLAPS

USE DEF vars, queueVars, rowVars, workerVars

-----------------------------------------------------------------------------
(* What a worker has in hand, without which the types are not inductive. *)

Holding == {"reclaim", "popped", "guard", "begin", "run", "abandon", "ack", "failed", "backoff"}

\* A worker past its claim has an entry, and backs off only to retry it.
HandsFull ==
    \A w \in Worker :
        /\ pc[w] \in Holding => held[w] \in Raw
        /\ pc[w] = "backoff" => MayRetry(held[w])

TypeInv == TypeOK /\ HandsFull

LEMMA NextRawType ==
    ASSUME NEW r \in Raw, MayRetry(r)
    PROVE  NextRaw(r) \in Raw /\ NextRaw(r).job = r.job
BY QueueAssumption DEF Raw, NextRaw, MayRetry

LEMMA InitTypes == Init => TypeInv
BY QueueAssumption
DEF Init, TypeInv, TypeOK, HandsFull, Holding, Nothing, Age, RowState, Place, NoRow

\* The commands of the reliable queue keep the types of its three structures.
LEMMA QueueTypes ==
    ASSUME TypeOK, NEW r \in Raw
    PROVE  /\ Push(r) => pending' \in Seq(Raw)
           /\ Lrem(r) => processing' \in [Raw -> Nat]
           /\ EnterProcessing(r) => processing' \in [Raw -> Nat]
           /\ Hdel(r) => heartbeat' \in [Raw -> Age]
           /\ pending # <<>> => Head(pending) \in Raw /\ Tail(pending) \in Seq(Raw)
<1>1. Push(r) => pending' \in Seq(Raw)
  BY AppendProperties DEF Push, TypeOK
<1>2. Lrem(r) => processing' \in [Raw -> Nat]
  BY DEF Lrem, TypeOK
<1>3. EnterProcessing(r) => processing' \in [Raw -> Nat]
  BY DEF EnterProcessing, TypeOK
<1>4. Hdel(r) => heartbeat' \in [Raw -> Age]
  BY DEF Hdel, TypeOK, Age
<1>5. pending # <<>> => Head(pending) \in Raw /\ Tail(pending) \in Seq(Raw)
  BY HeadTailProperties DEF TypeOK
<1> QED
  BY <1>1, <1>2, <1>3, <1>4, <1>5

LEMMA RequestTypes ==
    ASSUME TypeInv, NEW j \in Job, Enqueue(j) \/ CloseRequest(j) \/ ResendEnqueue(j)
    PROVE  TypeInv'
<1>1. FirstRaw(j) \in Raw
  BY QueueAssumption DEF FirstRaw, Raw
<1>2. CASE Enqueue(j)
  <2>1. pending' \in Seq(Raw)
    BY <1>1, <1>2, QueueTypes DEF Enqueue, TypeInv
  <2> QED
    BY <1>2, <2>1 DEF Enqueue, TypeInv, TypeOK, HandsFull, RowState
<1>3. CASE CloseRequest(j)
  BY <1>3 DEF CloseRequest, TypeInv, TypeOK, HandsFull, RowState
<1>4. CASE ResendEnqueue(j)
  <2>1. pending' \in Seq(Raw)
    BY <1>1, <1>4, QueueTypes DEF ResendEnqueue, TypeInv
  <2>2. faults' \in Nat
    BY <1>4 DEF ResendEnqueue, Charge, TypeInv, TypeOK
  <2>3. UNCHANGED <<processing, heartbeat, rowVars, workerVars, settled>>
    BY <1>4 DEF ResendEnqueue
  <2> QED
    BY <2>1, <2>2, <2>3 DEF TypeInv, TypeOK, HandsFull, rowVars, workerVars
<1> QED
  BY <1>2, <1>3, <1>4

LEMMA DeleteTypes ==
    ASSUME TypeInv, NEW gone \in SUBSET Job, DeleteRows(gone)
    PROVE  TypeInv'
BY DEF DeleteRows, TypeInv, TypeOK, HandsFull, RowState

LEMMA ExpireTypes ==
    ASSUME TypeInv, NEW r \in Raw, Expire(r)
    PROVE  TypeInv'
BY DEF Expire, TypeInv, TypeOK, HandsFull, Age

LEMMA ReapTypes ==
    ASSUME TypeInv, NEW w \in Worker, ReapStep(w)
    PROVE  TypeInv'
<1> USE DEF TypeInv, HandsFull, Holding
<1>1. CASE StartReap(w)
  BY <1>1 DEF StartReap, Goto, TypeOK, Place
<1>2. CASE Reclaim(w)
  <2>1. held[w] \in Raw
    BY <1>2 DEF Reclaim
  <2>2. pending' \in Seq(Raw) /\ processing' \in [Raw -> Nat] /\ heartbeat' \in [Raw -> Age]
    BY <1>2, <2>1, QueueTypes DEF Reclaim, ReturnToPending
  <2> QED
    BY <1>2, <2>2 DEF Reclaim, Goto, TypeOK, Place
<1>3. CASE FinishReap(w)
  BY <1>3 DEF FinishReap, Goto, TypeOK, Place
<1>4. ASSUME NEW r \in Raw, InspectHeartbeat(w, r)
      PROVE  TypeInv'
  <2>1. scan' \in [Worker -> [Raw -> Nat]]
    BY <1>4 DEF InspectHeartbeat, TypeOK
  <2>2. /\ UNCHANGED <<queueVars, rowVars, loaded, settled, faults>>
        /\ pc[w] = "reaping"
        /\ \/ UNCHANGED <<pc, held>>
           \/ /\ pc' = [pc EXCEPT ![w] = "reclaim"]
              /\ held' = [held EXCEPT ![w] = r]
    BY <1>4 DEF InspectHeartbeat, Goto
  <2>3. pc' \in [Worker -> Place] /\ held' \in [Worker -> Raw \cup {NoRaw}]
    BY <2>2 DEF TypeOK, Place
  <2>4. TypeOK'
    BY <2>1, <2>2, <2>3 DEF TypeOK
  <2>5. HandsFull'
    <3>1. CASE UNCHANGED <<pc, held>>
      BY <2>2, <3>1 DEF HandsFull, Holding
    <3>2. CASE /\ pc' = [pc EXCEPT ![w] = "reclaim"]
               /\ held' = [held EXCEPT ![w] = r]
      <4>1. pc'[w] = "reclaim" /\ held'[w] = r
        BY <3>2 DEF TypeOK
      <4>2. \A v \in Worker \ {w} : pc'[v] = pc[v] /\ held'[v] = held[v]
        BY <3>2 DEF TypeOK
      <4> QED
        BY <2>2, <4>1, <4>2 DEF HandsFull, Holding
    <3> QED
      BY <2>2, <3>1, <3>2
  <2> QED
    BY <2>4, <2>5 DEF TypeInv
<1> QED
  BY <1>1, <1>2, <1>3, <1>4 DEF ReapStep

LEMMA NextIterationTypes ==
    ASSUME TypeInv, NEW w \in Worker, NextIteration(w)
    PROVE  /\ pc' \in [Worker -> Place]
           /\ held' \in [Worker -> Raw \cup {NoRaw}]
           /\ scan' \in [Worker -> [Raw -> Nat]]
           /\ loaded' \in [Worker -> Nat \cup {NoRow}]
           /\ HandsFull'
BY DEF NextIteration, Goto, TypeInv, TypeOK, HandsFull, Holding, Place

\* acknowledge, and what the loop does next
LEMMA AckTypes ==
    ASSUME TypeInv, NEW w \in Worker, held[w] \in Raw, Lrem(held[w]), Hdel(held[w])
    PROVE  /\ processing' \in [Raw -> Nat]
           /\ heartbeat' \in [Raw -> Age]
           /\ JobOf(w) \in Job
BY QueueTypes DEF TypeInv, JobOf, Raw

LEMMA ClaimTypes ==
    ASSUME TypeInv, NEW w \in Worker, Pop(w) \/ ClaimNothing(w) \/ Beat(w)
    PROVE  TypeInv'
<1> USE DEF TypeInv, HandsFull, Holding
<1>1. CASE Pop(w)
  <2>1. Head(pending) \in Raw /\ pending' \in Seq(Raw)
    BY <1>1, HeadTailProperties DEF Pop, TypeOK
  <2>2. processing' \in [Raw -> Nat]
    BY <1>1, <2>1, QueueTypes DEF Pop
  <2> QED
    BY <1>1, <2>1, <2>2 DEF Pop, Goto, TypeOK, Place
<1>2. CASE ClaimNothing(w)
  BY <1>2 DEF ClaimNothing, Goto, TypeOK, Place
<1>3. CASE Beat(w)
  BY <1>3 DEF Beat, Goto, TypeOK, Place, Age
<1> QED
  BY <1>1, <1>2, <1>3
LEMMA RunTypes ==
    ASSUME TypeInv, NEW w \in Worker,
           \/ Guard(w) \/ Abandon(w) \/ BeginCounted(w) \/ BeginUncounted(w)
           \/ RunFails(w) \/ RunSucceeds(w)
    PROVE  TypeInv'
<1> USE DEF TypeInv, HandsFull, Holding
<1>1. pc[w] \in Holding => JobOf(w) \in Job
  BY DEF JobOf, Raw, TypeOK
<1>2. CASE Guard(w)
  <2>1. loaded' \in [Worker -> Nat \cup {NoRow}]
    BY <1>1, <1>2 DEF Guard, TypeOK, NoRow
  <2> QED
    BY <1>2, <2>1 DEF Guard, Goto, TypeOK, Place
<1>3. CASE Abandon(w)
  BY <1>3 DEF Abandon, Goto, TypeOK, Place
<1>4. CASE BeginCounted(w)
  <2>1. attempts' \in [Job -> Nat]
    BY <1>1, <1>4 DEF BeginCounted, TypeOK, NoRow
  <2> QED
    BY <1>4, <2>1 DEF BeginCounted, Goto, TypeOK, Place
<1>5. CASE BeginUncounted(w)
  BY <1>5 DEF BeginUncounted, Goto, TypeOK, Place
<1>6. CASE RunFails(w)
  BY <1>6 DEF RunFails, Goto, TypeOK, Place
<1>7. CASE RunSucceeds(w)
  BY <1>7 DEF RunSucceeds, Goto, TypeOK, Place
<1> QED
  BY <1>2, <1>3, <1>4, <1>5, <1>6, <1>7

LEMMA EndTypes ==
    ASSUME TypeInv, NEW w \in Worker,
           Ack(w) \/ AckAndBackOff(w) \/ PushRetry(w) \/ GiveUp(w)
    PROVE  TypeInv'
<1>1. held[w] \in Raw
  BY DEF Ack, AckAndBackOff, PushRetry, GiveUp, TypeInv, HandsFull, Holding
<1>2. CASE Ack(w)
  BY <1>1, <1>2, AckTypes, NextIterationTypes DEF Ack, TypeInv, TypeOK
<1>3. CASE GiveUp(w)
  BY <1>1, <1>3, AckTypes, NextIterationTypes DEF GiveUp, TypeInv, TypeOK
<1>4. CASE AckAndBackOff(w)
  BY <1>1, <1>4, AckTypes
  DEF AckAndBackOff, Goto, TypeInv, TypeOK, HandsFull, Holding, Place
<1>5. CASE PushRetry(w)
  <2>1. NextRaw(held[w]) \in Raw
    BY <1>1, <1>5, NextRawType DEF PushRetry, TypeInv, HandsFull
  <2>2. pending' \in Seq(Raw)
    BY <1>5, <2>1, QueueTypes DEF PushRetry, TypeInv
  <2> QED
    BY <1>5, <2>2, NextIterationTypes DEF PushRetry, TypeInv, TypeOK
<1> QED
  BY <1>2, <1>3, <1>4, <1>5

LEMMA DiesTypes ==
    ASSUME TypeInv, NEW w \in Worker, Dies(w), faults' \in Nat
    PROVE  TypeInv'
BY DEF Dies, Goto, TypeInv, TypeOK, HandsFull, Holding, Place, Nothing, NoRow

LEMMA FaultTypes ==
    ASSUME TypeInv, NEW w \in Worker, FaultStep(w)
    PROVE  TypeInv'
<1> USE DEF TypeInv
<1>1. \A kind : Charge(kind) => faults' \in Nat
  BY DEF Charge, TypeOK
<1>2. CASE ReapFails(w)
  BY <1>1, <1>2 DEF ReapFails, Goto, TypeOK, HandsFull, Holding, Place, Nothing
<1>3. CASE ClaimFails(w)
  BY <1>1, <1>3, NextIterationTypes DEF ClaimFails, TypeOK
<1>4. CASE AckFails(w)
  <2>1. held[w] \in Raw
    BY <1>4 DEF AckFails, HandsFull, Holding
  <2>2. /\ processing' \in [Raw -> Nat] /\ heartbeat' \in [Raw -> Age]
        /\ pending' \in Seq(Raw) /\ settled' \subseteq Job
    BY <1>4, <2>1, AckTypes DEF AckFails, TypeOK
  <2> QED
    BY <1>1, <1>4, <2>1, <2>2 DEF AckFails, Goto, TypeOK, HandsFull, Holding, Place
<1>5. CASE Stop(w)
  BY <1>5, DiesTypes DEF Stop, TypeOK
<1>6. CASE RunCrash(w)
  BY <1>6, DiesTypes DEF RunCrash, TypeOK
<1>7. CASE Crash(w)
  BY <1>1, <1>7, DiesTypes DEF Crash
<1>8. CASE Resend(w)
  <2>1. held[w] \in Raw
    BY <1>8 DEF Resend, HandsFull, Holding
  <2>2. pc[w] = "backoff" => NextRaw(held[w]) \in Raw
    BY <2>1, NextRawType DEF HandsFull
  <2>3. pending' \in Seq(Raw)
    BY <1>8, <2>1, <2>2, QueueTypes DEF Resend, ReturnToPending, TypeOK
  <2>4. /\ processing' \in [Raw -> Nat] /\ heartbeat' \in [Raw -> Age]
        /\ settled' \subseteq Job
    BY <1>8, <2>1, QueueTypes, AckTypes DEF Resend, ReturnToPending, TypeOK
  <2> QED
    BY <1>1, <1>8, <2>3, <2>4 DEF Resend, TypeOK, HandsFull
<1> QED
  BY <1>2, <1>3, <1>4, <1>5, <1>6, <1>7, <1>8 DEF FaultStep

LEMMA TypeStep == TypeInv /\ [Next]_vars => TypeInv'
<1> SUFFICES ASSUME TypeInv, [Next]_vars PROVE TypeInv'
  OBVIOUS
<1>1. CASE UNCHANGED vars
  BY <1>1 DEF TypeInv, TypeOK, HandsFull
<1>2. ASSUME NEW w \in Worker, JobStep(w) PROVE TypeInv'
  BY <1>2, ClaimTypes, RunTypes, EndTypes DEF JobStep
<1>3. ASSUME NEW w \in Worker, Restart(w) PROVE TypeInv'
  BY <1>3 DEF Restart, Goto, TypeInv, TypeOK, HandsFull, Holding, Place
<1> QED
  BY <1>1, <1>2, <1>3, RequestTypes, DeleteTypes, ReapTypes, FaultTypes, ExpireTypes DEF Next

\* The structures in Redis, the job rows and the workers' variables keep their
\* types, and a worker past its claim always has an entry in hand.
THEOREM TypeCorrect == Spec => [](TypeOK /\ HandsFull)
<1>1. Spec => []TypeInv
  BY InitTypes, TypeStep, PTL DEF Spec
<1> QED
  BY <1>1, PTL DEF TypeInv

-----------------------------------------------------------------------------
(* The poison-pill guard bounds the attempts a job's row records, whatever  *)
(* dies.  A worker whose guard found no row will still increment it: the    *)
(* bound leaves room for each of them.  Such workers only come to be while  *)
(* the row is not visible, when nothing has been counted yet.               *)

\* Workers about to count an attempt of j that their guard saw nothing of.
Unseen(j) == {w \in Worker : pc[w] = "begin" /\ JobOf(w) = j /\ loaded[w] = NoRow}

Limit == MaxAttempts + Cardinality(Worker) - 1

CountInv ==
    /\ \A w \in Worker : pc[w] = "begin" => loaded[w] < MaxAttempts
    /\ \A j \in Job :
          /\ row[j] \in {"unborn", "open", "aborted"} => attempts[j] = 0
          /\ row[j] = "visible" => attempts[j] + Cardinality(Unseen(j)) <= Limit
          /\ attempts[j] <= Limit

LEMMA WorkerCount ==
    /\ Cardinality(Worker) \in Nat
    /\ \A S \in SUBSET Worker :
          Cardinality(S) \in Nat /\ Cardinality(S) <= Cardinality(Worker)
BY FS_Subset, FS_CardinalityType, QueueAssumption

LEMMA FewerCount ==
    \A S, T \in SUBSET Worker :
        S \subseteq T => Cardinality(S) <= Cardinality(T)
BY FS_Subset, QueueAssumption

LEMMA OneLessCount ==
    ASSUME NEW S \in SUBSET Worker, NEW w \in S
    PROVE  Cardinality(S \ {w}) = Cardinality(S) - 1
BY FS_Subset, FS_RemoveElement, QueueAssumption

LEMMA InitCount == Init => CountInv
<1> SUFFICES ASSUME Init PROVE CountInv
  OBVIOUS
<1>1. \A j : Unseen(j) = {}
  BY DEF Init, Unseen
<1>2. Limit \in Nat /\ Cardinality({}) = 0
  <2>1. Cardinality(Worker) \in Nat
    BY WorkerCount
  <2>2. Cardinality({}) = 0
    BY FS_EmptySet
  <2> QED
    BY <2>1, <2>2, QueueAssumption DEF Limit
<1> QED
  BY <1>1, <1>2 DEF Init, CountInv

\* A step that counts nothing, publishes no row and lets no worker pass the
\* guard keeps the invariant.
LEMMA UncountedStep ==
    ASSUME TypeOK, CountInv, UNCHANGED attempts,
           \A j \in Job : /\ row'[j] = "visible" => row[j] = "visible"
                          /\ row'[j] \in {"unborn", "open", "aborted"}
                                => row[j] \in {"unborn", "open", "aborted"},
           \A w \in Worker : pc'[w] = "begin" =>
               pc[w] = "begin" /\ held'[w] = held[w] /\ loaded'[w] = loaded[w]
    PROVE  CountInv'
<1>1. \A j : Unseen(j) \in SUBSET Worker /\ Unseen(j)' \in SUBSET Worker
  BY DEF Unseen
<1>2. \A j : Unseen(j)' \subseteq Unseen(j)
  BY DEF Unseen, JobOf
<1>3. \A j : /\ Cardinality(Unseen(j)') <= Cardinality(Unseen(j))
             /\ Cardinality(Unseen(j)') \in Nat /\ Cardinality(Unseen(j)) \in Nat
  BY <1>1, <1>2, FewerCount, WorkerCount
<1>4. Limit \in Int /\ \A j \in Job : attempts[j] \in Nat
  BY WorkerCount, QueueAssumption DEF Limit, TypeOK
<1>5. ASSUME NEW j \in Job, row'[j] = "visible"
      PROVE  attempts'[j] + Cardinality(Unseen(j)') <= Limit
  <2>1. attempts[j] + Cardinality(Unseen(j)) <= Limit
    BY <1>5 DEF CountInv
  <2> QED
    BY <1>3, <1>4, <2>1
<1> QED
  BY <1>5 DEF CountInv, Limit
\* A row is published with nothing counted yet, so every worker may be unseen.
LEMMA PublishCount ==
    ASSUME TypeInv, CountInv, NEW j \in Job, CloseRequest(j)
    PROVE  CountInv'
<1> USE DEF CloseRequest, TypeInv, TypeOK
<1>1. \A i : Unseen(i)' = Unseen(i)
  BY DEF Unseen, JobOf
<1>2. attempts[j] = 0 /\ \A i \in Job : attempts'[i] = attempts[i]
  BY DEF CountInv
<1>3. 0 + Cardinality(Unseen(j)) <= Limit
  <2>1. Unseen(j) \in SUBSET Worker
    BY DEF Unseen
  <2>2. /\ Cardinality(Unseen(j)) <= Cardinality(Worker)
        /\ Cardinality(Unseen(j)) \in Nat /\ Cardinality(Worker) \in Nat
    BY <2>1, WorkerCount
  <2> QED
    BY <2>2, QueueAssumption DEF Limit
<1>4. \A i \in Job : row'[i] = "visible" => attempts'[i] + Cardinality(Unseen(i)') <= Limit
  <2> SUFFICES ASSUME NEW i \in Job, row'[i] = "visible"
               PROVE  attempts[i] + Cardinality(Unseen(i)) <= Limit
    BY <1>1
  <2>1. CASE i = j
    BY <1>2, <1>3, <2>1
  <2>2. CASE i # j
    BY <2>2 DEF CountInv
  <2> QED
    BY <2>1, <2>2
<1>5. \A i \in Job : row'[i] \in {"unborn", "open", "aborted"} => attempts'[i] = 0
  BY <1>2 DEF CountInv
<1> QED
  BY <1>4, <1>5 DEF CountInv, Limit

\* The guard lets a worker by with the count of a visible row, or with none.
LEMMA GuardCount ==
    ASSUME TypeInv, CountInv, NEW w \in Worker, Guard(w)
    PROVE  CountInv'
<1> USE DEF TypeInv, TypeOK, Guard
<1>1. JobOf(w) \in Job /\ UNCHANGED <<row, attempts, held>>
  BY DEF HandsFull, Holding, Raw, JobOf
<1>2. \A v \in Worker : pc'[v] = "begin" => loaded'[v] < MaxAttempts
  <2>1. pc'[w] = "begin" => loaded'[w] < MaxAttempts
    BY <1>1, QueueAssumption DEF Goto, Poisoned, NoRow
  <2> QED
    BY <2>1 DEF Goto, CountInv
<1>3. \A j \in Job : row[j] = "visible" => Unseen(j)' \subseteq Unseen(j)
  <2>1. row[JobOf(w)] = "visible" => loaded'[w] # NoRow
    BY <1>1 DEF NoRow
  <2> QED
    BY <1>1, <2>1 DEF Unseen, JobOf, Goto
<1>4. \A j \in Job : row[j] = "visible" => attempts[j] + Cardinality(Unseen(j)') <= Limit
  <2> SUFFICES ASSUME NEW j \in Job, row[j] = "visible"
               PROVE  attempts[j] + Cardinality(Unseen(j)') <= Limit
    OBVIOUS
  <2>1. Cardinality(Unseen(j)') <= Cardinality(Unseen(j))
    BY <1>3, FewerCount DEF Unseen
  <2>2. /\ Cardinality(Unseen(j)') \in Nat /\ Cardinality(Unseen(j)) \in Nat
        /\ Limit \in Int
    BY WorkerCount, QueueAssumption DEF Unseen, Limit
  <2>3. attempts[j] + Cardinality(Unseen(j)) <= Limit
    BY DEF CountInv
  <2> QED
    BY <2>1, <2>2, <2>3
<1> QED
  BY <1>1, <1>2, <1>4 DEF CountInv, Limit

LEMMA BeginCount ==
    ASSUME TypeInv, CountInv, NEW w \in Worker, BeginCounted(w),
           NEW j \in Job, j = JobOf(w)
    PROVE  CountInv'
<1> USE DEF TypeInv, TypeOK, BeginCounted
<1>1. j \in Job /\ j = JobOf(w)
  OBVIOUS
<1>2. \A i : Unseen(i)' = Unseen(i) \ {w}
  BY DEF Unseen, JobOf, Goto
<1>3. \A i : Unseen(i) \in SUBSET Worker /\ Unseen(i) \ {w} \in SUBSET Worker
  BY DEF Unseen
<1>4. \A i : /\ Cardinality(Unseen(i)') \in Nat /\ Cardinality(Unseen(i)) \in Nat
             /\ Cardinality(Unseen(i)') <= Cardinality(Unseen(i))
  BY <1>2, <1>3, WorkerCount, FewerCount
<1>5. Limit \in Int /\ Cardinality(Worker) \in Nat
  BY WorkerCount, QueueAssumption DEF Limit
<1>6. attempts'[j] + Cardinality(Unseen(j)') <= Limit
  <2>1. CASE loaded[w] = NoRow
    <3>1. w \in Unseen(j)
      BY <2>1 DEF Unseen
    <3>2. Cardinality(Unseen(j)') = Cardinality(Unseen(j)) - 1
      BY <1>2, <1>3, <3>1, OneLessCount
    <3>3. attempts'[j] = attempts[j] + 1
      BY <1>1, <2>1
    <3>4. attempts[j] + Cardinality(Unseen(j)) <= Limit
      BY <1>1 DEF CountInv
    <3> QED
      BY <1>1, <1>4, <1>5, <3>2, <3>3, <3>4
  <2>2. CASE loaded[w] # NoRow
    <3>1. attempts'[j] <= MaxAttempts /\ attempts'[j] \in Int
      BY <1>1, <2>2, QueueAssumption DEF CountInv
    <3>2. Cardinality(Unseen(j)') <= Cardinality(Worker) - 1
      <4>1. Unseen(j)' \in SUBSET (Worker \ {w}) /\ Worker \in SUBSET Worker
        BY <1>2, <1>3
      <4>2. Cardinality(Worker \ {w}) = Cardinality(Worker) - 1
        BY <4>1, OneLessCount
      <4>3. Cardinality(Unseen(j)') <= Cardinality(Worker \ {w})
        BY <4>1, FewerCount
      <4> QED
        BY <4>2, <4>3
    <3> QED
      BY <1>4, <1>5, <3>1, <3>2, QueueAssumption DEF Limit
  <2> QED
    BY <2>1, <2>2
<1>7. \A i \in Job : /\ row[i] = "visible" => attempts'[i] + Cardinality(Unseen(i)') <= Limit
                     /\ attempts'[i] <= Limit
  <2> SUFFICES ASSUME NEW i \in Job
               PROVE  /\ row[i] = "visible" => attempts'[i] + Cardinality(Unseen(i)') <= Limit
                      /\ attempts'[i] <= Limit
    OBVIOUS
  <2>1. attempts'[i] \in Int
    BY <1>1 DEF NoRow
  <2>2. CASE i = j
    BY <1>4, <1>5, <1>6, <2>1, <2>2
  <2>3. CASE i # j
    <3>1. /\ attempts'[i] = attempts[i] /\ attempts[i] <= Limit
          /\ row[i] = "visible" => attempts[i] + Cardinality(Unseen(i)) <= Limit
      BY <1>1, <2>3 DEF CountInv
    <3> QED
      BY <1>4, <1>5, <2>1, <3>1
  <2> QED
    BY <2>2, <2>3
<1>8. \A i \in Job : row[i] \in {"unborn", "open", "aborted"} => attempts'[i] = 0
  BY <1>1 DEF CountInv
<1>9. \A v \in Worker : pc'[v] = "begin" => loaded'[v] < MaxAttempts
  BY DEF CountInv, Goto
<1> QED
  BY <1>7, <1>8, <1>9 DEF CountInv, Limit
LEMMA RequestCount ==
    ASSUME TypeInv, CountInv,
           \/ \E j \in Job : Enqueue(j) \/ ResendEnqueue(j)
           \/ \E gone \in SUBSET Job : DeleteRows(gone)
           \/ \E r \in Raw : Expire(r)
           \/ UNCHANGED vars
    PROVE  CountInv'
<1>1. UNCHANGED <<attempts, workerVars>>
  BY DEF Enqueue, ResendEnqueue, DeleteRows, Expire
<1>2. \A j \in Job : /\ row'[j] = "visible" => row[j] = "visible"
                     /\ row'[j] \in {"unborn", "open", "aborted"}
                           => row[j] \in {"unborn", "open", "aborted"}
  BY DEF Enqueue, ResendEnqueue, DeleteRows, Expire, TypeInv, TypeOK
<1> QED
  BY <1>1, <1>2, UncountedStep DEF TypeInv

\* A worker that moves to any place but "begin".
LEMMA LoopCount ==
    ASSUME TypeInv, CountInv, NEW w \in Worker, UNCHANGED rowVars,
           pc'[w] # "begin",
           \A v \in Worker \ {w} : /\ pc'[v] = pc[v] /\ held'[v] = held[v]
                                   /\ loaded'[v] = loaded[v]
    PROVE  CountInv'
BY UncountedStep DEF TypeInv

LEMMA ReapCount ==
    ASSUME TypeInv, CountInv, NEW w \in Worker, ReapStep(w)
    PROVE  CountInv'
<1> USE LoopCount DEF TypeInv, TypeOK, Goto
<1>1. CASE StartReap(w) \/ FinishReap(w) \/ Reclaim(w)
  BY <1>1 DEF StartReap, FinishReap, Reclaim
<1>2. ASSUME NEW r \in Raw, InspectHeartbeat(w, r) PROVE CountInv'
  BY <1>2 DEF InspectHeartbeat
<1> QED
  BY <1>1, <1>2 DEF ReapStep

LEMMA JobCount ==
    ASSUME TypeInv, CountInv, NEW w \in Worker, JobStep(w)
    PROVE  CountInv'
<1>1. CASE Guard(w)
  BY <1>1, GuardCount
<1>2. CASE BeginCounted(w)
  <2>1. JobOf(w) \in Job
    BY <1>2 DEF BeginCounted, TypeInv, HandsFull, Holding, Raw, JobOf
  <2> QED
    BY <1>2, <2>1, BeginCount
<1> USE LoopCount DEF TypeInv, TypeOK, Goto, NextIteration
<1>3. CASE Pop(w) \/ ClaimNothing(w) \/ Beat(w)
  BY <1>3 DEF Pop, ClaimNothing, Beat
<1>4. CASE Abandon(w) \/ BeginUncounted(w) \/ RunFails(w) \/ RunSucceeds(w)
  BY <1>4 DEF Abandon, BeginUncounted, RunFails, RunSucceeds
<1>5. CASE Ack(w) \/ AckAndBackOff(w) \/ PushRetry(w) \/ GiveUp(w)
  BY <1>5 DEF Ack, AckAndBackOff, PushRetry, GiveUp
<1> QED
  BY <1>1, <1>2, <1>3, <1>4, <1>5 DEF JobStep

LEMMA FaultCount ==
    ASSUME TypeInv, CountInv, NEW w \in Worker, FaultStep(w) \/ Restart(w)
    PROVE  CountInv'
<1> USE LoopCount DEF TypeInv, TypeOK, Goto, NextIteration, Dies
<1>1. CASE ReapFails(w) \/ ClaimFails(w) \/ AckFails(w)
  BY <1>1 DEF ReapFails, ClaimFails, AckFails
<1>2. CASE Stop(w) \/ RunCrash(w) \/ Crash(w)
  BY <1>2 DEF Stop, RunCrash, Crash
<1>3. CASE Restart(w)
  BY <1>3 DEF Restart
<1>4. CASE Resend(w)
  BY <1>4 DEF Resend
<1> QED
  BY <1>1, <1>2, <1>3, <1>4 DEF FaultStep

LEMMA NextCount == TypeInv /\ CountInv /\ [Next]_vars => CountInv'
BY RequestCount, PublishCount, ReapCount, JobCount, FaultCount DEF Next

\* MAX_ATTEMPTS, which the guard reads from the row before a run increments it,
\* bounds the recorded attempts of every job to one more for each other worker.
THEOREM AttemptsAreBounded == Spec => []AttemptsBounded
<1>1. Init => TypeInv /\ CountInv
  BY InitTypes, InitCount
<1>2. TypeInv /\ CountInv /\ [Next]_vars => (TypeInv /\ CountInv)'
  BY TypeStep, NextCount
<1>3. CountInv => AttemptsBounded
  BY DEF CountInv, AttemptsBounded, Limit
<1> QED
  BY <1>1, <1>2, <1>3, PTL DEF Spec

-----------------------------------------------------------------------------
(***************************************************************************)
(* At-least-once delivery: no job is lost, and IngestQueue implements      *)
(* JobDelivery.  Both hold of the code only while no process dies between  *)
(* the two halves of requeue.                                              *)
(***************************************************************************)

\* The worker never dies, and LPUSH never fails, while requeue backs off.
NoBackoffCrash == "backoff_crash" \notin Faults

-----------------------------------------------------------------------------
(* The three places that carry a job, and how the commands move it. *)

LEMMA CarriedIn ==
    \A j : /\ Carried(j) <=> InPending(j) \/ InProcess(j) \/ InBackoff(j)
           /\ Carried(j)' <=> InPending(j)' \/ InProcess(j)' \/ InBackoff(j)'
BY DEF Carried

LEMMA PushJobs ==
    ASSUME TypeOK, NEW r \in Raw, Push(r)
    PROVE  \A j : InPending(j)' <=> InPending(j) \/ j = r.job
<1>1. /\ Len(pending') = Len(pending) + 1 /\ Len(pending) \in Nat
      /\ DOMAIN pending = 1 .. Len(pending) /\ DOMAIN pending' = 1 .. Len(pending')
      /\ \A i \in 1 .. Len(pending) : pending'[i] = pending[i]
      /\ pending'[Len(pending) + 1] = r
  BY AppendProperties, LenProperties DEF Push, TypeOK
<1>2. \A i \in DOMAIN pending' : i \in DOMAIN pending \/ i = Len(pending) + 1
  BY <1>1
<1>3. DOMAIN pending \subseteq DOMAIN pending' /\ Len(pending) + 1 \in DOMAIN pending'
  BY <1>1
<1> QED
  BY <1>1, <1>2, <1>3 DEF InPending

LEMMA PopJobs ==
    ASSUME TypeOK, pending # <<>>, pending' = Tail(pending)
    PROVE  \A j : InPending(j) <=> InPending(j)' \/ j = Head(pending).job
<1>1. /\ Len(pending) \in Nat /\ Len(pending) > 0
      /\ DOMAIN pending = 1 .. Len(pending)
      /\ DOMAIN pending' = 1 .. Len(pending) - 1
      /\ \A i \in 1 .. Len(pending) - 1 : pending'[i] = pending[i + 1]
      /\ Head(pending) = pending[1]
  BY HeadTailProperties, LenProperties, EmptySeq DEF TypeOK
<1>2. \A i \in DOMAIN pending' : i + 1 \in DOMAIN pending /\ pending'[i] = pending[i + 1]
  BY <1>1
<1>3. \A i \in DOMAIN pending :
          i = 1 \/ (i - 1 \in DOMAIN pending' /\ pending[i] = pending'[i - 1])
  BY <1>1
<1>4. 1 \in DOMAIN pending
  BY <1>1
<1>5. ASSUME NEW j, InPending(j) PROVE InPending(j)' \/ j = Head(pending).job
  BY <1>1, <1>3, <1>5 DEF InPending
<1>6. ASSUME NEW j, InPending(j)' PROVE InPending(j)
  BY <1>2, <1>6 DEF InPending
<1>7. InPending(Head(pending).job)
  BY <1>1, <1>4 DEF InPending
<1> QED
  BY <1>5, <1>6, <1>7

LEMMA LremJobs ==
    ASSUME TypeOK, NEW r \in Raw, Lrem(r)
    PROVE  \A j : /\ InProcess(j)' => InProcess(j)
                  /\ InProcess(j) => InProcess(j)' \/ j = r.job
<1>1. \A x \in Raw : /\ processing'[x] > 0 => processing[x] > 0
                     /\ x # r => processing'[x] = processing[x]
  BY DEF Lrem, TypeOK
<1> QED
  BY <1>1 DEF InProcess

LEMMA EnterJobs ==
    ASSUME TypeOK, NEW r \in Raw, EnterProcessing(r)
    PROVE  \A j : InProcess(j)' <=> InProcess(j) \/ j = r.job
<1>1. \A x \in Raw : processing'[x] > 0 <=> processing[x] > 0 \/ x = r
  BY DEF EnterProcessing, TypeOK
<1> QED
  BY <1>1 DEF InProcess

\* A worker that neither enters nor leaves the backoff.
LEMMA BackoffKept ==
    ASSUME TypeOK, NEW w \in Worker, NEW place, Goto(w, place),
           pc[w] # "backoff", place # "backoff",
           \A v \in Worker \ {w} : held'[v] = held[v]
    PROVE  \A j : InBackoff(j)' <=> InBackoff(j)
BY DEF TypeOK, Goto, InBackoff, JobOf
-----------------------------------------------------------------------------
(* The invariant: only jobs whose row was flushed are known to the queue. *)

Known(j) == row[j] # "unborn"

HandsKnown == \A w \in Worker : pc[w] \in Holding => Known(held[w].job)
ScanKnown == \A w \in Worker, r \in Raw : scan[w][r] > 0 => Known(r.job)

OnlyKnown ==
    /\ \A j \in Job : Carried(j) \/ j \in settled => Known(j)
    /\ HandsKnown
    /\ ScanKnown

DeliveryInv == TypeInv /\ NoJobLost /\ OnlyKnown

\* What a step may do to the jobs carried and to those settled.
Quiet == /\ \A j \in Job : Carried(j)' <=> Carried(j)
         /\ settled' = settled

Carries(j) == /\ \A i \in Job : Carried(i)' <=> Carried(i) \/ i = j
              /\ settled' = settled

Settles(j) == /\ \A i \in Job : Carried(i)' => Carried(i)
              /\ \A i \in Job : Carried(i) => Carried(i)' \/ i = j
              /\ settled' = settled \cup {j}

\* The worker has finished with its job: it ran it to success, abandoned it, or
\* failed its last attempt.
Through(w) == pc[w] = "ack" \/ (pc[w] = "failed" /\ ~MayRetry(held[w]))

\* Every step moves the jobs as JobDelivery does, and brings up no unknown job;
\* a job is settled only by a worker that is through with it.
Moves ==
    \/ Quiet
    \/ \E j \in Job : Known(j)' /\ Carries(j)
    \/ \E w \in Worker : /\ Through(w) /\ JobOf(w) \in Job
                         /\ Known(JobOf(w)) /\ Settles(JobOf(w))

\* A job becomes known only when it is pushed.
Learns == \A j \in Job : /\ Known(j) => Known(j)'
                         /\ Known(j)' => Known(j) \/ Carried(j)'

Step == Moves /\ Learns /\ HandsKnown' /\ ScanKnown'

LEMMA InitDelivery == Init => DeliveryInv
<1> SUFFICES ASSUME Init PROVE DeliveryInv
  OBVIOUS
<1>1. TypeInv
  BY InitTypes
<1>2. \A j : ~Carried(j)
  <2>1. DOMAIN pending = {}
    BY DEF Init
  <2> QED
    BY <2>1 DEF Init, Carried, InPending, InProcess, InBackoff, Nothing
<1> QED
  BY <1>1, <1>2 DEF Init, DeliveryInv, NoJobLost, OnlyKnown, HandsKnown, ScanKnown, Known, Holding, Nothing

\* The step lemma that turns Step into preservation of the invariant.
LEMMA StepKeepsDelivery ==
    ASSUME DeliveryInv, TypeInv', Step
    PROVE  DeliveryInv'
<1> USE DEF Step, DeliveryInv
<1>1. settled' \subseteq Job
  BY DEF TypeInv, TypeOK
<1>2. NoJobLost'
  <2> SUFFICES ASSUME NEW j \in Job, Known(j)', j \notin settled'
               PROVE  Carried(j)'
    BY DEF NoJobLost, Known
  <2>1. Known(j) \/ Carried(j)'
    BY DEF Learns
  <2>2. Known(j) /\ j \notin settled => Carried(j)
    BY DEF NoJobLost, Known
  <2> QED
    BY <2>1, <2>2 DEF Moves, Quiet, Carries, Settles
<1>3. \A j \in Job : Carried(j)' \/ j \in settled' => Known(j)'
  BY DEF Moves, Quiet, Carries, Settles, Learns, OnlyKnown
<1>4. OnlyKnown'
  BY <1>3 DEF OnlyKnown
<1> QED
  BY <1>2, <1>4

LEMMA RequestDelivery ==
    ASSUME DeliveryInv, NEW j \in Job, Enqueue(j) \/ CloseRequest(j)
    PROVE  Step
<1> USE DEF DeliveryInv, TypeInv
<1>1. CASE Enqueue(j)
  <2>1. FirstRaw(j) \in Raw /\ FirstRaw(j).job = j
    BY QueueAssumption DEF FirstRaw, Raw
  <2>2. Push(FirstRaw(j))
    BY <1>1 DEF Enqueue
  <2>3. \A i \in Job : Carried(i)' <=> Carried(i) \/ i = j
    <3>1. \A i : InPending(i)' <=> InPending(i) \/ i = j
      BY <2>1, <2>2, PushJobs
    <3>2. \A i : InProcess(i)' <=> InProcess(i)
      BY <1>1 DEF Enqueue, InProcess
    <3>3. \A i : InBackoff(i)' <=> InBackoff(i)
      BY <1>1 DEF Enqueue, InBackoff, JobOf
    <3> QED
      BY <3>1, <3>2, <3>3, CarriedIn
  <2>4. Known(j)' /\ \A i \in Job : i # j => (Known(i)' <=> Known(i))
    BY <1>1 DEF Enqueue, Known, TypeOK
  <2>5. HandsKnown' /\ ScanKnown'
    <3>1. \A w \in Worker : pc[w] \in Holding => held[w].job \in Job
      BY DEF HandsFull, Raw
    <3>2. \A r \in Raw : r.job \in Job
      BY DEF Raw
    <3> QED
      BY <1>1, <2>4, <3>1, <3>2 DEF Enqueue, HandsKnown, ScanKnown, OnlyKnown
  <2> QED
    BY <1>1, <2>3, <2>4, <2>5 DEF Enqueue, Step, Moves, Carries, Learns
<1>2. CASE CloseRequest(j)
  <2>1. \A i \in Job : Known(i)' <=> Known(i)
    BY <1>2 DEF CloseRequest, Known, TypeOK
  <2>2. \A i : Carried(i)' <=> Carried(i)
    BY <1>2 DEF CloseRequest, Carried, InPending, InProcess, InBackoff, JobOf
  <2>3. \A w \in Worker : pc[w] \in Holding => held[w].job \in Job
    BY DEF HandsFull, Raw
  <2>4. HandsKnown' /\ ScanKnown'
    BY <1>2, <2>1, <2>3 DEF CloseRequest, HandsKnown, ScanKnown, OnlyKnown, Raw
  <2> QED
    BY <1>2, <2>1, <2>2, <2>4 DEF CloseRequest, Step, Moves, Quiet, Learns
<1> QED
  BY <1>1, <1>2
LEMMA QuietStep ==
    ASSUME DeliveryInv, UNCHANGED <<pending, processing, row, settled>>,
           \A j : InBackoff(j)' <=> InBackoff(j),
           HandsKnown', ScanKnown'
    PROVE  Step
<1>1. \A j : Carried(j)' <=> Carried(j)
  BY CarriedIn DEF InPending, InProcess
<1>2. \A j : Known(j)' <=> Known(j)
  BY DEF Known
<1> QED
  BY <1>1, <1>2 DEF Step, Moves, Quiet, Learns

\* A worker goes on with what it has in hand.
LEMMA PlaceStep ==
    ASSUME DeliveryInv, NEW w \in Worker, NEW place, Goto(w, place),
           pc[w] # "backoff", place # "backoff",
           place \in Holding => pc[w] \in Holding,
           UNCHANGED <<pending, processing, row, held, scan, settled>>
    PROVE  Step
<1> USE DEF DeliveryInv, TypeInv
<1>1. \A j : InBackoff(j)' <=> InBackoff(j)
  BY BackoffKept
<1>2. HandsKnown'
  BY DEF Goto, TypeOK, OnlyKnown, HandsKnown, Known
<1>3. ScanKnown'
  BY DEF OnlyKnown, ScanKnown, Known
<1> QED
  BY <1>1, <1>2, <1>3, QuietStep

\* What every worker that lets go of its entry leaves known.
LEMMA LetGoKnown ==
    ASSUME DeliveryInv, NEW w \in Worker, row' = row, NEW place, Goto(w, place),
           place \notin Holding, held' = [held EXCEPT ![w] = NoRaw],
           scan' = scan \/ scan' = [scan EXCEPT ![w] = Nothing]
    PROVE  HandsKnown' /\ ScanKnown'
<1> USE DEF DeliveryInv, TypeInv, TypeOK, OnlyKnown, Known
<1>1. HandsKnown'
  BY DEF Goto, HandsKnown
<1>2. \A v \in Worker, r \in Raw : scan'[v][r] > 0 => scan[v][r] > 0
  <2>1. CASE scan' = scan
    BY <2>1
  <2>2. CASE scan' = [scan EXCEPT ![w] = Nothing]
    BY <2>2 DEF Nothing
  <2> QED
    BY <2>1, <2>2
<1>3. ScanKnown'
  BY <1>2 DEF ScanKnown
<1> QED
  BY <1>1, <1>3

LEMMA ReapDelivery ==
    ASSUME DeliveryInv, NEW w \in Worker, ReapStep(w)
    PROVE  Step
<1> USE DEF DeliveryInv, TypeInv
<1>1. CASE StartReap(w)
  <2>1. \A j : InBackoff(j)' <=> InBackoff(j)
    BY <1>1, BackoffKept DEF StartReap
  <2>2. HandsKnown'
    BY <1>1 DEF StartReap, Goto, TypeOK, OnlyKnown, HandsKnown, Known, Holding
  <2>3. \A r \in Raw : processing[r] > 0 => Known(r.job)
    BY CarriedIn DEF OnlyKnown, InProcess, Raw
  <2>4. ScanKnown'
    BY <1>1, <2>3 DEF StartReap, TypeOK, OnlyKnown, ScanKnown, Known
  <2> QED
    BY <1>1, <2>1, <2>2, <2>4, QuietStep DEF StartReap
<1>2. ASSUME NEW r \in Raw, InspectHeartbeat(w, r)
      PROVE  Step
  <2>1. \A j : InBackoff(j)' <=> InBackoff(j)
    BY <1>2 DEF InspectHeartbeat, Goto, InBackoff, JobOf, TypeOK
  <2>2. HandsKnown'
    BY <1>2 DEF InspectHeartbeat, Goto, TypeOK, OnlyKnown, HandsKnown, ScanKnown, Known, Holding
  <2>3. \A v \in Worker, x \in Raw : scan'[v][x] > 0 => scan[v][x] > 0
    BY <1>2 DEF InspectHeartbeat, TypeOK
  <2>4. ScanKnown'
    BY <1>2, <2>3 DEF InspectHeartbeat, OnlyKnown, ScanKnown, Known
  <2> QED
    BY <1>2, <2>1, <2>2, <2>4, QuietStep DEF InspectHeartbeat
<1>3. CASE FinishReap(w)
  BY <1>3, PlaceStep DEF FinishReap, Holding
<1>4. CASE Reclaim(w)
  <2>1. /\ held[w] \in Raw /\ held[w].job \in Job
        /\ Push(held[w]) /\ Lrem(held[w])
    BY <1>4 DEF Reclaim, ReturnToPending, HandsFull, Holding, Raw
  <2>2. \A j : InBackoff(j)' <=> InBackoff(j)
    BY <1>4, BackoffKept DEF Reclaim, TypeOK
  <2>3. \A j : InPending(j)' <=> InPending(j) \/ j = held[w].job
    BY <2>1, PushJobs
  <2>4. \A j : Carried(j)' <=> Carried(j) \/ j = held[w].job
    BY <2>1, <2>2, <2>3, LremJobs, CarriedIn
  <2>5. Known(held[w].job)
    BY <1>4 DEF Reclaim, OnlyKnown, HandsKnown, Holding
  <2>6. HandsKnown' /\ ScanKnown'
    BY <1>4, LetGoKnown DEF Reclaim, Holding
  <2> QED
    BY <1>4, <2>1, <2>4, <2>5, <2>6 DEF Reclaim, Step, Moves, Carries, Learns, Known
<1> QED
  BY <1>1, <1>2, <1>3, <1>4 DEF ReapStep

LEMMA ClaimDelivery ==
    ASSUME DeliveryInv, NEW w \in Worker, Pop(w)
    PROVE  Step
<1> USE DEF DeliveryInv, TypeInv
<1>1. Head(pending) \in Raw /\ Head(pending).job \in Job
  <2>1. Head(pending) \in Raw
    BY HeadTailProperties DEF Pop, TypeOK
  <2> QED
    BY <2>1 DEF Raw
<1>2. \A j : InPending(j) <=> InPending(j)' \/ j = Head(pending).job
  BY PopJobs DEF Pop
<1>3. \A j : InProcess(j)' <=> InProcess(j) \/ j = Head(pending).job
  BY <1>1, EnterJobs DEF Pop
<1>4. \A j : InBackoff(j)' <=> InBackoff(j)
  BY BackoffKept DEF Pop, TypeOK
<1>5. \A j : Carried(j)' <=> Carried(j)
  BY <1>2, <1>3, <1>4, CarriedIn
<1>6. Known(Head(pending).job)
  BY <1>1, <1>2, CarriedIn DEF OnlyKnown
<1>7. HandsKnown'
  BY <1>6 DEF Pop, Goto, TypeOK, OnlyKnown, HandsKnown, Known
<1>8. ScanKnown'
  BY DEF Pop, OnlyKnown, ScanKnown, Known
<1> QED
  BY <1>5, <1>7, <1>8 DEF Pop, Step, Moves, Quiet, Learns, Known

LEMMA RunDelivery ==
    ASSUME DeliveryInv, NEW w \in Worker,
           \/ ClaimNothing(w) \/ Beat(w) \/ Guard(w) \/ Abandon(w) \/ BeginCounted(w)
           \/ BeginUncounted(w) \/ RunFails(w) \/ RunSucceeds(w) \/ Restart(w)
    PROVE  Step
<1> USE PlaceStep DEF Holding
<1>1. CASE ClaimNothing(w)
  BY <1>1 DEF ClaimNothing
<1>2. CASE Beat(w)
  BY <1>2 DEF Beat
<1>3. CASE Guard(w)
  BY <1>3 DEF Guard
<1>4. CASE Abandon(w)
  BY <1>4 DEF Abandon
<1>5. CASE BeginCounted(w) \/ BeginUncounted(w)
  BY <1>5 DEF BeginCounted, BeginUncounted
<1>6. CASE RunFails(w)
  BY <1>6 DEF RunFails
<1>7. CASE RunSucceeds(w)
  BY <1>7 DEF RunSucceeds
<1>8. CASE Restart(w)
  BY <1>8 DEF Restart
<1> QED
  BY <1>1, <1>2, <1>3, <1>4, <1>5, <1>6, <1>7, <1>8
\* acknowledge, in whatever way it comes to be called
LEMMA AckDelivery ==
    ASSUME DeliveryInv, NEW w \in Worker, Through(w), NEW place,
           Goto(w, place), place # "backoff", Lrem(held[w]), UNCHANGED <<pending, row>>,
           settled' = settled \cup {JobOf(w)},
           \A v \in Worker \ {w} : held'[v] = held[v],
           HandsKnown', ScanKnown'
    PROVE  Step
<1> USE DEF DeliveryInv, TypeInv
<1>1. held[w] \in Raw /\ JobOf(w) = held[w].job /\ JobOf(w) \in Job /\ Known(JobOf(w))
  BY DEF HandsFull, Holding, Raw, JobOf, OnlyKnown, HandsKnown, Through
<1>2. \A j : InBackoff(j)' <=> InBackoff(j)
  BY BackoffKept DEF TypeOK, Through
<1>3. \A j : /\ InProcess(j)' => InProcess(j)
             /\ InProcess(j) => InProcess(j)' \/ j = JobOf(w)
  BY <1>1, LremJobs
<1>4. \A j : /\ Carried(j)' => Carried(j)
             /\ Carried(j) => Carried(j)' \/ j = JobOf(w)
  BY <1>2, <1>3, CarriedIn DEF InPending
<1> QED
  BY <1>1, <1>4 DEF Step, Moves, Settles, Learns, Known

LEMMA EndDelivery ==
    ASSUME DeliveryInv, NEW w \in Worker,
           Ack(w) \/ AckAndBackOff(w) \/ PushRetry(w) \/ GiveUp(w)
    PROVE  Step
<1> USE DEF DeliveryInv, TypeInv
<1>1. CASE Ack(w) \/ GiveUp(w)
  <2>1. row' = row /\ UNCHANGED pending
    BY <1>1 DEF Ack, GiveUp
  <2>2. Goto(w, "loop") /\ held' = [held EXCEPT ![w] = NoRaw] /\ scan' = scan
    BY <1>1 DEF Ack, GiveUp, NextIteration
  <2>3. HandsKnown' /\ ScanKnown'
    BY <2>1, <2>2, LetGoKnown DEF Holding
  <2>4. \A v \in Worker \ {w} : held'[v] = held[v]
    BY <2>2 DEF TypeOK
  <2> QED
    BY <1>1, <2>1, <2>2, <2>3, <2>4, AckDelivery DEF Ack, GiveUp, Through
<1>2. CASE AckAndBackOff(w)
  <2>1. held[w] \in Raw /\ JobOf(w) = held[w].job /\ JobOf(w) \in Job /\ Known(JobOf(w))
    BY <1>2 DEF AckAndBackOff, HandsFull, Holding, Raw, JobOf, OnlyKnown, HandsKnown
  <2>2. \A j : InBackoff(j)' <=> InBackoff(j) \/ j = JobOf(w)
    BY <1>2 DEF AckAndBackOff, Goto, InBackoff, JobOf, TypeOK
  <2>3. \A j : /\ InProcess(j)' => InProcess(j)
               /\ InProcess(j) => InProcess(j)' \/ j = JobOf(w)
    BY <1>2, <2>1, LremJobs DEF AckAndBackOff
  <2>4. \A j : Carried(j)' <=> Carried(j) \/ j = JobOf(w)
    <3>1. \A j : InProcess(j)' => Carried(j)
      BY <2>3, CarriedIn
    <3> QED
      BY <1>2, <2>2, <2>3, CarriedIn DEF AckAndBackOff, InPending
  <2>5. HandsKnown'
    BY <1>2 DEF AckAndBackOff, Goto, TypeOK, OnlyKnown, HandsKnown, Known, Holding
  <2>6. ScanKnown'
    BY <1>2 DEF AckAndBackOff, OnlyKnown, ScanKnown, Known
  <2> QED
    BY <1>2, <2>1, <2>4, <2>5, <2>6
    DEF AckAndBackOff, Step, Moves, Carries, Learns, Known
<1>3. CASE PushRetry(w)
  <2>1. held[w] \in Raw /\ NextRaw(held[w]) \in Raw /\ NextRaw(held[w]).job = JobOf(w)
    BY <1>3, NextRawType DEF PushRetry, HandsFull, Holding, JobOf
  <2>2. \A j : InPending(j)' <=> InPending(j) \/ j = JobOf(w)
    BY <1>3, <2>1, PushJobs DEF PushRetry
  <2>3. InBackoff(JobOf(w))
    BY <1>3 DEF PushRetry, InBackoff
  <2>4. \A j : InBackoff(j) <=> InBackoff(j)' \/ (j = JobOf(w) /\ InBackoff(j))
    BY <1>3 DEF PushRetry, NextIteration, Goto, InBackoff, JobOf, TypeOK
  <2>5. \A j : Carried(j)' <=> Carried(j)
    BY <1>3, <2>2, <2>3, <2>4, CarriedIn DEF PushRetry, InProcess
  <2>6. HandsKnown' /\ ScanKnown'
    BY <1>3, LetGoKnown DEF PushRetry, NextIteration, Holding
  <2> QED
    BY <1>3, <2>5, <2>6 DEF PushRetry, Step, Moves, Quiet, Learns, Known
<1> QED
  BY <1>1, <1>2, <1>3

LEMMA DeathDelivery ==
    ASSUME DeliveryInv, NEW w \in Worker, Dies(w), pc[w] # "backoff"
    PROVE  Step
<1> USE DEF DeliveryInv, TypeInv
<1>1. \A j : InBackoff(j)' <=> InBackoff(j)
  BY BackoffKept DEF Dies, TypeOK
<1>2. HandsKnown' /\ ScanKnown'
  BY LetGoKnown DEF Dies, Holding
<1> QED
  BY <1>1, <1>2, QuietStep DEF Dies

\* A command that runs once more before its caller goes on.
LEMMA ResentDelivery ==
    ASSUME DeliveryInv,
           \/ \E j \in Job : ResendEnqueue(j)
           \/ \E w \in Worker : Resend(w)
    PROVE  Step
<1> USE DEF DeliveryInv, TypeInv
<1>1. UNCHANGED <<row, workerVars>>
  BY DEF ResendEnqueue, Resend
<1>2. HandsKnown' /\ ScanKnown' /\ \A j \in Job : Known(j)' <=> Known(j)
  BY <1>1 DEF OnlyKnown, HandsKnown, ScanKnown, Known
<1>3. \A j : InBackoff(j)' <=> InBackoff(j)
  BY <1>1 DEF InBackoff, JobOf
<1>4. ASSUME NEW r \in Raw, Known(r.job), Push(r), UNCHANGED settled,
             UNCHANGED processing \/ Lrem(r)
      PROVE  Step
  <2>1. r.job \in Job /\ \A j : InPending(j)' <=> InPending(j) \/ j = r.job
    BY <1>4, PushJobs DEF Raw
  <2>2. \A j : /\ InProcess(j)' => InProcess(j)
               /\ InProcess(j) => InProcess(j)' \/ j = r.job
    BY <1>4, LremJobs DEF InProcess
  <2>3. \A j : Carried(j)' <=> Carried(j) \/ j = r.job
    BY <1>3, <2>1, <2>2, CarriedIn
  <2> QED
    BY <1>2, <1>4, <2>1, <2>3 DEF Step, Moves, Carries, Learns
<1>5. ASSUME NEW j \in Job, ResendEnqueue(j)
      PROVE  Step
  <2>1. FirstRaw(j) \in Raw /\ FirstRaw(j).job = j /\ Known(j)
    BY <1>5, QueueAssumption DEF ResendEnqueue, FirstRaw, Raw, Known
  <2> QED
    BY <1>4, <1>5, <2>1 DEF ResendEnqueue
<1>6. ASSUME NEW w \in Worker, Resend(w)
      PROVE  Step
  <2>1. /\ held[w] \in Raw /\ JobOf(w) = held[w].job
        /\ JobOf(w) \in Job /\ Known(JobOf(w))
    BY <1>6 DEF Resend, HandsFull, Holding, Raw, JobOf, OnlyKnown, HandsKnown
  <2>2. CASE pc[w] = "reclaim"
    BY <1>4, <1>6, <2>1, <2>2 DEF Resend, ReturnToPending
  <2>3. CASE pc[w] \in {"ack", "failed"}
    <3>1. /\ Lrem(held[w]) /\ UNCHANGED pending
          /\ settled' = settled \cup {JobOf(w)}
      BY <1>6, <2>3 DEF Resend
    <3>2. \A j : /\ InProcess(j)' => InProcess(j)
                 /\ InProcess(j) => InProcess(j)' \/ j = JobOf(w)
      BY <2>1, <3>1, LremJobs
    <3>3. \A j : /\ Carried(j)' => Carried(j)
                 /\ Carried(j) => Carried(j)' \/ j = JobOf(w)
      BY <1>3, <3>1, <3>2, CarriedIn DEF InPending
    <3> QED
      BY <1>2, <1>6, <2>1, <2>3, <3>1, <3>3
      DEF Resend, Step, Moves, Settles, Learns, Through
  <2>4. CASE pc[w] = "backoff" /\ Lrem(held[w]) /\ UNCHANGED <<pending, settled>>
    <3>1. InBackoff(JobOf(w))
      BY <2>4 DEF InBackoff
    <3>2. \A j : /\ InProcess(j)' => InProcess(j)
                 /\ InProcess(j) => InProcess(j)' \/ j = JobOf(w)
      BY <2>1, <2>4, LremJobs
    <3>3. \A j : Carried(j)' <=> Carried(j)
      BY <1>3, <2>4, <3>1, <3>2, CarriedIn DEF InPending
    <3> QED
      BY <1>2, <2>4, <3>3 DEF Step, Moves, Quiet, Learns
  <2>5. CASE /\ pc[w] = "backoff" /\ Push(NextRaw(held[w]))
             /\ UNCHANGED <<processing, settled>>
    <3>1. NextRaw(held[w]) \in Raw /\ NextRaw(held[w]).job = JobOf(w)
      BY <2>1, <2>5, NextRawType DEF HandsFull
    <3> QED
      BY <1>4, <2>1, <2>5, <3>1
  <2> QED
    BY <1>6, <2>2, <2>3, <2>4, <2>5 DEF Resend
<1> QED
  BY <1>5, <1>6

\* The one step the assumption is for: no crash point is the backoff.
LEMMA FaultDelivery ==
    ASSUME DeliveryInv, NoBackoffCrash, NEW w \in Worker, FaultStep(w)
    PROVE  Step
<1> USE DEF DeliveryInv, TypeInv
<1>1. CASE ReapFails(w)
  <2>1. Goto(w, "claim") /\ pc[w] # "backoff" /\ held' = [held EXCEPT ![w] = NoRaw]
    BY <1>1 DEF ReapFails
  <2>2. \A j : InBackoff(j)' <=> InBackoff(j)
    BY <2>1, BackoffKept DEF TypeOK
  <2>3. HandsKnown' /\ ScanKnown'
    BY <1>1, <2>1, LetGoKnown DEF ReapFails, Holding
  <2> QED
    BY <1>1, <2>2, <2>3, QuietStep DEF ReapFails
<1>2. CASE ClaimFails(w)
  <2>1. Goto(w, "loop") /\ pc[w] # "backoff" /\ held' = [held EXCEPT ![w] = NoRaw]
    BY <1>2 DEF ClaimFails, NextIteration
  <2>2. \A j : InBackoff(j)' <=> InBackoff(j)
    BY <2>1, BackoffKept DEF TypeOK
  <2>3. HandsKnown' /\ ScanKnown'
    BY <1>2, <2>1, LetGoKnown DEF ClaimFails, NextIteration, Holding
  <2> QED
    BY <1>2, <2>2, <2>3, QuietStep DEF ClaimFails
<1>3. CASE AckFails(w)
  <2>1. HandsKnown' /\ ScanKnown'
    BY <1>3 DEF AckFails, Goto, TypeOK, OnlyKnown, HandsKnown, ScanKnown, Known, Holding
  <2>2. CASE UNCHANGED <<queueVars, settled>>
    BY <1>3, <2>2, PlaceStep DEF AckFails, Holding
  <2>3. CASE Lrem(held[w]) /\ settled' = settled \cup {JobOf(w)} /\ UNCHANGED pending
    BY <1>3, <2>1, <2>3, AckDelivery DEF AckFails, Through
  <2> QED
    BY <1>3, <2>2, <2>3 DEF AckFails
<1>4. CASE Stop(w) \/ RunCrash(w)
  BY <1>4, DeathDelivery DEF Stop, RunCrash
<1>5. CASE Crash(w)
  <2>1. pc[w] # "backoff"
    BY <1>5 DEF Crash, CrashPoint, Charge, NoBackoffCrash, Place
  <2> QED
    BY <1>5, <2>1, DeathDelivery DEF Crash
<1>6. CASE Resend(w)
  BY <1>6, ResentDelivery
<1> QED
  BY <1>1, <1>2, <1>3, <1>4, <1>5, <1>6 DEF FaultStep

LEMMA OtherDelivery ==
    ASSUME DeliveryInv,
           \/ UNCHANGED vars
           \/ \E gone \in SUBSET Job : DeleteRows(gone)
           \/ \E r \in Raw : Expire(r)
    PROVE  Step
<1> USE DEF DeliveryInv, TypeInv
<1>1. UNCHANGED <<pending, processing, workerVars, settled>>
  BY DEF DeleteRows, Expire
<1>2. \A j : Carried(j)' <=> Carried(j)
  BY <1>1 DEF Carried, InPending, InProcess, InBackoff, JobOf
<1>3. \A j \in Job : Known(j)' <=> Known(j)
  BY DEF DeleteRows, Expire, Known, TypeOK
<1>4. \A w \in Worker : pc[w] \in Holding => held[w].job \in Job
  BY DEF HandsFull, Raw
<1>5. HandsKnown' /\ ScanKnown'
  BY <1>1, <1>3, <1>4 DEF OnlyKnown, HandsKnown, ScanKnown, Raw
<1> QED
  BY <1>1, <1>2, <1>3, <1>5 DEF Step, Moves, Quiet, Learns

LEMMA NextDelivery ==
    ASSUME DeliveryInv, NoBackoffCrash, [Next]_vars
    PROVE  Step /\ DeliveryInv'
<1>1. Step
  BY RequestDelivery, ReapDelivery, ClaimDelivery, RunDelivery, EndDelivery,
     FaultDelivery, ResentDelivery, OtherDelivery
  DEF Next, JobStep
<1>2. TypeInv'
  BY TypeStep DEF DeliveryInv
<1> QED
  BY <1>1, <1>2, StepKeepsDelivery

-----------------------------------------------------------------------------

LEMMA AlwaysDelivery == NoBackoffCrash /\ Spec => []DeliveryInv
<1>1. NoBackoffCrash /\ DeliveryInv /\ [Next]_vars => DeliveryInv'
  BY NextDelivery
<1>2. NoBackoffCrash => NoBackoffCrash'
  BY DEF NoBackoffCrash
<1> QED
  BY InitDelivery, <1>1, <1>2, PTL DEF Spec

\* "So no job is lost to a crash" (queue.py): true of every crash but one in
\* the backoff of requeue, however many workers race over the queue.
THEOREM NoJobIsLost == NoBackoffCrash /\ Spec => []NoJobLost
<1>1. DeliveryInv => NoJobLost
  BY DEF DeliveryInv
<1> QED
  BY AlwaysDelivery, <1>1, PTL

\* The queue implements at-least-once delivery: the jobs carried are the jobs
\* owed, and every step of the system is a step of JobDelivery or a stutter.
THEOREM QueueDelivers == NoBackoffCrash /\ Spec => ImplementsDelivery
<1> DEFINE owed == {j \in Job : Carried(j)}
<1>1. Init => Delivery!Init
  <2>1. Init => DOMAIN pending = {}
    BY DEF Init
  <2>2. Init => owed = {}
    BY <2>1 DEF Init, Carried, InPending, InProcess, InBackoff, Nothing
  <2> QED
    BY <2>2 DEF Init, Delivery!Init
<1>2. NoBackoffCrash /\ DeliveryInv /\ [Next]_vars => [Delivery!Next]_Delivery!jobVars
  <2> SUFFICES ASSUME NoBackoffCrash, DeliveryInv, [Next]_vars
               PROVE  [Delivery!Next]_Delivery!jobVars
    OBVIOUS
  <2> USE DEF Delivery!Next, Delivery!jobVars
  <2>1. Moves /\ Learns
    BY NextDelivery DEF Step
  <2>2. \A j \in Job : (j \in owed <=> Carried(j)) /\ (j \in owed' <=> Carried(j)')
    OBVIOUS
  <2>3. \A j \in Job : Known(j) => j \in owed \/ j \in settled
    BY DEF DeliveryInv, NoJobLost, Known
  <2>4. \A j \in Job : j \in owed \/ j \in settled => Known(j)
    BY DEF DeliveryInv, OnlyKnown
  <2>5. CASE Quiet
    <3>1. owed' = owed
      BY <2>2, <2>5 DEF Quiet
    <3> QED
      BY <2>5, <3>1 DEF Quiet
  <2>6. ASSUME NEW j \in Job, Carries(j)
        PROVE  [Delivery!Next]_Delivery!jobVars
    <3>1. owed' = owed \cup {j}
      BY <2>2, <2>6 DEF Carries
    <3>2. CASE j \in owed
      BY <2>6, <3>1, <3>2 DEF Carries
    <3>3. CASE j \in settled \ owed
      BY <2>6, <3>1, <3>3 DEF Carries, Delivery!Redeliver
    <3>4. CASE j \notin owed \cup settled
      BY <2>6, <3>1, <3>4 DEF Carries, Delivery!Accept
    <3> QED
      BY <3>2, <3>3, <3>4
  <2>7. ASSUME NEW j \in Job, Known(j), Settles(j)
        PROVE  [Delivery!Next]_Delivery!jobVars
    <3>1. owed' = owed \/ owed' = owed \ {j}
      BY <2>2, <2>7 DEF Settles
    <3>2. j \in owed \cup settled
      BY <2>3, <2>7
    <3> QED
      BY <2>7, <3>1, <3>2 DEF Settles, Delivery!Settle
  <2> QED
    BY <2>1, <2>5, <2>6, <2>7 DEF Moves
<1>3. NoBackoffCrash => NoBackoffCrash'
  BY DEF NoBackoffCrash
<1>4. NoBackoffCrash /\ DeliveryInv /\ [Next]_vars => DeliveryInv'
  BY NextDelivery
<1> QED
  BY <1>1, <1>2, <1>3, <1>4, InitDelivery, PTL DEF Spec, ImplementsDelivery, Delivery!Spec

-----------------------------------------------------------------------------
(***************************************************************************)
(* What a single worker adds to at-least-once delivery, for every number   *)
(* of jobs and whatever dies or fails: a job has one entry, which is found *)
(* in the processing list while it is worked on, and no heartbeat outlives *)
(* its entry.  With a second worker, or a command sent twice, equal        *)
(* entries meet and none of this holds.                                    *)
(***************************************************************************)

\* One worker at most, and no Redis command is executed twice.
OneWorker == (\A v, w \in Worker : v = w) /\ "resent" \notin Faults

AtWork == {"popped", "guard", "begin", "run", "abandon", "ack", "failed"}

\* An entry of j is somewhere in Redis.
Listed(j) == InPending(j) \/ InProcess(j)

Born ==
    /\ \A j \in Job : Listed(j) => Known(j)
    /\ HandsKnown

\* The reaper's list has nothing that is not in process, and no longer what it
\* is about to reclaim.
ScanListed ==
    \A w \in Worker, r \in Raw :
        /\ scan[w][r] <= processing[r]
        /\ pc[w] \notin {"reaping", "reclaim"} => scan[w][r] = 0
        /\ pc[w] = "reclaim" /\ r = held[w] => processing[r] > 0 /\ scan[w][r] = 0

\* The entry at work is the only one of its job; it is missing only when it
\* was acknowledged and the worker was not told.
HandListed ==
    \A w \in Worker :
        pc[w] \in AtWork =>
            /\ ~InPending(JobOf(w))
            /\ \A r \in Raw : r.job = JobOf(w) /\ processing[r] > 0 => r = held[w]
            /\ processing[held[w]] > 0 \/ (pc[w] = "failed" /\ JobOf(w) \in settled)

Sole == OneEntryPerJob /\ Born /\ ScanListed /\ HandListed /\ HeartbeatHasEntry

SoleInv == TypeInv /\ Sole

\* The first part of OneEntryPerJob, which is about the pending list alone.
Once == \A i, k \in DOMAIN pending : pending[i].job = pending[k].job => i = k

LEMMA InitSole == Init => SoleInv
<1> SUFFICES ASSUME Init PROVE SoleInv
  OBVIOUS
<1>1. TypeInv
  BY InitTypes
<1>2. DOMAIN pending = {}
  BY DEF Init
<1>3. \A j : ~InPending(j) /\ ~InProcess(j) /\ ~InBackoff(j)
  BY <1>2 DEF Init, InPending, InProcess, InBackoff, Nothing
<1>4. OneEntryPerJob
  BY <1>2, <1>3 DEF Init, OneEntryPerJob, Nothing
<1>5. Born
  BY <1>3 DEF Init, Born, Listed, HandsKnown, Holding
<1>6. ScanListed /\ HandListed /\ HeartbeatHasEntry
  BY DEF Init, ScanListed, HandListed, HeartbeatHasEntry, AtWork, Nothing
<1> QED
  BY <1>1, <1>4, <1>5, <1>6 DEF SoleInv, Sole

-----------------------------------------------------------------------------
(* What the commands do to the pending list. *)

LEMMA PushOnce ==
    ASSUME TypeOK, Once, NEW r \in Raw, Push(r), ~InPending(r.job)
    PROVE  Once'
<1>1. /\ Len(pending') = Len(pending) + 1 /\ Len(pending) \in Nat
      /\ DOMAIN pending = 1 .. Len(pending) /\ DOMAIN pending' = 1 .. Len(pending')
      /\ \A i \in 1 .. Len(pending) : pending'[i] = pending[i]
      /\ pending'[Len(pending) + 1] = r
  BY AppendProperties, LenProperties DEF Push, TypeOK
<1>2. \A i \in DOMAIN pending' :
          \/ i \in DOMAIN pending /\ pending'[i] = pending[i] /\ pending[i].job # r.job
          \/ i = Len(pending) + 1 /\ pending'[i] = r
  BY <1>1 DEF InPending
<1> QED
  BY <1>2 DEF Once

LEMMA PopOnce ==
    ASSUME TypeOK, Once, pending # <<>>, pending' = Tail(pending)
    PROVE  Once' /\ \A j : j = Head(pending).job => ~InPending(j)'
<1>1. /\ Len(pending) \in Nat /\ Len(pending) > 0
      /\ DOMAIN pending = 1 .. Len(pending)
      /\ DOMAIN pending' = 1 .. Len(pending) - 1
      /\ \A i \in 1 .. Len(pending) - 1 : pending'[i] = pending[i + 1]
      /\ Head(pending) = pending[1]
  BY HeadTailProperties, LenProperties, EmptySeq DEF TypeOK
<1>2. \A i \in DOMAIN pending' :
          i + 1 \in DOMAIN pending /\ pending'[i] = pending[i + 1] /\ i \in Nat /\ i # 0
  BY <1>1
<1>3. Once'
  BY <1>2 DEF Once
<1>4. 1 \in DOMAIN pending
  BY <1>1
<1>5. \A i \in DOMAIN pending' : pending'[i].job # Head(pending).job
  BY <1>1, <1>2, <1>4 DEF Once
<1> QED
  BY <1>3, <1>5 DEF InPending

\* An acknowledge of the entry in hand leaves nothing of its job in process.
LEMMA Acknowledged ==
    ASSUME SoleInv, NEW w \in Worker, pc[w] \in AtWork \cup {"reclaim"},
           Lrem(held[w]), Hdel(held[w])
    PROVE  /\ held[w] \in Raw
           /\ processing' \in [Raw -> Nat] /\ processing'[held[w]] = 0
           /\ \A r \in Raw : r # held[w] => processing'[r] = processing[r]
           /\ \A r \in Raw : r.job = JobOf(w) => processing'[r] = 0
           /\ \A j : InProcess(j)' => InProcess(j) /\ j # JobOf(w)
           /\ HeartbeatHasEntry'
<1> USE DEF SoleInv, Sole, TypeInv, TypeOK
<1>1. held[w] \in Raw
  BY DEF HandsFull, Holding, AtWork
<1>2. processing[held[w]] \in {0, 1}
  BY <1>1 DEF OneEntryPerJob
<1>3. /\ processing' \in [Raw -> Nat] /\ processing'[held[w]] = 0
      /\ \A r \in Raw : r # held[w] => processing'[r] = processing[r]
  BY <1>1, <1>2 DEF Lrem
<1>4. \A r \in Raw : r.job = JobOf(w) /\ processing[r] > 0 => r = held[w]
  BY <1>1 DEF HandListed, ScanListed, OneEntryPerJob, JobOf
<1>5. ASSUME NEW r \in Raw
      PROVE  /\ processing'[r] > 0 => processing[r] > 0
             /\ r.job = JobOf(w) => processing'[r] = 0
  <2>1. processing[r] \in Nat
    OBVIOUS
  <2>2. CASE r = held[w]
    BY <1>3, <2>2
  <2>3. CASE r # held[w]
    BY <1>3, <1>4, <2>1, <2>3
  <2> QED
    BY <2>2, <2>3
<1>6. \A j : InProcess(j)' => InProcess(j) /\ j # JobOf(w)
  BY <1>5 DEF InProcess
<1>7. HeartbeatHasEntry'
  BY <1>1, <1>3 DEF HeartbeatHasEntry, Hdel, Age
<1> QED
  BY <1>1, <1>3, <1>5, <1>6, <1>7
-----------------------------------------------------------------------------
(* Steps that leave the queue alone. *)

\* The worker goes on with the entry it has, or lets go of it unacknowledged.
LEMMA QuietSole ==
    ASSUME OneWorker, SoleInv, NEW w \in Worker,
           UNCHANGED <<queueVars, row, settled>>, TypeInv',
           NEW place, Goto(w, place), place \notin {"backoff", "reclaim", "reaping"},
           place \in AtWork =>
               pc[w] \in AtWork /\ held' = held /\ (pc[w] = "failed" => place = "failed"),
           \A r \in Raw : scan'[w][r] = 0
    PROVE  SoleInv'
<1> USE DEF SoleInv, Sole, TypeInv, TypeOK
<1>1. \A v \in Worker : v = w /\ pc'[v] = place
  BY DEF OneWorker, Goto
<1>2. \A j : /\ InPending(j)' <=> InPending(j)
             /\ InProcess(j)' <=> InProcess(j)
             /\ ~InBackoff(j)'
  BY <1>1 DEF InPending, InProcess, InBackoff
<1>3. OneEntryPerJob'
  BY <1>1, <1>2 DEF OneEntryPerJob
<1>4. Born'
  BY <1>1, <1>2 DEF Born, Listed, Known, HandsKnown, Holding, AtWork
<1>5. ScanListed'
  BY <1>1 DEF ScanListed
<1>6. HandListed'
  <2> SUFFICES ASSUME place \in AtWork
               PROVE  HandListed'
    BY <1>1 DEF HandListed
  <2>1. held' = held /\ JobOf(w)' = JobOf(w) /\ pc[w] \in AtWork
    BY DEF JobOf
  <2> QED
    BY <1>1, <1>2, <2>1 DEF HandListed
<1> QED
  BY <1>3, <1>4, <1>5, <1>6 DEF HeartbeatHasEntry

LEMMA WorkSole ==
    ASSUME OneWorker, SoleInv, NEW w \in Worker, TypeInv',
           \/ FinishReap(w) \/ ClaimNothing(w)
           \/ Guard(w) \/ Abandon(w) \/ BeginCounted(w) \/ BeginUncounted(w)
           \/ RunFails(w) \/ RunSucceeds(w) \/ Restart(w)
    PROVE  SoleInv'
<1> USE DEF SoleInv, Sole
<1>1. \E place : /\ Goto(w, place) /\ place \notin {"backoff", "reclaim", "reaping"}
                 /\ place \in AtWork => pc[w] \in AtWork \ {"failed"}
  BY DEF FinishReap, ClaimNothing, Guard, Abandon, BeginCounted, BeginUncounted,
         RunFails, RunSucceeds, Restart, AtWork
<1>2. UNCHANGED <<queueVars, row, settled, held, scan>>
  BY DEF FinishReap, ClaimNothing, Guard, Abandon, BeginCounted, BeginUncounted,
         RunFails, RunSucceeds, Restart
<1>3. \A r \in Raw : scan'[w][r] = 0
  BY <1>2 DEF FinishReap, ClaimNothing, Guard, Abandon, BeginCounted, BeginUncounted,
              RunFails, RunSucceeds, Restart, ScanListed
<1> QED
  BY <1>1, <1>2, <1>3, QuietSole

LEMMA DeathSole ==
    ASSUME OneWorker, SoleInv, NEW w \in Worker, TypeInv',
           Dies(w) \/ ReapFails(w) \/ ClaimFails(w)
    PROVE  SoleInv'
<1> USE DEF SoleInv, Sole, TypeInv, TypeOK
<1>1. \E place \in {"down", "claim", "loop"} : Goto(w, place)
  BY DEF Dies, ReapFails, ClaimFails, NextIteration
<1>2. UNCHANGED <<queueVars, row, settled>>
  BY DEF Dies, ReapFails, ClaimFails, NextIteration
<1>3. \A r \in Raw : scan'[w][r] = 0
  BY DEF Dies, ReapFails, ClaimFails, NextIteration, ScanListed, Nothing
<1> QED
  BY <1>1, <1>2, <1>3, QuietSole DEF AtWork

LEMMA RowSole ==
    ASSUME SoleInv, TypeInv', UNCHANGED <<queueVars, workerVars, settled>>,
           \A j \in Job : Known(j) => Known(j)'
    PROVE  SoleInv'
<1> USE DEF SoleInv, Sole
<1>1. \A j : /\ InPending(j)' <=> InPending(j)
             /\ InProcess(j)' <=> InProcess(j)
             /\ InBackoff(j)' <=> InBackoff(j)
  BY DEF InPending, InProcess, InBackoff, JobOf
<1>2. \A w \in Worker : pc[w] \in Holding => held[w].job \in Job
  BY DEF TypeInv, HandsFull, Raw
<1>3. Born'
  BY <1>1, <1>2 DEF Born, Listed, HandsKnown, Known
<1>4. OneEntryPerJob'
  BY <1>1 DEF OneEntryPerJob, JobOf
<1>5. HandListed'
  BY <1>1 DEF HandListed, JobOf
<1> QED
  BY <1>3, <1>4, <1>5 DEF ScanListed, HeartbeatHasEntry

-----------------------------------------------------------------------------
(* Steps that move the entry of a job. *)

\* The first entry of a job: its row was not there, so nothing else was.
LEMMA EnqueueSole ==
    ASSUME OneWorker, SoleInv, TypeInv', NEW j \in Job, Enqueue(j)
    PROVE  SoleInv'
<1> USE DEF SoleInv, Sole, TypeInv
<1>1. FirstRaw(j) \in Raw /\ FirstRaw(j).job = j
  BY QueueAssumption DEF FirstRaw, Raw
<1>2. ~Known(j) /\ (\A i \in Job : Known(i) => Known(i)') /\ Known(j)'
  BY DEF Enqueue, Known, TypeOK
<1>3. /\ ~InPending(j) /\ ~InProcess(j)
      /\ \A w \in Worker : pc[w] \in Holding => held[w].job \in Job /\ held[w].job # j
  BY <1>2 DEF Born, Listed, HandsKnown, HandsFull, Raw
<1>4. UNCHANGED <<processing, heartbeat, workerVars, settled>>
  BY DEF Enqueue
<1>5. \A i : /\ InPending(i)' <=> InPending(i) \/ i = j
             /\ InProcess(i)' <=> InProcess(i)
             /\ InBackoff(i)' <=> InBackoff(i)
  BY <1>1, <1>4, PushJobs DEF Enqueue, InProcess, InBackoff, JobOf
<1>6. Once'
  BY <1>1, <1>3, PushOnce DEF Enqueue, OneEntryPerJob, Once
<1>7. ~InBackoff(j)
  BY <1>3 DEF InBackoff, JobOf, Holding
<1>8. OneEntryPerJob'
  BY <1>3, <1>4, <1>5, <1>6, <1>7 DEF OneEntryPerJob, Once, JobOf
<1>9. Born'
  BY <1>2, <1>3, <1>4, <1>5 DEF Born, Listed, HandsKnown
<1>10. HandListed'
  BY <1>3, <1>4, <1>5 DEF HandListed, JobOf, AtWork, Holding
<1> QED
  BY <1>4, <1>8, <1>9, <1>10 DEF ScanListed, HeartbeatHasEntry

\* The reaper reads the list, then looks at its entries one by one.
LEMMA ScanSole ==
    ASSUME OneWorker, SoleInv, TypeInv', NEW w \in Worker,
           StartReap(w) \/ \E r \in Raw : InspectHeartbeat(w, r)
    PROVE  SoleInv'
<1> USE DEF SoleInv, Sole, TypeInv, TypeOK
<1>1. /\ UNCHANGED <<queueVars, row, settled>>
      /\ \A v \in Worker : v = w /\ pc'[v] \in {"reaping", "reclaim"}
  BY DEF StartReap, InspectHeartbeat, Goto, OneWorker
<1>2. \A j : /\ InPending(j)' <=> InPending(j)
             /\ InProcess(j)' <=> InProcess(j)
             /\ ~InBackoff(j)'
  BY <1>1 DEF InPending, InProcess, InBackoff
<1>3. OneEntryPerJob'
  BY <1>1, <1>2 DEF OneEntryPerJob
<1>4. HandListed'
  BY <1>1 DEF HandListed, AtWork
<1>5. CASE StartReap(w)
  <2>1. ScanListed'
    BY <1>1, <1>5 DEF StartReap, Goto, ScanListed
  <2>2. Born'
    BY <1>1, <1>2, <1>5 DEF StartReap, Goto, Born, Listed, Known, HandsKnown, Holding
  <2> QED
    BY <1>1, <1>3, <1>4, <2>1, <2>2 DEF HeartbeatHasEntry
<1>6. ASSUME NEW r \in Raw, InspectHeartbeat(w, r)
      PROVE  SoleInv'
  <2>1. /\ processing[r] > 0 /\ scan[w][r] \in Nat /\ processing[r] \in Nat
        /\ scan[w][r] > 0 /\ scan[w][r] <= processing[r]
    BY <1>6 DEF InspectHeartbeat, ScanListed
  <2>2. processing[r] = 1 /\ scan[w][r] = 1
    BY <2>1 DEF OneEntryPerJob
  <2>3. scan'[w] = [scan[w] EXCEPT ![r] = 0]
    BY <1>6, <2>2 DEF InspectHeartbeat
  <2>4. \/ pc'[w] = "reaping" /\ held' = held
        \/ pc'[w] = "reclaim" /\ held'[w] = r
    BY <1>6 DEF InspectHeartbeat, Goto
  <2>5. ScanListed'
    BY <1>1, <2>2, <2>3, <2>4 DEF ScanListed
  <2>6. Known(r.job)
    BY <2>1 DEF Born, Listed, InProcess, Raw
  <2>7. Born'
    BY <1>1, <1>2, <2>4, <2>6 DEF Born, Listed, Known, HandsKnown, Holding
  <2> QED
    BY <1>1, <1>3, <1>4, <2>5, <2>7 DEF HeartbeatHasEntry
<1> QED
  BY <1>5, <1>6

\* LREM, HDEL and LPUSH move the only entry back to the pending list.
LEMMA ReclaimSole ==
    ASSUME OneWorker, SoleInv, TypeInv', NEW w \in Worker, Reclaim(w)
    PROVE  SoleInv'
<1> USE DEF SoleInv, Sole, TypeInv, TypeOK
<1> DEFINE j == JobOf(w)
<1>1. /\ pc[w] = "reclaim" /\ Lrem(held[w]) /\ Hdel(held[w]) /\ Push(held[w])
      /\ UNCHANGED <<row, scan, settled>>
      /\ \A v \in Worker : v = w /\ pc'[v] = "reaping"
  BY DEF Reclaim, ReturnToPending, Goto, OneWorker
<1>2. /\ held[w] \in Raw
      /\ \A r \in Raw : r # held[w] => processing'[r] = processing[r]
      /\ \A i : InProcess(i)' => InProcess(i) /\ i # j
      /\ HeartbeatHasEntry'
  BY <1>1, Acknowledged
<1>3. processing[held[w]] > 0 /\ scan[w][held[w]] = 0
  BY <1>1, <1>2 DEF ScanListed
<1>4. InProcess(j) /\ j \in Job
  BY <1>2, <1>3 DEF InProcess, JobOf, Raw
<1>5. ~InPending(j)
  BY <1>4 DEF OneEntryPerJob
<1>6. \A i : i = held[w].job => ~InPending(i)
  BY <1>5 DEF JobOf
<1>7. Once'
  BY <1>1, <1>2, <1>6, PushOnce DEF OneEntryPerJob, Once
<1>8. \A i : /\ InPending(i)' <=> InPending(i) \/ i = j
             /\ ~InBackoff(i)'
  BY <1>1, <1>2, PushJobs DEF InBackoff, JobOf
<1>9. \A r \in Raw : processing'[r] > 0 => r # held[w] /\ processing[r] > 0
  BY <1>2 DEF InProcess, JobOf
<1>10. OneEntryPerJob'
  BY <1>1, <1>2, <1>7, <1>8, <1>9 DEF OneEntryPerJob, Once
<1>11. Born'
  BY <1>1, <1>2, <1>4, <1>8 DEF Born, Listed, Known, HandsKnown, Holding
<1>12. ASSUME NEW v \in Worker, NEW r \in Raw
       PROVE  scan'[v][r] <= processing'[r] /\ pc'[v] = "reaping"
  <2>1. /\ scan'[v] = scan[w] /\ pc'[v] = "reaping"
        /\ scan[w][r] \in Nat /\ processing'[r] \in Nat /\ scan[w][r] <= processing[r]
    BY <1>1 DEF ScanListed
  <2>2. CASE r = held[w]
    BY <1>3, <2>1, <2>2
  <2>3. CASE r # held[w]
    BY <1>2, <2>1, <2>3
  <2> QED
    BY <2>1, <2>2, <2>3
<1>13. ScanListed'
  BY <1>12 DEF ScanListed
<1>14. HandListed'
  BY <1>1 DEF HandListed, AtWork
<1> QED
  BY <1>2, <1>10, <1>11, <1>13, <1>14

LEMMA PopSole ==
    ASSUME OneWorker, SoleInv, TypeInv', NEW w \in Worker, Pop(w)
    PROVE  SoleInv'
<1> USE DEF SoleInv, Sole, TypeInv, TypeOK
<1> PICK r : r = Head(pending)
  OBVIOUS
<1>1. /\ pending # <<>> /\ pending' = Tail(pending) /\ r \in Raw
      /\ processing' = [processing EXCEPT ![r] = processing[r] + 1]
      /\ UNCHANGED <<heartbeat, row, scan, settled>>
      /\ \A v \in Worker : v = w /\ pc'[v] = "popped" /\ held'[v] = r
      /\ pc[w] \in {"loop", "claim"}
  BY QueueTypes DEF Pop, Goto, OneWorker, EnterProcessing
<1>2. /\ Once'
      /\ \A j : j = r.job => ~InPending(j)'
  BY <1>1, PopOnce DEF OneEntryPerJob, Once
<1>3. \A j : /\ InPending(j) <=> InPending(j)' \/ j = r.job
             /\ InProcess(j)' <=> InProcess(j) \/ j = r.job
             /\ ~InBackoff(j)'
  BY <1>1, PopJobs, EnterJobs DEF InBackoff, EnterProcessing
<1>4. r.job \in Job /\ Known(r.job) /\ ~InProcess(r.job)
  BY <1>1, <1>3 DEF Raw, Born, Listed, OneEntryPerJob
<1>5. ASSUME NEW q \in Raw, q.job = r.job
      PROVE  processing[q] = 0
  BY <1>4, <1>5 DEF InProcess
<1>6. /\ processing'[r] = 1
      /\ \A q \in Raw : q # r => processing'[q] = processing[q]
  <2>1. processing[r] = 0
    BY <1>1, <1>5
  <2> QED
    BY <1>1, <2>1
<1>7. ASSUME NEW q \in Raw, NEW k \in Raw,
             q.job = k.job, processing'[q] > 0, processing'[k] > 0
      PROVE  q = k /\ processing'[q] = 1
  <2>1. CASE q = r \/ k = r
    <3>1. q.job = r.job /\ k.job = r.job
      BY <1>7, <2>1
    <3>2. processing[q] = 0 /\ processing[k] = 0
      BY <1>5, <3>1
    <3>3. q = r /\ k = r
      BY <1>6, <1>7, <3>2
    <3> QED
      BY <1>6, <3>3
  <2>2. CASE q # r /\ k # r
    BY <1>6, <1>7, <2>2 DEF OneEntryPerJob
  <2> QED
    BY <2>1, <2>2
<1>8. OneEntryPerJob'
  BY <1>1, <1>2, <1>3, <1>7 DEF OneEntryPerJob, Once
<1>9. Born'
  BY <1>1, <1>3, <1>4 DEF Born, Listed, Known, HandsKnown
<1>10. \A q \in Raw : scan[w][q] = 0
  BY <1>1 DEF ScanListed
<1>11. ScanListed'
  BY <1>1, <1>10 DEF ScanListed
<1>12. HandListed'
  BY <1>1, <1>2, <1>5, <1>6 DEF HandListed, JobOf
<1>13. HeartbeatHasEntry'
  BY <1>1, <1>6 DEF HeartbeatHasEntry
<1> QED
  BY <1>8, <1>9, <1>11, <1>12, <1>13

\* A heartbeat is set for an entry in process, and may grow old.
LEMMA BeatSole ==
    ASSUME OneWorker, SoleInv, TypeInv',
           \/ \E w \in Worker : Beat(w)
           \/ \E r \in Raw : Expire(r)
    PROVE  SoleInv'
<1> USE DEF SoleInv, Sole, TypeInv, TypeOK
<1>1. CASE \E r \in Raw : Expire(r)
  <2>1. UNCHANGED <<pending, processing, row, workerVars, settled>>
    BY <1>1 DEF Expire
  <2>2. \A j : /\ InPending(j)' <=> InPending(j)
               /\ InProcess(j)' <=> InProcess(j)
               /\ InBackoff(j)' <=> InBackoff(j)
    BY <2>1 DEF InPending, InProcess, InBackoff, JobOf
  <2>3. OneEntryPerJob' /\ Born'
    BY <2>1, <2>2 DEF OneEntryPerJob, JobOf, Born, Listed, Known, HandsKnown
  <2>4. ScanListed' /\ HandListed'
    BY <2>1, <2>2 DEF ScanListed, HandListed, JobOf
  <2>5. HeartbeatHasEntry'
    BY <1>1, <2>1 DEF Expire, HeartbeatHasEntry
  <2> QED
    BY <2>3, <2>4, <2>5
<1>2. ASSUME NEW w \in Worker, Beat(w)
      PROVE  SoleInv'
  <2>1. /\ UNCHANGED <<pending, processing, row, held, scan, settled>>
        /\ pc[w] = "popped" /\ \A v \in Worker : v = w /\ pc'[v] = "guard"
        /\ heartbeat' = [heartbeat EXCEPT ![held[w]] = "fresh"]
    BY <1>2 DEF Beat, Goto, OneWorker
  <2>2. \A j : /\ InPending(j)' <=> InPending(j)
               /\ InProcess(j)' <=> InProcess(j)
               /\ ~InBackoff(j)'
    BY <2>1 DEF InPending, InProcess, InBackoff
  <2>3. OneEntryPerJob' /\ Born'
    BY <2>1, <2>2 DEF OneEntryPerJob, Born, Listed, Known, HandsKnown, Holding
  <2>4. processing[held[w]] > 0
    BY <2>1 DEF HandListed, AtWork
  <2>5. HandListed'
    BY <2>1, <2>2, <2>4 DEF HandListed, JobOf, AtWork
  <2>6. ScanListed'
    BY <2>1 DEF ScanListed
  <2>7. HeartbeatHasEntry'
    BY <2>1, <2>4 DEF HeartbeatHasEntry
  <2> QED
    BY <2>3, <2>5, <2>6, <2>7
<1> QED
  BY <1>1, <1>2

\* Whatever acknowledges the entry at work leaves nothing of its job in Redis.
LEMMA TakenOut ==
    ASSUME OneWorker, SoleInv, TypeInv', NEW w \in Worker, pc[w] \in AtWork,
           Lrem(held[w]), Hdel(held[w]), UNCHANGED <<pending, row, scan>>,
           NEW place \in {"loop", "failed", "backoff"}, Goto(w, place),
           place # "loop" => held' = held,
           place = "failed" => JobOf(w) \in settled'
    PROVE  SoleInv'
<1> USE DEF SoleInv, Sole, TypeInv, TypeOK
<1>1. \A v \in Worker : v = w /\ pc'[v] = place
  BY DEF OneWorker, Goto
<1>2. /\ held[w] \in Raw
      /\ processing' \in [Raw -> Nat] /\ processing'[held[w]] = 0
      /\ \A r \in Raw : r # held[w] => processing'[r] = processing[r]
      /\ \A r \in Raw : r.job = JobOf(w) => processing'[r] = 0
      /\ \A j : InProcess(j)' => InProcess(j) /\ j # JobOf(w)
      /\ HeartbeatHasEntry'
  BY Acknowledged
<1>3. \A j : InPending(j)' <=> InPending(j)
  BY DEF InPending
<1>4. \A j : InBackoff(j)' <=> place = "backoff" /\ j = JobOf(w)
  BY <1>1 DEF InBackoff, JobOf
<1>5. ~InPending(JobOf(w)) /\ Known(JobOf(w))
  BY DEF HandListed, Born, HandsKnown, AtWork, Holding, JobOf
<1>6. ASSUME NEW q \in Raw, NEW k \in Raw,
             q.job = k.job, processing'[q] > 0, processing'[k] > 0
      PROVE  q = k /\ processing'[q] = 1
  <2>1. q # held[w] /\ k # held[w]
    BY <1>2, <1>6
  <2> QED
    BY <1>2, <1>6, <2>1 DEF OneEntryPerJob
<1>7. \A j \in Job : InPending(j) => ~InProcess(j)
  BY DEF OneEntryPerJob
<1>8. \A j \in Job : InPending(j)' => ~InProcess(j)' /\ ~InBackoff(j)'
  BY <1>2, <1>3, <1>4, <1>5, <1>7
<1>9. \A j \in Job : InBackoff(j)' => ~InPending(j)' /\ ~InProcess(j)'
  BY <1>2, <1>3, <1>4, <1>5
<1>10. OneEntryPerJob'
  BY <1>1, <1>6, <1>8, <1>9 DEF OneEntryPerJob
<1>11. Born'
  BY <1>1, <1>2, <1>3, <1>5 DEF Born, Listed, Known, HandsKnown, Holding, JobOf
<1>12. \A r \in Raw : scan[w][r] = 0
  BY DEF ScanListed, AtWork
<1>13. ScanListed'
  BY <1>1, <1>2, <1>12 DEF ScanListed
<1>14. HandListed'
  <2> SUFFICES ASSUME place = "failed"
               PROVE  HandListed'
    BY <1>1 DEF HandListed, AtWork
  <2>1. held' = held /\ JobOf(w)' = JobOf(w)
    BY DEF JobOf
  <2> QED
    BY <1>1, <1>2, <1>3, <1>5, <2>1 DEF HandListed
<1> QED
  BY <1>2, <1>10, <1>11, <1>13, <1>14

LEMMA EndSole ==
    ASSUME OneWorker, SoleInv, TypeInv', NEW w \in Worker,
           Ack(w) \/ GiveUp(w) \/ AckAndBackOff(w) \/ AckFails(w)
    PROVE  SoleInv'
<1> USE DEF SoleInv, Sole, TypeInv, TypeOK
<1>1. CASE Ack(w) \/ GiveUp(w)
  BY <1>1, TakenOut DEF Ack, GiveUp, NextIteration, AtWork
<1>2. CASE AckAndBackOff(w)
  BY <1>2, TakenOut DEF AckAndBackOff, AtWork
<1>3. CASE AckFails(w)
  <2>1. CASE UNCHANGED <<queueVars, settled>>
    <3>1. \A r \in Raw : scan'[w][r] = 0
      BY <1>3 DEF AckFails, ScanListed
    <3> QED
      BY <1>3, <2>1, <3>1, QuietSole DEF AckFails, AtWork
  <2>2. CASE Lrem(held[w]) /\ Hdel(held[w]) /\ settled' = settled \cup {JobOf(w)}
    BY <1>3, <2>2, TakenOut DEF AckFails, AtWork
  <2> QED
    BY <1>3, <2>1, <2>2 DEF AckFails
<1> QED
  BY <1>1, <1>2, <1>3

\* After the backoff the next attempt is the only entry again.
LEMMA RetrySole ==
    ASSUME OneWorker, SoleInv, TypeInv', NEW w \in Worker, PushRetry(w)
    PROVE  SoleInv'
<1> USE DEF SoleInv, Sole, TypeInv, TypeOK
<1> PICK r : r = NextRaw(held[w])
  OBVIOUS
<1>1. /\ pc[w] = "backoff" /\ Push(r)
      /\ UNCHANGED <<processing, heartbeat, row, scan, settled>>
      /\ \A v \in Worker : v = w /\ pc'[v] = "loop"
  BY DEF PushRetry, NextIteration, Goto, OneWorker
<1>2. r \in Raw /\ r.job = JobOf(w) /\ r.job \in Job
  BY <1>1, NextRawType DEF HandsFull, Holding, JobOf, Raw
<1>3. InBackoff(r.job) /\ Known(r.job)
  BY <1>1, <1>2 DEF InBackoff, Born, HandsKnown, Holding, JobOf
<1>4. ~InPending(r.job) /\ ~InProcess(r.job)
  BY <1>2, <1>3 DEF OneEntryPerJob
<1>5. Once'
  BY <1>1, <1>2, <1>4, PushOnce DEF OneEntryPerJob, Once
<1>6. \A j : /\ InPending(j)' <=> InPending(j) \/ j = r.job
             /\ InProcess(j)' <=> InProcess(j)
             /\ ~InBackoff(j)'
  BY <1>1, <1>2, PushJobs DEF InProcess, InBackoff
<1>7. OneEntryPerJob'
  BY <1>1, <1>4, <1>5, <1>6 DEF OneEntryPerJob, Once
<1>8. Born'
  BY <1>1, <1>3, <1>6 DEF Born, Listed, Known, HandsKnown, Holding
<1>9. ScanListed' /\ HandListed'
  BY <1>1 DEF ScanListed, HandListed, AtWork
<1> QED
  BY <1>1, <1>7, <1>8, <1>9 DEF HeartbeatHasEntry
-----------------------------------------------------------------------------

LEMMA NextSole == OneWorker /\ SoleInv /\ [Next]_vars => SoleInv'
<1> SUFFICES ASSUME OneWorker, SoleInv, [Next]_vars
             PROVE  SoleInv'
  OBVIOUS
<1>1. TypeInv'
  BY TypeStep DEF SoleInv
<1>2. ASSUME NEW j \in Job, Enqueue(j) \/ CloseRequest(j) \/ ResendEnqueue(j)
      PROVE  SoleInv'
  <2>1. CASE Enqueue(j)
    BY <1>1, <2>1, EnqueueSole
  <2>2. CASE CloseRequest(j)
    <3>1. \A i \in Job : Known(i) => Known(i)'
      BY <2>2 DEF CloseRequest, Known, SoleInv, TypeInv, TypeOK
    <3> QED
      BY <1>1, <2>2, <3>1, RowSole DEF CloseRequest
  <2>3. ~ResendEnqueue(j)
    BY DEF ResendEnqueue, Charge, OneWorker
  <2> QED
    BY <1>2, <2>1, <2>2, <2>3
<1>3. ASSUME NEW gone \in SUBSET Job, DeleteRows(gone)
      PROVE  SoleInv'
  <2>1. \A i \in Job : Known(i) => Known(i)'
    BY <1>3 DEF DeleteRows, Known
  <2> QED
    BY <1>1, <1>3, <2>1, RowSole DEF DeleteRows
<1>4. ASSUME NEW w \in Worker, ReapStep(w)
      PROVE  SoleInv'
  BY <1>1, <1>4, ScanSole, ReclaimSole, WorkSole DEF ReapStep
<1>5. ASSUME NEW w \in Worker, JobStep(w)
      PROVE  SoleInv'
  BY <1>1, <1>5, PopSole, BeatSole, WorkSole, EndSole, RetrySole DEF JobStep
<1>6. ASSUME NEW w \in Worker, FaultStep(w)
      PROVE  SoleInv'
  <2>1. ~Resend(w)
    BY DEF Resend, Charge, OneWorker
  <2> QED
    BY <1>1, <1>6, <2>1, DeathSole, EndSole DEF FaultStep, Stop, RunCrash, Crash
<1>7. ASSUME NEW w \in Worker, Restart(w)
      PROVE  SoleInv'
  BY <1>1, <1>7, WorkSole
<1>8. ASSUME NEW r \in Raw, Expire(r)
      PROVE  SoleInv'
  BY <1>1, <1>8, BeatSole
<1>9. CASE UNCHANGED vars
  BY <1>1, <1>9, RowSole DEF Known
<1> QED
  BY <1>2, <1>3, <1>4, <1>5, <1>6, <1>7, <1>8, <1>9 DEF Next

LEMMA AlwaysSole == OneWorker /\ Spec => []SoleInv
<1>1. OneWorker /\ SoleInv /\ [Next]_vars => SoleInv'
  BY NextSole
<1>2. OneWorker => OneWorker'
  BY DEF OneWorker
<1> QED
  BY InitSole, <1>1, <1>2, PTL DEF Spec

\* One worker never multiplies a job, whatever dies or fails.
THEOREM NoJobIsDoubled == OneWorker /\ Spec => []OneEntryPerJob
<1>1. SoleInv => OneEntryPerJob
  BY DEF SoleInv, Sole
<1> QED
  BY AlwaysSole, <1>1, PTL

\* No heartbeat outlives its entry, so a later claim of the same entry does
\* not find an old one.
THEOREM NoHeartbeatIsLeft == OneWorker /\ Spec => []HeartbeatHasEntry
<1>1. SoleInv => HeartbeatHasEntry
  BY DEF SoleInv, Sole
<1> QED
  BY AlwaysSole, <1>1, PTL

\* If the worker dies while it works, the reaper finds the entry.
THEOREM WorkIsFound == OneWorker /\ Spec => []WorkIsRecoverable
<1>1. SoleInv => WorkIsRecoverable
  BY DEF SoleInv, Sole, HandListed, WorkIsRecoverable, Working, AtWork, JobOf
<1> QED
  BY AlwaysSole, <1>1, PTL
=============================================================================
