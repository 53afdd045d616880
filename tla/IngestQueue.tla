---------------------------- MODULE IngestQueue ----------------------------
(***************************************************************************)
(* The Redis ingestion queue (backend/app/services/queue.py) and the loop  *)
(* of the workers that consume it (backend/app/worker.py).                 *)
(*                                                                         *)
(* A queue entry ("raw") is the encoded job: two deliveries of one attempt *)
(* are the SAME string, so LREM and the heartbeat hash cannot tell them    *)
(* apart.  `pending' is the pending list, oldest entry first: LPUSH is     *)
(* Append, the popping end is Head.  `processing' counts the copies of     *)
(* each entry in the processing list, whose order nothing depends on.      *)
(* Time is reduced to what the reaper reads of it: a heartbeat is absent,  *)
(* fresh, or older than VISIBILITY_TIMEOUT_SECONDS.                        *)
(*                                                                         *)
(* process_document is one step here, with its durable attempt counter;    *)
(* module Ingestion refines it.  A process dies or a call fails only as    *)
(* `Faults' and the budget `MaxFaults' allow, so that each run names what  *)
(* it tolerates.                                                           *)
(***************************************************************************)
EXTENDS Integers, Sequences, FiniteSets

CONSTANTS
    Worker,       \* worker processes
    Job,          \* ingestion jobs (rows of ingestion_jobs)
    Requeued,     \* those created by requeue, for a document already there
    MaxAttempts,  \* MAX_ATTEMPTS
    Faults,       \* the kinds of fault that may occur, of FaultKinds
    MaxFaults,    \* bound: how many stops and faults, run_crash excepted
    MaxBacklog,   \* bound: the reaper runs while fewer entries are pending
    NoRaw         \* held by a worker that holds no queue entry

FaultKinds ==
    { "run_crash",      \* a job kills its worker, any number of times (OOM)
      "any_crash",      \* a process dies anywhere but in the backoff
      "backoff_crash",  \* it dies, or LPUSH fails, in the backoff of requeue
      "redis_error",    \* a Redis call of a worker raises
      "resent",         \* a Redis command is executed and its reply lost
      "ghost_job",      \* a requeueing request dies between push and commit
      "slow_job" }      \* a live job outlasts the visibility timeout

Raw == [job : Job, attempt : 0 .. MaxAttempts - 1]

ASSUME QueueAssumption ==
    /\ IsFiniteSet(Worker)
    /\ MaxAttempts \in Nat \ {0}
    /\ MaxFaults \in Nat
    /\ Requeued \subseteq Job
    /\ MaxBacklog \in Nat
    /\ Faults \subseteq FaultKinds
    /\ NoRaw \notin Raw

VARIABLES
    pending,     \* Redis list kos:v1:queue:ingest
    processing,  \* Redis list ...:processing, as a count of each entry
    heartbeat,   \* Redis hash ...:heartbeat
    row,         \* what other transactions see of each job's row
    attempts,    \* ingestion_jobs.attempts
    pc,          \* where each worker is in consume_forever
    held,        \* the entry a worker has in hand
    scan,        \* what is left of the reaper's LRANGE
    loaded,      \* attempts as the worker's session loaded it, or NoRow
    settled,     \* history: jobs a worker finished with on purpose
    faults       \* history: how many faults the budget was charged

queueVars  == <<pending, processing, heartbeat>>
rowVars    == <<row, attempts>>
workerVars == <<pc, held, scan, loaded>>
vars == <<queueVars, rowVars, workerVars, settled, faults>>

Age == {"none", "fresh", "expired"}
RowState == {"unborn", "open", "visible", "aborted", "deleted"}
Place == {"down", "loop", "claim", "reaping", "reclaim", "popped", "guard", "begin",
          "run", "abandon", "ack", "failed", "backoff"}
NoRow == -1
Nothing == [r \in Raw |-> 0]

\* The first delivery of a job, and the delivery after a failed attempt.
FirstRaw(j) == [job |-> j, attempt |-> 0]
NextRaw(r) == [job |-> r.job, attempt |-> r.attempt + 1]

TypeOK ==
    /\ pending \in Seq(Raw)
    /\ processing \in [Raw -> Nat]
    /\ heartbeat \in [Raw -> Age]
    /\ row \in [Job -> RowState]
    /\ attempts \in [Job -> Nat]
    /\ pc \in [Worker -> Place]
    /\ held \in [Worker -> Raw \cup {NoRaw}]
    /\ scan \in [Worker -> [Raw -> Nat]]
    /\ loaded \in [Worker -> Nat \cup {NoRow}]
    /\ settled \subseteq Job
    /\ faults \in Nat

Init ==
    /\ pending = <<>>
    /\ processing = Nothing
    /\ heartbeat = [r \in Raw |-> "none"]
    /\ row = [j \in Job |-> "unborn"]
    /\ attempts = [j \in Job |-> 0]
    /\ pc = [w \in Worker |-> "loop"]
    /\ held = [w \in Worker |-> NoRaw]
    /\ scan = [w \in Worker |-> Nothing]
    /\ loaded = [w \in Worker |-> NoRow]
    /\ settled = {}
    /\ faults = 0

-----------------------------------------------------------------------------
(* The Redis commands. *)

\* LPUSH
Push(r) == pending' = Append(pending, r)

\* The popping half of BRPOPLPUSH: the entry is listed as in process at once.
PopOnly(r) == UNCHANGED processing                            \* a mutant
EnterProcessing(r) == processing' = [processing EXCEPT ![r] = @ + 1]

\* LREM key 1 raw: removes one copy, whoever's it is, or nothing.
LremNothing(r) == UNCHANGED processing                        \* a mutant
Lrem(r) == processing' = [processing EXCEPT ![r] = IF @ > 0 THEN @ - 1 ELSE 0]

\* HDEL
KeepHeartbeat(r) == UNCHANGED heartbeat                       \* a mutant
Hdel(r) == heartbeat' = [heartbeat EXCEPT ![r] = "none"]

Goto(w, place) == pc' = [pc EXCEPT ![w] = place]

\* The end of one iteration of the loop: db.close(), nothing in hand.
NextIteration(w) ==
    /\ Goto(w, "loop")
    /\ held' = [held EXCEPT ![w] = NoRaw]
    /\ loaded' = [loaded EXCEPT ![w] = NoRow]
    /\ UNCHANGED scan

JobOf(w) == held[w].job

\* A fault of this kind may happen, and uses up some of the budget.
Charge(kind) ==
    /\ kind \in Faults
    /\ faults < MaxFaults
    /\ faults' = faults + 1

-----------------------------------------------------------------------------
(* The API: the entry is pushed before the job's row is committed. *)

Enqueue(j) ==
    /\ row[j] = "unborn"
    /\ row' = [row EXCEPT ![j] = "open"]
    /\ Push(FirstRaw(j))
    /\ UNCHANGED <<processing, heartbeat, attempts, workerVars, settled, faults>>

\* The request commits, or it dies and the row never appears: with it the
\* document of a first upload, but not one that was there before.
CloseRequest(j) ==
    /\ row[j] = "open"
    /\ \/ row' = [row EXCEPT ![j] = "visible"]
       \/ /\ j \notin Requeued \/ "ghost_job" \in Faults
          /\ row' = [row EXCEPT ![j] = "aborted"]
    /\ UNCHANGED <<queueVars, attempts, workerVars, settled, faults>>

\* Deleting a document cascades to its jobs; the queue is not told.
DeleteRows(gone) ==
    /\ gone # {}
    /\ \A j \in gone : row[j] = "visible"
    /\ row' = [j \in Job |-> IF j \in gone THEN "deleted" ELSE row[j]]
    /\ UNCHANGED <<queueVars, attempts, workerVars, settled, faults>>

-----------------------------------------------------------------------------
(* The reaper, at the top of the loop. *)

\* LRANGE processing 0 -1
StartReap(w) ==
    /\ pc[w] = "loop"
    /\ Len(pending) < MaxBacklog
    /\ Goto(w, "reaping")
    /\ scan' = [scan EXCEPT ![w] = processing]
    /\ UNCHANGED <<queueVars, rowVars, held, loaded, settled, faults>>

\* The heartbeat is there and within the visibility timeout.
NotTimedOut(r) == heartbeat[r] # "expired"                    \* a mutant
Claimed(r) == heartbeat[r] = "fresh"

\* HGET of the next entry: skip it, or decide to reclaim it.
InspectHeartbeat(w, r) ==
    /\ pc[w] = "reaping"
    /\ scan[w][r] > 0
    /\ scan' = [scan EXCEPT ![w] = [scan[w] EXCEPT ![r] = scan[w][r] - 1]]
    /\ \/ /\ Claimed(r)
          /\ UNCHANGED <<pc, held>>
       \/ /\ ~Claimed(r)
          /\ Goto(w, "reclaim")
          /\ held' = [held EXCEPT ![w] = r]
    /\ UNCHANGED <<queueVars, rowVars, loaded, settled, faults>>

\* MULTI LREM, HDEL, LPUSH: the push does not depend on what LREM removed.
DropOrphan(r) == Lrem(r) /\ Hdel(r) /\ UNCHANGED pending      \* a mutant
ReturnToPending(r) == Lrem(r) /\ Hdel(r) /\ Push(r)

Reclaim(w) ==
    /\ pc[w] = "reclaim"
    /\ ReturnToPending(held[w])
    /\ Goto(w, "reaping")
    /\ held' = [held EXCEPT ![w] = NoRaw]
    /\ UNCHANGED <<rowVars, scan, loaded, settled, faults>>

FinishReap(w) ==
    /\ pc[w] = "reaping"
    /\ \A r \in Raw : scan[w][r] = 0
    /\ Goto(w, "claim")
    /\ UNCHANGED <<queueVars, rowVars, held, scan, loaded, settled, faults>>

\* "reaper failed": the scan is dropped and the loop goes on to claim.
ReapFails(w) ==
    /\ Charge("redis_error")
    /\ pc[w] \in {"reaping", "reclaim"}
    /\ Goto(w, "claim")
    /\ held' = [held EXCEPT ![w] = NoRaw]
    /\ scan' = [scan EXCEPT ![w] = Nothing]
    /\ UNCHANGED <<queueVars, rowVars, loaded, settled>>

-----------------------------------------------------------------------------
(* claim: two commands, not one transaction. *)

\* BRPOPLPUSH pending processing
Pop(w) ==
    /\ pc[w] \in {"loop", "claim"}
    /\ pending # <<>>
    /\ pending' = Tail(pending)
    /\ EnterProcessing(Head(pending))
    /\ Goto(w, "popped")
    /\ held' = [held EXCEPT ![w] = Head(pending)]
    /\ UNCHANGED <<heartbeat, rowVars, scan, loaded, settled, faults>>

\* The pop times out on an empty list.
ClaimNothing(w) ==
    /\ pc[w] = "claim"
    /\ pending = <<>>
    /\ Goto(w, "loop")
    /\ UNCHANGED <<queueVars, rowVars, held, scan, loaded, settled, faults>>

\* HSET heartbeat raw now
Beat(w) ==
    /\ pc[w] = "popped"
    /\ heartbeat' = [heartbeat EXCEPT ![held[w]] = "fresh"]
    /\ Goto(w, "guard")
    /\ UNCHANGED <<pending, processing, rowVars, held, scan, loaded, settled, faults>>

\* The pop's reply is lost or HSET raises: the entry stays in processing and
\* the worker backs off without it.
ClaimFails(w) ==
    /\ Charge("redis_error")
    /\ pc[w] = "popped"
    /\ NextIteration(w)
    /\ UNCHANGED <<queueVars, rowVars, settled>>

-----------------------------------------------------------------------------
(* The job in hand. *)

\* persisted is not None and persisted.attempts >= MAX_ATTEMPTS
NeverPoisoned(seen) == FALSE                                  \* a mutant
Poisoned(seen) == seen # NoRow /\ seen >= MaxAttempts

\* The poison-pill guard reads the job's row, when there is one to read.
Guard(w) ==
    /\ pc[w] = "guard"
    /\ LET seen == IF row[JobOf(w)] = "visible" THEN attempts[JobOf(w)] ELSE NoRow
       IN  /\ loaded' = [loaded EXCEPT ![w] = seen]
           /\ Goto(w, IF Poisoned(seen) THEN "abandon" ELSE "begin")
    /\ UNCHANGED <<queueVars, rowVars, held, scan, settled, faults>>

\* The job is marked FAILED for good and committed, unless its row is gone.
Abandon(w) ==
    /\ pc[w] = "abandon"
    /\ row[JobOf(w)] = "visible"
    /\ Goto(w, "ack")
    /\ UNCHANGED <<queueVars, rowVars, held, scan, loaded, settled, faults>>

\* process_document commits PROCESSING and the attempt before the work.  The
\* session writes one more than the value it loaded, or than the one it finds
\* when the guard found no row.
BeginCounted(w) ==
    /\ pc[w] = "begin"
    /\ row[JobOf(w)] = "visible"
    /\ attempts' = [attempts EXCEPT
           ![JobOf(w)] = (IF loaded[w] = NoRow THEN @ ELSE loaded[w]) + 1]
    /\ Goto(w, "run")
    /\ UNCHANGED <<queueVars, row, held, scan, loaded, settled, faults>>

\* The row of a requeued job was not committed yet when it was looked up: the
\* document is processed, and no attempt is counted.
BeginUncounted(w) ==
    /\ pc[w] = "begin"
    /\ loaded[w] = NoRow
    /\ JobOf(w) \in Requeued
    /\ row[JobOf(w)] # "deleted"
    /\ Goto(w, "run")
    /\ UNCHANGED <<queueVars, rowVars, held, scan, loaded, settled, faults>>

\* An exception before the acknowledge: no document, a row deleted under the
\* session, a database error, or any failure of the run.
RunFails(w) ==
    /\ pc[w] \in {"guard", "abandon", "begin", "run"}
    /\ Goto(w, "failed")
    /\ UNCHANGED <<queueVars, rowVars, held, scan, loaded, settled, faults>>

\* process_document returns.
RunSucceeds(w) ==
    /\ pc[w] = "run"
    /\ Goto(w, "ack")
    /\ UNCHANGED <<queueVars, rowVars, held, scan, loaded, settled, faults>>

\* acknowledge after success or after abandoning the job
Ack(w) ==
    /\ pc[w] = "ack"
    /\ Lrem(held[w])
    /\ Hdel(held[w])
    /\ settled' = settled \cup {JobOf(w)}
    /\ NextIteration(w)
    /\ UNCHANGED <<pending, rowVars, faults>>

\* acknowledge raises, executed or not: the handler treats a finished job as
\* a failed one.
AckFails(w) ==
    /\ Charge("redis_error")
    /\ pc[w] = "ack"
    /\ Goto(w, "failed")
    /\ \/ UNCHANGED <<queueVars, settled>>
       \/ /\ Lrem(held[w])
          /\ Hdel(held[w])
          /\ settled' = settled \cup {JobOf(w)}
          /\ UNCHANGED pending
    /\ UNCHANGED <<rowVars, held, scan, loaded>>

\* job.attempt + 1 < MAX_ATTEMPTS
MayRetry(r) == r.attempt + 1 < MaxAttempts

\* requeue acknowledges the attempt, then sleeps.
AckAndBackOff(w) ==
    /\ pc[w] = "failed"
    /\ MayRetry(held[w])
    /\ Lrem(held[w])
    /\ Hdel(held[w])
    /\ Goto(w, "backoff")
    /\ UNCHANGED <<pending, rowVars, held, scan, loaded, settled, faults>>

\* Only after the sleep is the next attempt pushed.
PushRetry(w) ==
    /\ pc[w] = "backoff"
    /\ Push(NextRaw(held[w]))
    /\ NextIteration(w)
    /\ UNCHANGED <<processing, heartbeat, rowVars, settled, faults>>

\* "ingestion permanently failed"
GiveUp(w) ==
    /\ pc[w] = "failed"
    /\ ~MayRetry(held[w])
    /\ Lrem(held[w])
    /\ Hdel(held[w])
    /\ settled' = settled \cup {JobOf(w)}
    /\ NextIteration(w)
    /\ UNCHANGED <<pending, rowVars, faults>>

-----------------------------------------------------------------------------
(* Processes and time. *)

\* What dies with a worker: all it had in memory.
Dies(w) ==
    /\ Goto(w, "down")
    /\ held' = [held EXCEPT ![w] = NoRaw]
    /\ scan' = [scan EXCEPT ![w] = Nothing]
    /\ loaded' = [loaded EXCEPT ![w] = NoRow]
    /\ UNCHANGED <<queueVars, rowVars, settled>>

\* SIGTERM finishes the job in hand; the process ends at the top of the loop.
Stop(w) ==
    /\ pc[w] = "loop"
    /\ faults < MaxFaults
    /\ faults' = faults + 1
    /\ Dies(w)

\* The job kills its worker.
RunCrash(w) ==
    /\ "run_crash" \in Faults
    /\ pc[w] = "run"
    /\ Dies(w)
    /\ UNCHANGED faults

\* Any other death; a Redis error in the exception handler ends the process.
CrashPoint ==
    [ any_crash     |-> Place \ {"down", "backoff"},
      backoff_crash |-> {"backoff"},
      redis_error   |-> {"failed"} ]

Crash(w) ==
    /\ \E kind \in DOMAIN CrashPoint : pc[w] \in CrashPoint[kind] /\ Charge(kind)
    /\ Dies(w)

\* A command is executed and its reply lost: the client sends it again, while
\* its caller waits and others go on (retry_on_timeout).  A pop sent again is
\* ClaimFails and Pop; HSET may be repeated without effect.
ResendEnqueue(j) ==
    /\ Charge("resent")
    /\ row[j] = "open"
    /\ Push(FirstRaw(j))
    /\ UNCHANGED <<processing, heartbeat, rowVars, workerVars, settled>>

Resend(w) ==
    /\ Charge("resent")
    /\ \/ /\ pc[w] = "reclaim"
          /\ ReturnToPending(held[w])
          /\ UNCHANGED settled
       \/ /\ pc[w] = "ack" \/ (pc[w] = "failed" /\ ~MayRetry(held[w]))
          /\ Lrem(held[w]) /\ Hdel(held[w])
          /\ settled' = settled \cup {JobOf(w)}
          /\ UNCHANGED pending
       \/ /\ pc[w] = "backoff"
          /\ Lrem(held[w]) /\ Hdel(held[w])
          /\ UNCHANGED <<pending, settled>>
       \/ /\ pc[w] = "backoff"
          /\ Push(NextRaw(held[w]))
          /\ UNCHANGED <<processing, heartbeat, settled>>
    /\ UNCHANGED <<rowVars, workerVars>>

Restart(w) ==
    /\ pc[w] = "down"
    /\ Goto(w, "loop")
    /\ UNCHANGED <<queueVars, rowVars, held, scan, loaded, settled, faults>>

\* A live worker is between claiming entry r and finishing with it.
Working(w, r) ==
    /\ pc[w] \in {"popped", "guard", "begin", "run", "abandon", "ack", "failed"}
    /\ held[w] = r

\* More than VISIBILITY_TIMEOUT_SECONDS pass since the claim of r.
Expire(r) ==
    /\ heartbeat[r] = "fresh"
    /\ "slow_job" \in Faults \/ \A w \in Worker : ~Working(w, r)
    /\ heartbeat' = [heartbeat EXCEPT ![r] = "expired"]
    /\ UNCHANGED <<pending, processing, rowVars, workerVars, settled, faults>>

-----------------------------------------------------------------------------

ReapStep(w) ==
    \/ StartReap(w) \/ Reclaim(w) \/ FinishReap(w)
    \/ \E r \in Raw : InspectHeartbeat(w, r)

JobStep(w) ==
    \/ Pop(w) \/ ClaimNothing(w) \/ Beat(w) \/ Guard(w) \/ Abandon(w)
    \/ BeginCounted(w) \/ BeginUncounted(w) \/ RunFails(w) \/ RunSucceeds(w) \/ Ack(w)
    \/ AckAndBackOff(w) \/ PushRetry(w) \/ GiveUp(w)

FaultStep(w) ==
    \/ ReapFails(w) \/ ClaimFails(w) \/ AckFails(w)
    \/ Stop(w) \/ RunCrash(w) \/ Crash(w) \/ Resend(w)

Next ==
    \/ \E j \in Job : Enqueue(j) \/ CloseRequest(j) \/ ResendEnqueue(j)
    \/ \E gone \in SUBSET Job : DeleteRows(gone)
    \/ \E w \in Worker : ReapStep(w) \/ JobStep(w) \/ FaultStep(w) \/ Restart(w)
    \/ \E r \in Raw : Expire(r)

Spec == Init /\ [][Next]_vars

\* A worker that is up keeps executing its loop and its supervisor restarts it
\* (`restart: unless-stopped'); a request ends; time passes.  Clients and faults
\* owe nothing.
Fairness ==
    /\ \A w \in Worker :
          /\ WF_vars(StartReap(w))
          /\ WF_vars(ReapStep(w) \/ JobStep(w))
          /\ WF_vars(Restart(w))
    /\ \A j \in Job : WF_vars(CloseRequest(j))
    /\ \A r \in Raw : WF_vars(Expire(r))

FairSpec == Spec /\ Fairness

-----------------------------------------------------------------------------
(* Properties. *)

\* The places of an entry of job j: the two lists, and the hands of a worker
\* that has taken a failed attempt out and is about to push the next.
InPending(j) == \E i \in DOMAIN pending : pending[i].job = j
InProcess(j) == \E r \in Raw : r.job = j /\ processing[r] > 0
InBackoff(j) == \E w \in Worker : pc[w] = "backoff" /\ JobOf(w) = j

\* Something still leads to a run of j.
Carried(j) == InPending(j) \/ InProcess(j) \/ InBackoff(j)

\* "A crashed worker's job is reclaimed, so no job is lost to a crash"
\* (queue.py): an enqueued job that no worker finished with is still carried.
NoJobLost == \A j \in Job : row[j] = "unborn" \/ j \in settled \/ Carried(j)

\* At-least-once delivery as a whole: with the jobs something still leads to as
\* the jobs owed, each step is one of JobDelivery or changes neither.
Delivery == INSTANCE JobDelivery WITH owed <- {j \in Job : Carried(j)}
ImplementsDelivery == Delivery!Spec

\* MAX_ATTEMPTS bounds the runs a job's row records, however its workers die,
\* because the guard reads the row before a run increments it.  A worker whose
\* guard ran before the row was committed does not see the count, so each
\* other worker may exceed it by one run.
AttemptsBounded ==
    \A j \in Job : attempts[j] <= MaxAttempts + Cardinality(Worker) - 1

\* A heartbeat belongs to an entry in processing; one left behind would make a
\* later claim of the same entry look old before its worker has begun.
HeartbeatHasEntry == \A r \in Raw : heartbeat[r] # "none" => processing[r] > 0

\* The entry a worker is at work on is in processing until the job is settled,
\* so that if this worker dies the reaper finds it.
WorkIsRecoverable ==
    \A w \in Worker, r \in Raw :
        Working(w, r) /\ r.job \notin settled => processing[r] > 0

\* One worker never multiplies a job, whatever dies or fails: its claim, its
\* retry and its reaper each move the job's only entry.
OneEntryPerJob ==
    /\ \A i, k \in DOMAIN pending : pending[i].job = pending[k].job => i = k
    /\ \A r, q \in Raw :
          r.job = q.job /\ processing[r] > 0 /\ processing[q] > 0 => r = q /\ processing[r] = 1
    /\ \A v, w \in Worker :
          pc[v] = "backoff" /\ pc[w] = "backoff" /\ JobOf(v) = JobOf(w) => v = w
    /\ \A j \in Job :
          /\ InPending(j) => ~InProcess(j)
          /\ InBackoff(j) => ~InPending(j) /\ ~InProcess(j)

\* Whatever kills its workers, an enqueued job is in the end run to success,
\* given up or abandoned: the poison-pill guard ends the loop of crash and
\* reclaim.
EveryJobSettles == \A j \in Job : row[j] # "unborn" ~> j \in settled
=============================================================================
