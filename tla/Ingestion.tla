----------------------------- MODULE Ingestion -----------------------------
(***************************************************************************)
(* Documents from intake to index (services/document_service.py,           *)
(* services/ingestion_pipeline.py and the requests of                      *)
(* api/v1/documents.py), on top of the queue and the workers of            *)
(* IngestQueue: each step here is a step there, or leaves the queue alone. *)
(*                                                                         *)
(* Postgres is READ COMMITTED.  The state is what is committed, plus the   *)
(* row locks that make a transaction wait.  The vector store writes in a   *)
(* session of its own and at once.  A version of a document's chunk rows,  *)
(* with the vectors made from it, is a number: a run takes one that        *)
(* nothing refers to any more, as its rows get new ids.                    *)
(***************************************************************************)
EXTENDS IngestQueue

CONSTANTS
    Document,
    DocumentOf,   \* the document of each job
    Backends,     \* the vector stores to consider, of "qdrant" and "pgvector"
    DataFaults,   \* kinds of fault of the data path, of DataFaultKinds
    MaxVersion    \* bound: versions of a document referred to at one time

DataFaultKinds ==
    { "db_error",      \* the database fails a worker outside the pipeline
      "slow_commit",   \* an upload outlasts every retry of its own job
      "torn_delete" }  \* a delete request dies after wiping the vectors

ASSUME IngestionAssumption ==
    /\ DocumentOf \in [Job -> Document]
    /\ Backends \subseteq {"qdrant", "pgvector"}
    /\ DataFaults \subseteq DataFaultKinds
    /\ MaxVersion \in Nat
    \* An upload makes the document its job is for.
    /\ \A j, k \in Job \ Requeued : DocumentOf[j] = DocumentOf[k] => j = k

VARIABLES
    status,     \* documents.status, as committed
    chunks,     \* the committed version of each document's chunk rows
    vectors,    \* the versions the vector store holds vectors of
    jobStatus,  \* ingestion_jobs.status, as committed
    version,    \* the version a worker's run writes
    step,       \* where a worker is inside process_document
    rowLocks,   \* workers whose open transaction has deleted chunk rows
    dirty,      \* jobs whose open request has updated its document's row
    deletion,   \* how far the delete request of a document is
    backend     \* the configured vector store

docVars     == <<status, chunks, vectors, jobStatus, backend>>
runVars     == <<version, step, rowLocks>>
requestVars == <<dirty, deletion>>
dataVars    == <<docVars, runVars, requestVars>>
allVars == <<vars, dataVars>>

DocumentStatus == {"ABSENT", "PENDING", "PROCESSING", "READY", "FAILED", "DELETED"}
JobStatus == {"QUEUED", "RUNNING", "SUCCEEDED", "FAILED"}
NoChunks == 0
PipelineStep == {"outside", "loading", "wiped", "cleared", "stored", "indexed"}

TypeOKData ==
    /\ status \in [Document -> DocumentStatus]
    /\ chunks \in [Document -> 0 .. MaxVersion]
    /\ vectors \in [Document -> SUBSET (1 .. MaxVersion)]
    /\ version \in [Worker -> 0 .. MaxVersion]
    /\ jobStatus \in [Job -> JobStatus]
    /\ step \in [Worker -> PipelineStep]
    /\ rowLocks \subseteq Worker
    /\ dirty \subseteq Job
    /\ deletion \in [Document -> {"none", "wiped", "torn"}]
    /\ backend \in Backends

InitData ==
    /\ status = [d \in Document |-> "ABSENT"]
    /\ chunks = [d \in Document |-> NoChunks]
    /\ vectors = [d \in Document |-> {}]
    /\ jobStatus = [j \in Job |-> "QUEUED"]
    /\ version = [w \in Worker |-> 0]
    /\ step = [w \in Worker |-> "outside"]
    /\ rowLocks = {}
    /\ dirty = {}
    /\ deletion = [d \in Document |-> "none"]
    /\ backend \in Backends

-----------------------------------------------------------------------------
(* Visibility and locks. *)

Exists(d) == status[d] \notin {"ABSENT", "DELETED"}
DocOf(w) == DocumentOf[JobOf(w)]

\* An open request has updated the row of d: another UPDATE of it waits.
RowLocked(d) == \E j \in dirty : DocumentOf[j] = d

\* A worker's open transaction has deleted the chunk rows of d.
ChunksLocked(d) == \E w \in rowLocks : DocOf(w) = d

\* The ORM emits no UPDATE for a value that equals the one it has just read.
CanWrite(d, value) == ~RowLocked(d) \/ status[d] = value

SetStatus(d, value) == status' = [status EXCEPT ![d] = value]

\* The status of a document whose run failed, if it is still there.
KeepStatus(d) == status                                       \* a mutant
Failed(d) == IF Exists(d) THEN [status EXCEPT ![d] = "FAILED"] ELSE status

\* delete_by_document of the vector store
KeepVectors(d) == UNCHANGED vectors                           \* a mutant
DeleteByDocument(d) == vectors' = [vectors EXCEPT ![d] = {}]

\* A job row that is not there is skipped.
CopyStatus(j, value) ==                                       \* a mutant
    jobStatus' = [jobStatus EXCEPT ![j] = status[DocumentOf[j]]]
SetJobStatus(j, value) ==
    jobStatus' = [jobStatus EXCEPT ![j] = IF row[j] = "visible" THEN value ELSE @]

\* A version no row, vector or run of d refers to.
Unused(d) ==
    (1 .. MaxVersion) \ ({chunks[d]} \cup vectors[d] \cup
                         {version[w] : w \in {v \in Worker : step[v] # "outside"}})

Searchable(d) == chunks[d] # NoChunks /\ chunks[d] \in vectors[d]

-----------------------------------------------------------------------------
(* Requests. *)

\* intake_bytes of new content: flushed, pushed, not yet committed.
Upload(j) ==
    /\ j \notin Requeued
    /\ status[DocumentOf[j]] = "ABSENT"
    /\ Enqueue(j)
    /\ UNCHANGED dataVars

\* requeue: an admin's reprocess, or an upload of the bytes of a document that
\* is neither READY nor PENDING.
Requeue(j) ==
    LET d == DocumentOf[j]
    IN  /\ j \in Requeued
        /\ Exists(d)
        /\ CanWrite(d, "PENDING")
        /\ Enqueue(j)
        /\ dirty' = IF status[d] = "PENDING" THEN dirty ELSE dirty \cup {j}
        /\ UNCHANGED <<docVars, runVars, deletion>>

\* The request's commit or rollback.
EndRequest(j) ==
    /\ CloseRequest(j)
    /\ LET d == DocumentOf[j]
           published == row'[j] = "visible" /\ (j \in dirty \/ j \notin Requeued)
       IN  status' = IF published THEN [status EXCEPT ![d] = "PENDING"] ELSE status
    /\ dirty' = dirty \ {j}
    /\ UNCHANGED <<chunks, vectors, jobStatus, backend, runVars, deletion>>

\* delete_document: the vectors go at once.
WipeForDelete(d) ==
    /\ Exists(d)
    /\ deletion[d] = "none"
    /\ backend = "pgvector" => ~ChunksLocked(d)
    /\ DeleteByDocument(d)
    /\ deletion' = [deletion EXCEPT ![d] = "wiped"]
    /\ UNCHANGED <<vars, status, chunks, jobStatus, backend, runVars, dirty>>

\* ... then the row, which takes chunks and jobs with it.  The delete waits for
\* every transaction that locks the row, its chunks, or refers to it.
CommitDelete(d) ==
    /\ deletion[d] = "wiped"
    /\ ~ChunksLocked(d)
    /\ \A j \in Requeued : DocumentOf[j] = d => row[j] # "open"
    /\ DeleteRows({j \in Job : DocumentOf[j] = d /\ row[j] = "visible"})
    /\ SetStatus(d, "DELETED")
    /\ chunks' = [chunks EXCEPT ![d] = NoChunks]
    /\ vectors' = IF backend = "pgvector" THEN [vectors EXCEPT ![d] = {}] ELSE vectors
    /\ deletion' = [deletion EXCEPT ![d] = "none"]
    /\ UNCHANGED <<jobStatus, backend, runVars, dirty>>

\* The delete request dies in between.
TearDelete(d) ==
    /\ "torn_delete" \in DataFaults
    /\ deletion[d] = "wiped"
    /\ deletion' = [deletion EXCEPT ![d] = "torn"]
    /\ UNCHANGED <<vars, docVars, runVars, dirty>>

-----------------------------------------------------------------------------
(* process_document. *)

GoStep(w, place) == step' = [step EXCEPT ![w] = place]

\* The session is closed: its locks and its objects go.
LeaveRun(w) ==
    /\ GoStep(w, "outside")
    /\ rowLocks' = rowLocks \ {w}
    /\ version' = [version EXCEPT ![w] = 0]

\* The poison-pill guard marks job and document FAILED in one commit.
AbandonDocument(w) ==
    /\ Abandon(w)
    /\ ~RowLocked(DocOf(w))
    /\ SetStatus(DocOf(w), "FAILED")
    /\ SetJobStatus(JobOf(w), "FAILED")
    /\ UNCHANGED <<chunks, vectors, backend, runVars, requestVars>>

\* PROCESSING, RUNNING and the attempt, in one commit.
BeginDocument(w) ==
    /\ \/ BeginCounted(w) /\ SetJobStatus(JobOf(w), "RUNNING")
       \/ BeginUncounted(w) /\ UNCHANGED jobStatus
    /\ Exists(DocOf(w))
    /\ CanWrite(DocOf(w), "PROCESSING")
    /\ SetStatus(DocOf(w), "PROCESSING")
    /\ GoStep(w, "loading")
    /\ UNCHANGED <<chunks, vectors, backend, version, rowLocks, requestVars>>

\* Loaded, parsed and chunked: the previous version's vectors go, at once.
WipeVectors(w) ==
    LET d == DocOf(w)
    IN  /\ step[w] = "loading"
        /\ backend = "pgvector" => ~ChunksLocked(d)
        /\ DeleteByDocument(d)
        /\ GoStep(w, "wiped")
        /\ UNCHANGED <<vars, status, chunks, jobStatus, backend, version, rowLocks, requestVars>>

\* DELETE FROM chunks: waits for a transaction that deleted the same rows, and
\* locks what it finds.
DeleteOldChunks(w) ==
    LET d == DocOf(w)
    IN  /\ step[w] = "wiped"
        /\ ~ChunksLocked(d)
        /\ rowLocks' = IF chunks[d] = NoChunks THEN rowLocks ELSE rowLocks \cup {w}
        /\ GoStep(w, "cleared")
        /\ UNCHANGED <<vars, docVars, version, requestVars>>

\* Embedded; the new rows are inserted and committed.  Rows another worker
\* committed since the DELETE break UNIQUE (document_id, ordinal), and a document
\* deleted meanwhile breaks the foreign key: then the step cannot be taken.
StoreChunks(w) ==
    LET d == DocOf(w)
    IN  /\ step[w] = "cleared"
        /\ Exists(d)
        /\ w \in rowLocks \/ (chunks[d] = NoChunks /\ ~ChunksLocked(d))
        /\ \E v \in Unused(d) :
              /\ \A u \in Unused(d) : v <= u
              /\ version' = [version EXCEPT ![w] = v]
              /\ chunks' = [chunks EXCEPT ![d] = v]
        /\ vectors' = IF backend = "pgvector" THEN [vectors EXCEPT ![d] = {}] ELSE vectors
        /\ rowLocks' = rowLocks \ {w}
        /\ GoStep(w, "stored")
        /\ UNCHANGED <<vars, status, jobStatus, backend, requestVars>>

\* upsert: Qdrant takes any point, pgvector updates the chunk rows that are there.
IndexVectors(w) ==
    LET d == DocOf(w)
    IN  /\ step[w] = "stored"
        /\ backend = "pgvector" /\ chunks[d] = version[w] => ~ChunksLocked(d)
        /\ vectors' = IF backend = "qdrant" \/ chunks[d] = version[w]
                      THEN [vectors EXCEPT ![d] = @ \cup {version[w]}] ELSE vectors
        /\ GoStep(w, "indexed")
        /\ UNCHANGED <<vars, status, chunks, jobStatus, backend, version, rowLocks, requestVars>>

\* The run has upserted its vectors.
Stored(w) == step[w] \in {"stored", "indexed"}                \* a mutant
Indexed(w) == step[w] = "indexed"

\* READY, the usage record and the job's SUCCEEDED, in one commit.
FinishDocument(w) ==
    /\ Indexed(w)
    /\ Exists(DocOf(w))
    /\ ~RowLocked(DocOf(w))
    /\ RunSucceeds(w)
    /\ SetStatus(DocOf(w), "READY")
    /\ SetJobStatus(JobOf(w), "SUCCEEDED")
    /\ LeaveRun(w)
    /\ UNCHANGED <<chunks, vectors, backend, requestVars>>

\* Any step of the pipeline raises: rollback, then FAILED if there is a document.
FailDocument(w) ==
    LET d == DocOf(w)
    IN  /\ pc[w] = "run"
        /\ ~RowLocked(d)
        /\ RunFails(w)
        /\ status' = Failed(d)
        /\ SetJobStatus(JobOf(w), "FAILED")
        /\ LeaveRun(w)
        /\ UNCHANGED <<chunks, vectors, backend, requestVars>>

\* The upload of the job in hand is still not committed at its last attempt.
OutlastedRetries(w) == row[JobOf(w)] = "open" /\ ~MayRetry(held[w])

\* An exception that records nothing: no such document, a row deleted under the
\* session, or the database itself.
RaiseOutside(w) ==
    /\ RunFails(w)
    /\ \/ /\ pc[w] \in {"abandon", "begin"}
          /\ ~Exists(DocOf(w))
          /\ OutlastedRetries(w) => "slow_commit" \in DataFaults
       \/ "db_error" \in DataFaults
    /\ LeaveRun(w)
    /\ UNCHANGED <<docVars, requestVars>>

\* The steps of the queue and the loop that touch no document.
LoopStep(w) ==
    /\ \/ ReapStep(w) \/ Pop(w) \/ ClaimNothing(w) \/ Beat(w) \/ Guard(w)
       \/ Ack(w) \/ AckAndBackOff(w) \/ PushRetry(w) \/ GiveUp(w)
       \/ ReapFails(w) \/ ClaimFails(w) \/ AckFails(w) \/ Stop(w) \/ Restart(w)
    /\ UNCHANGED dataVars

\* The database rolls back what a dead worker had open.
Die(w) ==
    /\ RunCrash(w) \/ Crash(w)
    /\ LeaveRun(w)
    /\ UNCHANGED <<docVars, requestVars>>

PipelineStepOf(w) ==
    \/ AbandonDocument(w) \/ BeginDocument(w) \/ WipeVectors(w) \/ DeleteOldChunks(w)
    \/ StoreChunks(w) \/ IndexVectors(w) \/ FinishDocument(w) \/ FailDocument(w)
    \/ RaiseOutside(w)

InitAll == Init /\ InitData

NextAll ==
    \/ \E j \in Job : Upload(j) \/ Requeue(j) \/ EndRequest(j)
    \/ \E d \in Document : WipeForDelete(d) \/ CommitDelete(d) \/ TearDelete(d)
    \/ \E w \in Worker : LoopStep(w) \/ PipelineStepOf(w) \/ Die(w)
    \/ \E r \in Raw : Expire(r) /\ UNCHANGED dataVars

SpecAll == InitAll /\ [][NextAll]_allVars

-----------------------------------------------------------------------------
(* Properties. *)

\* "A READY document is always searchable" (ingestion_pipeline.py): its chunk
\* rows are in the vector store, unless a delete request has begun.
ReadyIsSearchable ==
    \A d \in Document : status[d] = "READY" /\ deletion[d] = "none" => Searchable(d)

\* "Reprocessing must not double the corpus": beside the current version, the
\* store holds no vectors of a READY document.
NoDoubledCorpus ==
    \A d \in Document : status[d] = "READY" => vectors[d] \subseteq {chunks[d]}

\* A document that says PENDING or PROCESSING is one that something will still
\* process: otherwise it says so for ever, and uploading it again changes
\* nothing while it is PENDING.
NoStrandedDocument ==
    \A d \in Document :
        status[d] \in {"PENDING", "PROCESSING"}
            => \E j \in Job : DocumentOf[j] = d /\ Carried(j)
=============================================================================
