-------------------------- MODULE Ingestion_proofs --------------------------
(***************************************************************************)
(* Theorems about Ingestion, for every set of documents, jobs and workers: *)
(* what the pipeline inherits from the queue it runs on, and what it keeps *)
(* true of its documents, their chunks and their vectors.                  *)
(***************************************************************************)
EXTENDS Ingestion, IngestQueue_proofs

USE DEF vars, queueVars, rowVars, workerVars,
        allVars, dataVars, docVars, runVars, requestVars

\* The document requests are requests of the queue, or do not touch it.
LEMMA RequestsRefine ==
    ASSUME NEW j \in Job, Upload(j) \/ Requeue(j) \/ EndRequest(j)
    PROVE  Next
BY DEF Upload, Requeue, EndRequest, Next

LEMMA DeletesRefine ==
    ASSUME NEW d \in Document, WipeForDelete(d) \/ CommitDelete(d) \/ TearDelete(d)
    PROVE  [Next]_vars
<1>1. CASE CommitDelete(d)
  BY <1>1 DEF CommitDelete, Next
<1>2. CASE WipeForDelete(d) \/ TearDelete(d)
  BY <1>2 DEF WipeForDelete, TearDelete
<1> QED
  BY <1>1, <1>2

LEMMA PipelineRefines ==
    ASSUME NEW w \in Worker, PipelineStepOf(w)
    PROVE  [Next]_vars
<1>1. CASE AbandonDocument(w) \/ BeginDocument(w)
  BY <1>1 DEF AbandonDocument, BeginDocument, Next, JobStep
<1>2. CASE FinishDocument(w) \/ FailDocument(w) \/ RaiseOutside(w)
  BY <1>2 DEF FinishDocument, FailDocument, RaiseOutside, Next, JobStep
<1>3. CASE WipeVectors(w) \/ DeleteOldChunks(w) \/ StoreChunks(w) \/ IndexVectors(w)
  BY <1>3 DEF WipeVectors, DeleteOldChunks, StoreChunks, IndexVectors
<1> QED
  BY <1>1, <1>2, <1>3 DEF PipelineStepOf

LEMMA LoopRefines ==
    ASSUME NEW w \in Worker, LoopStep(w) \/ Die(w)
    PROVE  Next
BY DEF LoopStep, Die, Next, JobStep, FaultStep

LEMMA NextAllRefines == [NextAll]_allVars => [Next]_vars
<1>1. ASSUME NEW r \in Raw, Expire(r) PROVE Next
  BY <1>1 DEF Next
<1> QED
  BY <1>1, RequestsRefine, DeletesRefine, PipelineRefines, LoopRefines DEF NextAll

\* The pipeline with its documents, chunks and vectors is an instance of the
\* queue and its workers: it adds state and guards, and no step of the queue.
THEOREM IngestionRefinesQueue == SpecAll => Spec
<1>1. InitAll => Init
  BY DEF InitAll
<1> QED
  BY <1>1, NextAllRefines, PTL DEF SpecAll, Spec

\* So every document's job is delivered at least once, and its attempts are
\* bounded, whatever the pipeline does.
THEOREM IngestionDelivers ==
    SpecAll => /\ []AttemptsBounded
               /\ NoBackoffCrash => []NoJobLost
BY IngestionRefinesQueue, AttemptsAreBounded, NoJobIsLost, PTL

-----------------------------------------------------------------------------
(* Types of the documents' side, which need to know that a worker is inside *)
(* process_document exactly while it runs, and that it stores a version.    *)

RunsInside ==
    \A w \in Worker :
        /\ step[w] # "outside" <=> pc[w] = "run"
        /\ step[w] \in {"stored", "indexed"} => version[w] # NoChunks

DataTypes == TypeInv /\ TypeOKData /\ RunsInside

\* What a step may give status and jobStatus.
LEMMA StatusTypes ==
    ASSUME TypeOKData, NEW d \in Document, NEW j \in Job
    PROVE  /\ \A value \in DocumentStatus :
                 SetStatus(d, value) => status' \in [Document -> DocumentStatus]
           /\ Failed(d) \in [Document -> DocumentStatus]
           /\ \A value \in JobStatus :
                 SetJobStatus(j, value) => jobStatus' \in [Job -> JobStatus]
BY DEF TypeOKData, SetStatus, Failed, SetJobStatus, DocumentStatus, JobStatus

LEMMA DocType ==
    ASSUME TypeInv, NEW w \in Worker, pc[w] \in Holding
    PROVE  JobOf(w) \in Job /\ DocOf(w) \in Document
BY IngestionAssumption DEF TypeInv, HandsFull, JobOf, DocOf, Raw

LEMMA LeaveTypes ==
    ASSUME TypeOKData, NEW w \in Worker, LeaveRun(w)
    PROVE  /\ version' \in [Worker -> 0 .. MaxVersion]
           /\ step' \in [Worker -> PipelineStep]
           /\ rowLocks' \subseteq Worker
BY IngestionAssumption DEF TypeOKData, LeaveRun, GoStep, PipelineStep

LEMMA RequestDataTypes ==
    ASSUME TypeOKData, NEW j \in Job, Upload(j) \/ Requeue(j) \/ EndRequest(j)
    PROVE  TypeOKData'
<1> DocumentOf[j] \in Document
  BY IngestionAssumption
<1>1. CASE Upload(j)
  BY <1>1 DEF Upload, TypeOKData
<1>2. CASE Requeue(j)
  BY <1>2 DEF Requeue, TypeOKData
<1>3. CASE EndRequest(j)
  BY <1>3 DEF EndRequest, TypeOKData, DocumentStatus
<1> QED
  BY <1>1, <1>2, <1>3

LEMMA DeleteDataTypes ==
    ASSUME TypeOKData, NEW d \in Document,
           WipeForDelete(d) \/ CommitDelete(d) \/ TearDelete(d)
    PROVE  TypeOKData'
<1>1. CASE WipeForDelete(d)
  BY <1>1 DEF WipeForDelete, DeleteByDocument, TypeOKData
<1>2. CASE CommitDelete(d)
  BY <1>2, IngestionAssumption
  DEF CommitDelete, SetStatus, TypeOKData, DocumentStatus, NoChunks
<1>3. CASE TearDelete(d)
  BY <1>3 DEF TearDelete, TypeOKData
<1> QED
  BY <1>1, <1>2, <1>3

LEMMA PipelineDataTypes ==
    ASSUME DataTypes, NEW w \in Worker, PipelineStepOf(w)
    PROVE  TypeOKData'
<1> DEFINE d == DocOf(w)
<1>0. d \in Document /\ JobOf(w) \in Job
  <2>1. pc[w] \in Holding
    BY DEF DataTypes, RunsInside, PipelineStepOf, AbandonDocument, Abandon, BeginDocument,
           BeginCounted, BeginUncounted, WipeVectors, DeleteOldChunks, StoreChunks,
           IndexVectors, FinishDocument, RunSucceeds, FailDocument, RaiseOutside, RunFails,
           Holding
  <2> QED
    BY <2>1, DocType DEF DataTypes
<1> HIDE DEF d
<1> USE <1>0, IngestionAssumption DEF DataTypes, TypeOKData
<1>1. CASE AbandonDocument(w)
  BY <1>1, StatusTypes DEF AbandonDocument, d, DocumentStatus, JobStatus
<1>2. CASE BeginDocument(w)
  BY <1>2, StatusTypes DEF BeginDocument, GoStep, d, DocumentStatus, JobStatus, PipelineStep
<1>3. CASE WipeVectors(w)
  BY <1>3 DEF WipeVectors, DeleteByDocument, GoStep, PipelineStep, d
<1>4. CASE DeleteOldChunks(w)
  BY <1>4 DEF DeleteOldChunks, GoStep, PipelineStep
<1>5. CASE StoreChunks(w)
  BY <1>5 DEF StoreChunks, GoStep, PipelineStep, Unused, d
<1>6. CASE IndexVectors(w)
  <2>1. version[w] \in 1 .. MaxVersion
    BY <1>6 DEF IndexVectors, RunsInside, NoChunks
  <2> QED
    BY <1>6, <2>1 DEF IndexVectors, GoStep, PipelineStep, d
<1>7. CASE FinishDocument(w)
  BY <1>7, StatusTypes, LeaveTypes DEF FinishDocument, d, DocumentStatus, JobStatus
<1>8. CASE FailDocument(w)
  BY <1>8, StatusTypes, LeaveTypes DEF FailDocument, d, JobStatus
<1>9. CASE RaiseOutside(w)
  BY <1>9, LeaveTypes DEF RaiseOutside
<1> QED
  BY <1>1, <1>2, <1>3, <1>4, <1>5, <1>6, <1>7, <1>8, <1>9 DEF PipelineStepOf

\* The steps of the loop keep out of process_document, and each worker has its
\* own hands.
LEMMA LoopFrame ==
    ASSUME DataTypes, NEW w \in Worker, LoopStep(w)
    PROVE  /\ row' = row /\ UNCHANGED dataVars
           /\ pc[w] # "run" /\ pc'[w] # "run"
           /\ \A v \in Worker \ {w} : pc'[v] = pc[v] /\ held'[v] = held[v]
<1> USE DEF DataTypes, TypeInv, TypeOK
<1>0. UNCHANGED dataVars
  BY DEF LoopStep
<1>1. CASE ReapStep(w)
  BY <1>0, <1>1 DEF ReapStep, StartReap, InspectHeartbeat, Reclaim, FinishReap, Goto
<1>2. CASE Pop(w) \/ ClaimNothing(w) \/ Beat(w) \/ Restart(w)
  BY <1>0, <1>2 DEF Pop, ClaimNothing, Beat, Restart, Goto
<1>3. CASE Guard(w)
  BY <1>0, <1>3 DEF Guard, Goto
<1>4. CASE Ack(w) \/ AckAndBackOff(w) \/ PushRetry(w) \/ GiveUp(w)
  BY <1>0, <1>4 DEF Ack, AckAndBackOff, PushRetry, GiveUp, NextIteration, Goto
<1>5. CASE ReapFails(w) \/ ClaimFails(w) \/ AckFails(w) \/ Stop(w)
  BY <1>0, <1>5 DEF ReapFails, ClaimFails, AckFails, Stop, Dies, NextIteration, Goto
<1> QED
  BY <1>0, <1>1, <1>2, <1>3, <1>4, <1>5 DEF LoopStep

\* ... and so do the steps that enter and leave it.
LEMMA PipelineFrame ==
    ASSUME DataTypes, NEW w \in Worker, PipelineStepOf(w) \/ Die(w)
    PROVE  /\ row' = row /\ UNCHANGED <<deletion, dirty, backend>>
           /\ \A v \in Worker \ {w} :
                 /\ pc'[v] = pc[v] /\ held'[v] = held[v]
                 /\ step'[v] = step[v] /\ version'[v] = version[v]
           /\ pc'[w] = "run" => held'[w] = held[w]
<1> USE DEF DataTypes, TypeInv, TypeOK, TypeOKData
<1>1. CASE AbandonDocument(w)
  BY <1>1 DEF AbandonDocument, Abandon, Goto
<1>2. CASE BeginDocument(w)
  BY <1>2 DEF BeginDocument, BeginCounted, BeginUncounted, Goto, GoStep
<1>3. CASE WipeVectors(w) \/ DeleteOldChunks(w)
  BY <1>3 DEF WipeVectors, DeleteOldChunks, GoStep
<1>4. CASE StoreChunks(w) \/ IndexVectors(w)
  BY <1>4 DEF StoreChunks, IndexVectors, GoStep
<1>5. CASE FinishDocument(w)
  BY <1>5 DEF FinishDocument, RunSucceeds, LeaveRun, Goto, GoStep
<1>6. CASE FailDocument(w) \/ RaiseOutside(w)
  BY <1>6 DEF FailDocument, RaiseOutside, RunFails, LeaveRun, Goto, GoStep
<1>7. CASE Die(w)
  BY <1>7 DEF Die, RunCrash, Crash, Dies, LeaveRun, Goto, GoStep
<1> QED
  BY <1>1, <1>2, <1>3, <1>4, <1>5, <1>6, <1>7 DEF PipelineStepOf

LEMMA InsideStep ==
    ASSUME DataTypes, NEW w \in Worker, PipelineStepOf(w) \/ Die(w)
    PROVE  RunsInside'
<1>0. \A v \in Worker \ {w} :
          pc'[v] = pc[v] /\ step'[v] = step[v] /\ version'[v] = version[v]
  BY PipelineFrame
<1>1. SUFFICES /\ step'[w] # "outside" <=> pc'[w] = "run"
               /\ step'[w] \in {"stored", "indexed"} => version'[w] # NoChunks
  BY <1>0 DEF DataTypes, RunsInside
<1> USE DEF DataTypes, TypeInv, TypeOK, TypeOKData, RunsInside
<1>2. CASE AbandonDocument(w)
  BY <1>2 DEF AbandonDocument, Abandon, Goto
<1>3. CASE BeginDocument(w)
  BY <1>3 DEF BeginDocument, BeginCounted, BeginUncounted, Goto, GoStep
<1>4. CASE WipeVectors(w) \/ DeleteOldChunks(w) \/ IndexVectors(w)
  BY <1>4 DEF WipeVectors, DeleteOldChunks, IndexVectors, GoStep
<1>5. CASE StoreChunks(w)
  BY <1>5, IngestionAssumption DEF StoreChunks, GoStep, Unused, NoChunks
<1>6. CASE FinishDocument(w)
  BY <1>6 DEF FinishDocument, RunSucceeds, LeaveRun, Goto, GoStep
<1>7. CASE FailDocument(w) \/ RaiseOutside(w)
  BY <1>7 DEF FailDocument, RaiseOutside, RunFails, LeaveRun, Goto, GoStep
<1>8. CASE Die(w)
  BY <1>8 DEF Die, RunCrash, Crash, Dies, LeaveRun, Goto, GoStep
<1> QED
  BY <1>2, <1>3, <1>4, <1>5, <1>6, <1>7, <1>8 DEF PipelineStepOf

LEMMA RequestFrame ==
    ASSUME NEW j \in Job, Upload(j) \/ Requeue(j) \/ EndRequest(j)
    PROVE  UNCHANGED <<workerVars, settled, chunks, vectors, deletion, runVars>>
BY DEF Upload, Requeue, EndRequest, Enqueue, CloseRequest

LEMMA DeleteFrame ==
    ASSUME NEW d \in Document, WipeForDelete(d) \/ CommitDelete(d) \/ TearDelete(d)
    PROVE  UNCHANGED <<queueVars, workerVars, settled, runVars, dirty>>
BY DEF WipeForDelete, CommitDelete, DeleteRows, TearDelete

LEMMA NextDataTypes == DataTypes /\ [NextAll]_allVars => DataTypes'
<1> SUFFICES ASSUME DataTypes, [NextAll]_allVars PROVE DataTypes'
  OBVIOUS
<1>1. TypeInv'
  <2>1. [Next]_vars
    BY NextAllRefines
  <2> QED
    BY <2>1, TypeStep DEF DataTypes
<1>2. ASSUME NEW j \in Job, Upload(j) \/ Requeue(j) \/ EndRequest(j)
      PROVE  TypeOKData' /\ RunsInside'
  BY <1>2, RequestDataTypes, RequestFrame DEF DataTypes, RunsInside
<1>3. ASSUME NEW d \in Document, WipeForDelete(d) \/ CommitDelete(d) \/ TearDelete(d)
      PROVE  TypeOKData' /\ RunsInside'
  BY <1>3, DeleteDataTypes, DeleteFrame DEF DataTypes, RunsInside
<1>4. ASSUME NEW w \in Worker, LoopStep(w)
      PROVE  TypeOKData' /\ RunsInside'
  BY <1>4, LoopFrame DEF DataTypes, TypeOKData, RunsInside
<1>5. ASSUME NEW w \in Worker, PipelineStepOf(w)
      PROVE  TypeOKData' /\ RunsInside'
  BY <1>5, PipelineDataTypes, InsideStep
<1>6. ASSUME NEW w \in Worker, Die(w)
      PROVE  TypeOKData' /\ RunsInside'
  <2>1. TypeOKData'
    BY <1>6, LeaveTypes DEF Die, DataTypes, TypeOKData
  <2> QED
    BY <1>6, <2>1, InsideStep
<1>7. CASE \/ \E r \in Raw : Expire(r) /\ UNCHANGED dataVars
           \/ UNCHANGED allVars
  <2>1. UNCHANGED <<pc, dataVars>>
    BY <1>7 DEF Expire
  <2> QED
    BY <1>1, <2>1 DEF DataTypes, TypeOKData, RunsInside
<1> QED
  BY <1>1, <1>2, <1>3, <1>4, <1>5, <1>6, <1>7 DEF NextAll, DataTypes

LEMMA InitDataTypes == InitAll => DataTypes
<1>1. InitAll => TypeInv
  BY InitTypes DEF InitAll
<1> QED
  BY <1>1, IngestionAssumption
  DEF InitAll, Init, InitData, DataTypes, TypeOKData, RunsInside, DocumentStatus, JobStatus,
      PipelineStep, NoChunks

\* The documents, their chunk rows and vectors, and the state of the runs keep
\* their types (document_service.py, ingestion_pipeline.py).
THEOREM DataTypesCorrect == SpecAll => []TypeOKData
<1>1. SpecAll => []DataTypes
  BY InitDataTypes, NextDataTypes, PTL DEF SpecAll
<1>2. DataTypes => TypeOKData
  BY DEF DataTypes
<1> QED
  BY <1>1, <1>2, PTL

-----------------------------------------------------------------------------
(* Job rows and documents.  DELETED is for good: what could bring a document *)
(* back is the commit of an open request or the poison-pill guard, and both  *)
(* go by a row that the delete takes with it or waits for.                   *)

\* A visible row, and the open row of a requeue, are those of a document that
\* is there; the open row of an upload is that of one that is not there yet.
RowsMatch ==
    \A j \in Job :
        /\ row[j] = "visible" => Exists(DocumentOf[j])
        /\ row[j] = "open" => IF j \in Requeued THEN Exists(DocumentOf[j])
                              ELSE status[DocumentOf[j]] = "ABSENT"
        /\ j \in dirty => j \in Requeued /\ row[j] = "open"

\* Workers only write the status of a document that is there.
Existing == \A d \in Document : status'[d] = status[d] \/ (Exists(d) /\ Exists(d)')

LEMMA RowsKept ==
    ASSUME RowsMatch, Existing, row' = row, dirty' = dirty
    PROVE  RowsMatch'
BY IngestionAssumption DEF RowsMatch, Existing, Exists

LEMMA RequestRows ==
    ASSUME TypeInv, TypeOKData, RowsMatch,
           NEW j \in Job, Upload(j) \/ Requeue(j) \/ EndRequest(j)
    PROVE  RowsMatch'
<1> USE IngestionAssumption DEF TypeInv, TypeOK, TypeOKData, RowsMatch
<1>1. CASE Upload(j)
  BY <1>1 DEF Upload, Enqueue, Exists
<1>2. CASE Requeue(j)
  BY <1>2 DEF Requeue, Enqueue, Exists
<1>3. CASE EndRequest(j)
  <2> DEFINE d == DocumentOf[j]
  <2>1. /\ row[j] = "open" /\ row'[j] \in {"visible", "aborted"}
        /\ \A k \in Job \ {j} : row'[k] = row[k]
        /\ dirty' = dirty \ {j}
        /\ \A e \in Document : status'[e] = status[e] \/ (e = d /\ status'[e] = "PENDING")
        /\ row'[j] = "visible" /\ j \notin Requeued => status'[d] = "PENDING"
        /\ status'[d] # status[d] => j \in dirty \/ j \notin Requeued
    BY <1>3 DEF EndRequest, CloseRequest
  <2>2. \A k \in Job \ {j} : k \notin Requeued /\ row[k] = "open" /\ DocumentOf[k] = d
                              => status'[d] = status[d]
    BY <2>1 DEF Exists
  <2> QED
    BY <2>1, <2>2 DEF Exists
<1> QED
  BY <1>1, <1>2, <1>3

LEMMA DeleteRowsMatch ==
    ASSUME TypeInv, TypeOKData, RowsMatch, NEW d \in Document,
           WipeForDelete(d) \/ CommitDelete(d) \/ TearDelete(d)
    PROVE  /\ RowsMatch'
           /\ CommitDelete(d) => Exists(d)
<1> USE IngestionAssumption DEF TypeInv, TypeOK, TypeOKData, RowsMatch
<1>1. CASE WipeForDelete(d) \/ TearDelete(d)
  <2>1. RowsMatch'
    BY <1>1 DEF WipeForDelete, TearDelete, Exists
  <2>2. CommitDelete(d) => Exists(d)
    BY DEF CommitDelete, DeleteRows
  <2> QED
    BY <2>1, <2>2
<1>2. CASE CommitDelete(d)
  <2>1. Exists(d)
    BY <1>2 DEF CommitDelete, DeleteRows
  <2>2. /\ \A j \in Job : row'[j] = IF DocumentOf[j] = d /\ row[j] = "visible"
                                   THEN "deleted" ELSE row[j]
        /\ \A j \in Requeued : DocumentOf[j] = d => row[j] # "open"
        /\ status' = [status EXCEPT ![d] = "DELETED"] /\ dirty' = dirty
    BY <1>2 DEF CommitDelete, DeleteRows, SetStatus
  <2>3. RowsMatch'
    BY <2>1, <2>2 DEF Exists
  <2> QED
    BY <2>1, <2>3
<1> QED
  BY <1>1, <1>2

LEMMA PipelineRows ==
    ASSUME DataTypes, RowsMatch, NEW w \in Worker, PipelineStepOf(w) \/ Die(w)
    PROVE  Existing /\ RowsMatch'
<1>1. Existing
  <2> USE DEF DataTypes, TypeOKData, Existing, Exists, SetStatus
  <2>1. CASE AbandonDocument(w)
    <3>1. Exists(DocOf(w))
      <4>1. JobOf(w) \in Job /\ row[JobOf(w)] = "visible"
        BY <2>1, DocType DEF AbandonDocument, Abandon, Holding
      <4> QED
        BY <4>1 DEF RowsMatch, DocOf
    <3> QED
      BY <2>1, <3>1 DEF AbandonDocument
  <2>2. CASE BeginDocument(w) \/ FinishDocument(w)
    BY <2>2 DEF BeginDocument, FinishDocument
  <2>3. CASE FailDocument(w)
    BY <2>3 DEF FailDocument, Failed
  <2>4. CASE WipeVectors(w) \/ DeleteOldChunks(w) \/ StoreChunks(w) \/ IndexVectors(w)
             \/ RaiseOutside(w) \/ Die(w)
    BY <2>4 DEF WipeVectors, DeleteOldChunks, StoreChunks, IndexVectors, RaiseOutside, Die
  <2> QED
    BY <2>1, <2>2, <2>3, <2>4 DEF PipelineStepOf
<1> QED
  BY <1>1, PipelineFrame, RowsKept

LEMMA NextRows ==
    ASSUME DataTypes, RowsMatch, [NextAll]_allVars
    PROVE  RowsMatch'
<1>1. ASSUME NEW w \in Worker, LoopStep(w) PROVE RowsMatch'
  BY <1>1, LoopFrame, RowsKept DEF Existing
<1>2. CASE \/ \E r \in Raw : Expire(r) /\ UNCHANGED dataVars
           \/ UNCHANGED allVars
  <2>1. UNCHANGED <<row, dataVars>>
    BY <1>2 DEF Expire
  <2> QED
    BY <2>1, RowsKept DEF Existing
<1> QED
  BY <1>1, <1>2, RequestRows, DeleteRowsMatch, PipelineRows DEF NextAll, DataTypes

-----------------------------------------------------------------------------
(* A READY document is searchable, and its corpus is not doubled. *)

\* No two workers process one document at a time.
RunsApart ==
    \A v, w \in Worker :
        v # w /\ step[v] # "outside" /\ step[w] # "outside" => DocOf(v) # DocOf(w)

\* What the run of w has done to its document so far: until it finishes the
\* document is not READY; its vectors are gone once wiped; what it stored is
\* what is there, and what it indexed too, unless a delete has begun.
RunSound(w) ==
    step[w] # "outside" =>
        LET d == DocOf(w)
        IN  /\ status[d] # "READY"
            /\ step[w] \in {"wiped", "cleared", "stored"} => vectors[d] = {}
            /\ step[w] \in {"stored", "indexed"} =>
                  chunks[d] = version[w] \/ status[d] = "DELETED"
            /\ step[w] = "indexed" =>
                  /\ vectors[d] \subseteq {version[w]}
                  /\ \/ version[w] \in vectors[d]
                     \/ deletion[d] # "none" \/ status[d] = "DELETED"

\* What holds of a READY document.
ReadySound(d) ==
    status[d] = "READY" =>
        /\ vectors[d] \subseteq {chunks[d]}
        /\ deletion[d] = "none" => Searchable(d)

CorpusInv ==
    /\ DataTypes /\ RowsMatch
    /\ \A w \in Worker : RunSound(w)
    /\ \A d \in Document : ReadySound(d)

Sound == (\A w \in Worker : RunSound(w)) /\ (\A d \in Document : ReadySound(d))

LEMMA RunDoc ==
    ASSUME DataTypes, NEW w \in Worker, step[w] # "outside"
    PROVE  DocOf(w) \in Document /\ JobOf(w) \in Job /\ pc[w] = "run"
BY DocType DEF DataTypes, RunsInside, Holding

\* A step that leaves chunks and vectors alone, starts no run, makes no document
\* READY, brings none back and takes back no delete.
LEMMA CalmStep ==
    ASSUME CorpusInv, UNCHANGED <<chunks, vectors>>,
           \A d \in Document :
               /\ deletion'[d] # "none" \/ deletion'[d] = deletion[d]
               /\ status'[d] = status[d] \/ (status'[d] # "READY" /\ status[d] # "DELETED"),
           \A w \in Worker :
               step'[w] # "outside" =>
                   step'[w] = step[w] /\ version'[w] = version[w] /\ DocOf(w)' = DocOf(w)
    PROVE  Sound'
<1>1. ASSUME NEW w \in Worker PROVE RunSound(w)'
  BY RunDoc DEF CorpusInv, RunSound
<1>2. ASSUME NEW d \in Document PROVE ReadySound(d)'
  BY DEF CorpusInv, ReadySound, Searchable
<1> QED
  BY <1>1, <1>2 DEF Sound

LEMMA RequestSound ==
    ASSUME CorpusInv, NEW j \in Job, Upload(j) \/ Requeue(j) \/ EndRequest(j)
    PROVE  Sound'
<1>1. UNCHANGED <<workerVars, chunks, vectors, deletion, runVars>>
  BY RequestFrame
<1>2. \A d \in Document :
          status'[d] = status[d] \/ (status'[d] # "READY" /\ status[d] # "DELETED")
  <2>1. CASE Upload(j) \/ Requeue(j)
    BY <2>1 DEF Upload, Requeue
  <2>2. CASE EndRequest(j)
    <3>1. \/ status' = status
          \/ /\ status' = [status EXCEPT ![DocumentOf[j]] = "PENDING"]
             /\ row[j] = "open" /\ (j \in dirty \/ j \notin Requeued)
      BY <2>2 DEF EndRequest, CloseRequest
    <3>2. status[DocumentOf[j]] = "DELETED" => ~(row[j] = "open")
      BY DEF CorpusInv, RowsMatch, Exists
    <3> QED
      BY <3>1, <3>2 DEF CorpusInv, DataTypes, TypeOKData
  <2> QED
    BY <2>1, <2>2
<1>3. \A w \in Worker : DocOf(w)' = DocOf(w)
  BY <1>1 DEF DocOf, JobOf
<1> QED
  BY <1>1, <1>2, <1>3, CalmStep

LEMMA DeleteSound ==
    ASSUME CorpusInv, NEW d \in Document,
           WipeForDelete(d) \/ CommitDelete(d) \/ TearDelete(d)
    PROVE  Sound'
<1> USE DEF CorpusInv, DataTypes, TypeOKData
<1>1. \A w \in Worker : /\ DocOf(w)' = DocOf(w) /\ step'[w] = step[w]
                        /\ version'[w] = version[w]
  BY DeleteFrame DEF DocOf, JobOf
<1>2. CASE TearDelete(d)
  BY <1>1, <1>2, CalmStep DEF TearDelete
<1>3. CASE WipeForDelete(d) \/ CommitDelete(d)
  <2>1. /\ \A e \in Document \ {d} :
              /\ status'[e] = status[e] /\ chunks'[e] = chunks[e]
              /\ vectors'[e] = vectors[e] /\ deletion'[e] = deletion[e]
        /\ vectors'[d] \subseteq vectors[d]
        /\ \/ status'[d] = "DELETED"
           \/ /\ status'[d] = status[d] /\ chunks'[d] = chunks[d]
              /\ vectors'[d] = {} /\ deletion'[d] # "none"
    BY <1>3 DEF WipeForDelete, DeleteByDocument, CommitDelete, SetStatus
  <2>2. ASSUME NEW w \in Worker PROVE RunSound(w)'
    BY <1>1, <2>1, RunDoc DEF RunSound
  <2>3. ASSUME NEW e \in Document PROVE ReadySound(e)'
    BY <2>1 DEF ReadySound, Searchable
  <2> QED
    BY <2>2, <2>3 DEF Sound
<1> QED
  BY <1>2, <1>3

\* The four steps of a run that write chunks or vectors, which no other run of
\* the document interferes with.
LEMMA WriteSound ==
    ASSUME CorpusInv, RunsApart, NEW w \in Worker,
           WipeVectors(w) \/ DeleteOldChunks(w) \/ StoreChunks(w) \/ IndexVectors(w)
    PROVE  Sound'
<1> DEFINE d == DocOf(w)
<1>1. /\ step[w] # "outside" /\ step'[w] # "outside" /\ UNCHANGED <<held, status, deletion>>
      /\ RunSound(w)
  BY DEF WipeVectors, DeleteOldChunks, StoreChunks, IndexVectors, GoStep, CorpusInv,
         DataTypes, TypeOKData
<1>2. d \in Document /\ \A v \in Worker : DocOf(v)' = DocOf(v)
  BY <1>1, RunDoc DEF CorpusInv, DocOf, JobOf
<1>3. ASSUME NEW e \in Document, e # d
      PROVE  chunks'[e] = chunks[e] /\ vectors'[e] = vectors[e]
  BY <1>2, <1>3
  DEF WipeVectors, DeleteOldChunks, StoreChunks, IndexVectors, DeleteByDocument,
      CorpusInv, DataTypes, TypeOKData
<1>4. ASSUME NEW v \in Worker, v # w PROVE RunSound(v)'
  <2>1. step'[v] = step[v] /\ version'[v] = version[v]
    BY <1>4, PipelineFrame DEF CorpusInv, PipelineStepOf
  <2>2. step[v] # "outside" => DocOf(v) # d /\ DocOf(v) \in Document
    BY <1>1, <1>4, RunDoc DEF RunsApart, CorpusInv
  <2> QED
    BY <1>1, <1>2, <1>3, <2>1, <2>2 DEF RunSound, CorpusInv
<1>5. RunSound(w)'
  <2> USE <1>1, <1>2 DEF RunSound, CorpusInv, DataTypes, TypeOKData
  <2> HIDE DEF d
  <2>1. CASE WipeVectors(w)
    BY <2>1 DEF WipeVectors, DeleteByDocument, GoStep, d
  <2>2. CASE DeleteOldChunks(w)
    BY <2>2 DEF DeleteOldChunks, GoStep, d
  <2>3. CASE StoreChunks(w)
    BY <2>3 DEF StoreChunks, GoStep, d
  <2>4. CASE IndexVectors(w)
    BY <2>4 DEF IndexVectors, GoStep, d
  <2> QED
    BY <2>1, <2>2, <2>3, <2>4
<1>6. ASSUME NEW e \in Document PROVE ReadySound(e)'
  BY <1>1, <1>3 DEF RunSound, ReadySound, Searchable, CorpusInv
<1> QED
  BY <1>4, <1>5, <1>6 DEF Sound

\* The steps that begin and end a run.
LEMMA EdgeSound ==
    ASSUME CorpusInv, RunsApart, NEW w \in Worker,
           \/ AbandonDocument(w) \/ BeginDocument(w) \/ FinishDocument(w)
           \/ FailDocument(w) \/ RaiseOutside(w) \/ Die(w)
    PROVE  Sound'
<1> USE DEF CorpusInv, DataTypes, TypeOKData
<1>1. UNCHANGED <<chunks, vectors, deletion>>
  BY DEF AbandonDocument, BeginDocument, FinishDocument, FailDocument, RaiseOutside, Die
<1>2. \A d \in Document : status'[d] = status[d] \/ (Exists(d) /\ Exists(d)')
  BY PipelineRows DEF PipelineStepOf, Existing
<1>3. ASSUME NEW v \in Worker, step'[v] # "outside", v # w \/ ~BeginDocument(w)
      PROVE  step'[v] = step[v] /\ version'[v] = version[v] /\ DocOf(v)' = DocOf(v)
  <2>1. CASE v # w
    BY <2>1, PipelineFrame DEF PipelineStepOf, DocOf, JobOf
  <2>2. CASE v = w
    BY <1>3, <2>2
    DEF AbandonDocument, Abandon, FinishDocument, FailDocument, RaiseOutside, Die, LeaveRun,
        GoStep, DocOf, JobOf
  <2> QED
    BY <2>1, <2>2
<1>4. CASE ~BeginDocument(w) /\ ~FinishDocument(w)
  <2>1. \A d \in Document : status'[d] = status[d] \/ status'[d] = "FAILED"
    BY <1>4 DEF AbandonDocument, SetStatus, FailDocument, Failed, RaiseOutside, Die
  <2> QED
    BY <1>1, <1>2, <1>3, <1>4, <2>1, CalmStep DEF Exists
<1>5. CASE BeginDocument(w)
  <2>1. /\ \A d \in Document : status'[d] = status[d] \/ status'[d] = "PROCESSING"
        /\ DocOf(w)' = DocOf(w) /\ step'[w] = "loading" /\ pc[w] = "begin"
        /\ status' = [status EXCEPT ![DocOf(w)] = "PROCESSING"]
    BY <1>5 DEF BeginDocument, BeginCounted, BeginUncounted, SetStatus, GoStep, DocOf, JobOf
  <2>2. DocOf(w) \in Document
    BY <2>1, DocType DEF Holding
  <2>3. RunSound(w)'
    BY <2>1, <2>2 DEF RunSound
  <2>4. ASSUME NEW v \in Worker, v # w PROVE RunSound(v)'
    BY <1>1, <1>2, <1>3, <2>1, <2>4, RunDoc DEF RunSound, Exists
  <2>5. ASSUME NEW d \in Document PROVE ReadySound(d)'
    BY <1>1, <2>1 DEF ReadySound, Searchable
  <2> QED
    BY <2>3, <2>4, <2>5 DEF Sound
<1>6. CASE FinishDocument(w)
  <2> DEFINE d == DocOf(w)
  <2>1. /\ step[w] = "indexed" /\ step'[w] = "outside" /\ status[d] # "DELETED"
        /\ status' = [status EXCEPT ![d] = "READY"]
    BY <1>6 DEF FinishDocument, Indexed, SetStatus, LeaveRun, GoStep, Exists
  <2>2. d \in Document
    BY <2>1, RunDoc
  <2>3. RunSound(w)'
    BY <2>1 DEF RunSound
  <2>4. ASSUME NEW v \in Worker, v # w PROVE RunSound(v)'
    <3>1. step[v] # "outside" => DocOf(v) # d
      BY <2>1, <2>4 DEF RunsApart
    <3> QED
      BY <1>1, <1>3, <2>1, <2>2, <2>4, <3>1, RunDoc DEF RunSound
  <2>5. ASSUME NEW e \in Document, e = d PROVE ReadySound(e)'
    BY <1>1, <2>1, <2>2, <2>5 DEF RunSound, ReadySound, Searchable, RunsInside
  <2>6. ASSUME NEW e \in Document, e # d PROVE ReadySound(e)'
    BY <1>1, <2>1, <2>2, <2>6 DEF ReadySound, Searchable
  <2> QED
    BY <2>3, <2>4, <2>5, <2>6 DEF Sound
<1> QED
  BY <1>4, <1>5, <1>6

LEMMA NextCorpus == CorpusInv /\ RunsApart /\ [NextAll]_allVars => CorpusInv'
<1> SUFFICES ASSUME CorpusInv, RunsApart, [NextAll]_allVars PROVE Sound'
  BY NextDataTypes, NextRows DEF CorpusInv, Sound
<1>1. ASSUME NEW w \in Worker, LoopStep(w) PROVE Sound'
  <2>1. UNCHANGED dataVars
    BY <1>1, LoopFrame DEF CorpusInv
  <2>2. \A v \in Worker : step[v] # "outside" => DocOf(v)' = DocOf(v)
    BY <1>1, LoopFrame, RunDoc DEF CorpusInv, DocOf, JobOf
  <2> QED
    BY <2>1, <2>2, CalmStep
<1>2. CASE \/ \E r \in Raw : Expire(r) /\ UNCHANGED dataVars
           \/ UNCHANGED allVars
  <2>1. UNCHANGED <<held, dataVars>>
    BY <1>2 DEF Expire
  <2> QED
    BY <2>1, CalmStep DEF DocOf, JobOf
<1> QED
  BY <1>1, <1>2, RequestSound, DeleteSound, WriteSound, EdgeSound DEF NextAll, PipelineStepOf

LEMMA InitCorpus == InitAll => CorpusInv
<1>1. InitAll => DataTypes
  BY InitDataTypes
<1> QED
  BY <1>1 DEF InitAll, Init, InitData, CorpusInv, RowsMatch, RunSound, ReadySound

LEMMA AlwaysCorpus == SpecAll /\ []RunsApart => []CorpusInv
BY InitCorpus, NextCorpus, PTL DEF SpecAll

\* "A READY document is always searchable" (ingestion_pipeline.py, 7): true as
\* long as no two workers process one document at a time, whatever crashes, is
\* delivered twice, reprocessed or deleted meanwhile.
THEOREM ReadyStaysSearchable == SpecAll /\ []RunsApart => []ReadyIsSearchable
<1>1. CorpusInv => ReadyIsSearchable
  BY DEF CorpusInv, ReadySound, ReadyIsSearchable
<1> QED
  BY AlwaysCorpus, <1>1, PTL

\* "Reprocessing must not double the corpus" (ingestion_pipeline.py, 150), likewise.
THEOREM CorpusIsNotDoubled == SpecAll /\ []RunsApart => []NoDoubledCorpus
<1>1. CorpusInv => NoDoubledCorpus
  BY DEF CorpusInv, ReadySound, NoDoubledCorpus
<1> QED
  BY AlwaysCorpus, <1>1, PTL

\* A single worker, which is what docker-compose.yml starts unless it is scaled,
\* keeps its runs apart.
THEOREM OneWorkerIsSound ==
    (\A v, w \in Worker : v = w) /\ SpecAll => [](ReadyIsSearchable /\ NoDoubledCorpus)
<1>1. (\A v, w \in Worker : v = w) => RunsApart
  BY DEF RunsApart
<1>2. (\A v, w \in Worker : v = w) => (\A v, w \in Worker : v = w)'
  OBVIOUS
<1>3. (\A v, w \in Worker : v = w) => []RunsApart
  BY <1>1, <1>2, PTL
<1> QED
  BY <1>3, ReadyStaysSearchable, CorpusIsNotDoubled, PTL

-----------------------------------------------------------------------------
(***************************************************************************)
(* No document is stranded in PENDING or PROCESSING.  For a single worker, *)
(* while no process dies in the backoff of requeue, no upload outlasts the *)
(* retries of its own job and the database does not fail the worker.       *)
(***************************************************************************)

Tolerated == OneWorker /\ NoBackoffCrash /\ DataFaults \subseteq {"torn_delete"}

Unfinished == {"PENDING", "PROCESSING"}

\* The open request of j will make its document PENDING when it commits.
Owes(j) == row[j] = "open" /\ (j \in dirty \/ j \notin Requeued)

\* ... and by then no worker has finished with j: an upload is not there to be
\* processed yet, and the row lock of a requeue holds up every outcome.
Unfinal(w, j) ==
    /\ pc[w] \notin {"abandon", "ack"}
    /\ pc[w] = "run" => j \in Requeued
    /\ pc[w] = "failed" => j \notin Requeued /\ MayRetry(held[w])

OwedInv ==
    \A j \in Job :
        Owes(j) => /\ j \notin settled
                   /\ \A w \in Worker : pc[w] \in Holding /\ JobOf(w) = j => Unfinal(w, j)

\* When a worker is through with its job, either the document needs no more, or
\* another job of it is carried.
Elsewhere(w) ==
    \/ status[DocOf(w)] \notin Unfinished
    \/ \E k \in Job : k # JobOf(w) /\ DocumentOf[k] = DocOf(w) /\ Carried(k)

LastChance == \A w \in Worker : Through(w) => Elsewhere(w)

StrandInv == OwedInv /\ LastChance /\ NoStrandedDocument

\* What the proofs above provide.
Ground == DataTypes /\ RowsMatch /\ DeliveryInv /\ SoleInv

LEMMA InitStrand == InitAll => StrandInv
BY DEF InitAll, Init, InitData, StrandInv, OwedInv, Owes, LastChance, Through,
       NoStrandedDocument

\* A worker holds no job whose row is not there.
LEMMA UnheldJob ==
    ASSUME DeliveryInv, NEW j \in Job, row[j] = "unborn"
    PROVE  j \notin settled /\ \A w \in Worker : pc[w] \in Holding => JobOf(w) # j
BY DEF DeliveryInv, OnlyKnown, HandsKnown, Known, JobOf

LEMMA RequestOwed ==
    ASSUME Ground, OwedInv, NEW j \in Job, Upload(j) \/ Requeue(j) \/ EndRequest(j)
    PROVE  OwedInv'
<1>1. UNCHANGED <<pc, held, settled>>
  BY RequestFrame
<1>2. \A k \in Job \ {j} : Owes(k)' => Owes(k)
  BY DEF Upload, Requeue, EndRequest, Enqueue, CloseRequest, Owes, Ground, DataTypes,
         TypeInv, TypeOK
<1>3. CASE Upload(j) \/ Requeue(j)
  <2>1. row[j] = "unborn"
    BY <1>3 DEF Upload, Requeue, Enqueue
  <2> QED
    BY <1>1, <1>2, <2>1, UnheldJob DEF Ground, OwedInv, Unfinal, JobOf
<1>4. CASE EndRequest(j)
  <2>1. ~Owes(j)'
    BY <1>4 DEF EndRequest, CloseRequest, Owes, Ground, DataTypes, TypeInv, TypeOK
  <2> QED
    BY <1>1, <1>2, <2>1 DEF OwedInv, Unfinal, JobOf
<1> QED
  BY <1>3, <1>4

\* The worker's own steps: it settles, finishes or fails nothing that is owed.
LEMMA WorkerOwed ==
    ASSUME Ground, OwedInv, OneWorker, NEW w \in Worker,
           row' = row, dirty' = dirty,
           settled' = settled \/ (settled' = settled \cup {JobOf(w)} /\ Through(w)),
           pc'[w] \in Holding /\ Owes(JobOf(w)') => Unfinal(w, JobOf(w))'
    PROVE  OwedInv'
<1>1. \A j \in Job : Owes(j)' <=> Owes(j)
  BY DEF Owes
<1>2. \A v \in Worker : v = w
  BY DEF OneWorker
<1>3. Through(w) => ~Owes(JobOf(w))
  <2>1. Through(w) => pc[w] \in Holding /\ JobOf(w) \in Job
    BY DocType DEF Through, Holding, Ground, DataTypes
  <2> QED
    BY <2>1 DEF Through, OwedInv, Unfinal
<1> QED
  BY <1>1, <1>2, <1>3 DEF OwedInv, Owes

LEMMA LoopOwed ==
    ASSUME Ground, OwedInv, OneWorker, NEW w \in Worker, LoopStep(w)
    PROVE  OwedInv'
<1> USE DEF Ground, DataTypes, TypeInv, TypeOK
<1>1. row' = row /\ dirty' = dirty
  BY LoopFrame
<1>2. CASE ReapStep(w) \/ Pop(w) \/ ClaimNothing(w) \/ Beat(w) \/ Restart(w)
           \/ AckAndBackOff(w) \/ PushRetry(w) \/ ReapFails(w) \/ ClaimFails(w) \/ Stop(w)
  <2>1. settled' = settled /\ pc'[w] \notin {"abandon", "ack", "run", "failed"}
    BY <1>2
    DEF ReapStep, StartReap, InspectHeartbeat, Reclaim, FinishReap, Pop, ClaimNothing, Beat,
        Restart, AckAndBackOff, PushRetry, ReapFails, ClaimFails, Stop, Dies, NextIteration,
        Goto
  <2> QED
    BY <1>1, <2>1, WorkerOwed DEF Unfinal
<1>3. CASE Ack(w) \/ GiveUp(w)
  <2>1. /\ settled' = settled \cup {JobOf(w)} /\ Through(w) /\ pc'[w] \notin Holding
    BY <1>3 DEF Ack, GiveUp, NextIteration, Goto, Through, Holding
  <2> QED
    BY <1>1, <2>1, WorkerOwed
<1>4. CASE Guard(w)
  <2>1. /\ settled' = settled /\ pc[w] = "guard" /\ JobOf(w)' = JobOf(w)
        /\ \/ pc'[w] = "begin"
           \/ pc'[w] = "abandon" /\ row[JobOf(w)] = "visible"
    BY <1>4 DEF Guard, Goto, Poisoned, JobOf
  <2> QED
    BY <1>1, <2>1, WorkerOwed DEF Unfinal, Owes
<1>5. CASE AckFails(w)
  <2>1. /\ pc[w] = "ack" /\ pc'[w] = "failed" /\ held' = held
        /\ settled' = settled \/ settled' = settled \cup {JobOf(w)}
    BY <1>5 DEF AckFails, Goto
  <2>2. ~Owes(JobOf(w)) /\ JobOf(w)' = JobOf(w)
    BY <2>1, DocType DEF OwedInv, Unfinal, Holding, JobOf
  <2> QED
    BY <1>1, <2>1, <2>2, WorkerOwed DEF Through
<1> QED
  BY <1>2, <1>3, <1>4, <1>5 DEF LoopStep

LEMMA PipelineOwed ==
    ASSUME Ground, OwedInv, Tolerated, NEW w \in Worker, PipelineStepOf(w) \/ Die(w)
    PROVE  OwedInv'
<1> USE DEF Ground, DataTypes, TypeInv, TypeOK
<1> DEFINE j == JobOf(w)
<1>1. row' = row /\ dirty' = dirty /\ settled' = settled
  <2>1. settled' = settled
    BY DEF PipelineStepOf, AbandonDocument, Abandon, BeginDocument, BeginCounted,
           BeginUncounted, WipeVectors, DeleteOldChunks, StoreChunks, IndexVectors,
           FinishDocument, RunSucceeds, FailDocument, RaiseOutside, RunFails, Die, RunCrash,
           Crash, Dies
  <2> QED
    BY <2>1, PipelineFrame
<1>2. CASE Die(w)
  <2>1. pc'[w] \notin Holding
    BY <1>2 DEF Die, RunCrash, Crash, Dies, Goto, Holding
  <2> QED
    BY <1>1, <2>1, WorkerOwed DEF Tolerated
<1>3. CASE AbandonDocument(w)
  <2>1. row[j] = "visible" /\ JobOf(w)' = j
    BY <1>3 DEF AbandonDocument, Abandon, JobOf
  <2> QED
    BY <1>1, <2>1, WorkerOwed DEF Owes, Tolerated
<1>4. CASE BeginDocument(w)
  <2>1. /\ pc'[w] = "run" /\ JobOf(w)' = j
        /\ row[j] = "visible" \/ j \in Requeued
    BY <1>4 DEF BeginDocument, BeginCounted, BeginUncounted, Goto, JobOf
  <2> QED
    BY <1>1, <2>1, WorkerOwed DEF Owes, Unfinal, Tolerated
<1>5. CASE WipeVectors(w) \/ DeleteOldChunks(w) \/ StoreChunks(w) \/ IndexVectors(w)
  <2>1. UNCHANGED vars
    BY <1>5 DEF WipeVectors, DeleteOldChunks, StoreChunks, IndexVectors
  <2> QED
    BY <1>1, <2>1 DEF OwedInv, Owes, Unfinal, JobOf
<1>6. CASE FinishDocument(w) \/ FailDocument(w)
  <2>1. /\ pc[w] = "run" /\ JobOf(w)' = j /\ ~RowLocked(DocOf(w))
    BY <1>6 DEF FinishDocument, RunSucceeds, FailDocument, RunFails, JobOf
  <2>2. j \in Job
    BY <2>1, DocType DEF Holding
  <2>3. j \notin dirty
    BY <2>1, <2>2 DEF RowLocked, DocOf
  <2>4. Owes(j) => j \in Requeued
    BY <2>1, <2>2 DEF OwedInv, Unfinal, Holding
  <2>5. ~Owes(j)
    BY <2>3, <2>4 DEF Owes
  <2> QED
    BY <1>1, <2>1, <2>5, WorkerOwed DEF Tolerated
<1>7. CASE RaiseOutside(w)
  <2>1. /\ pc[w] \in {"abandon", "begin"} /\ pc'[w] = "failed" /\ held' = held
        /\ ~Exists(DocOf(w)) /\ ~OutlastedRetries(w)
    BY <1>7 DEF RaiseOutside, RunFails, Goto, Tolerated
  <2>2. j \in Job /\ JobOf(w)' = j
    BY <2>1, DocType DEF Holding, JobOf
  <2>3. Owes(j) => j \notin Requeued /\ MayRetry(held[w])
    BY <2>1, <2>2 DEF Owes, OutlastedRetries, RowsMatch, DocOf
  <2> QED
    BY <1>1, <2>1, <2>2, <2>3, WorkerOwed DEF Unfinal, Tolerated
<1> QED
  BY <1>2, <1>3, <1>4, <1>5, <1>6, <1>7 DEF PipelineStepOf

LEMMA NextOwed ==
    ASSUME Ground, OwedInv, Tolerated, [NextAll]_allVars
    PROVE  OwedInv'
<1>1. ASSUME NEW d \in Document, WipeForDelete(d) \/ CommitDelete(d) \/ TearDelete(d)
      PROVE  OwedInv'
  <2>1. UNCHANGED <<workerVars, settled, dirty>>
    BY <1>1, DeleteFrame
  <2>2. \A j \in Job : row'[j] = "open" => row[j] = "open"
    BY <1>1 DEF WipeForDelete, CommitDelete, DeleteRows, TearDelete
  <2> QED
    BY <2>1, <2>2 DEF OwedInv, Owes, Unfinal, JobOf
<1>2. CASE \/ \E r \in Raw : Expire(r) /\ UNCHANGED dataVars
           \/ UNCHANGED allVars
  <2>1. UNCHANGED <<row, workerVars, settled, dirty>>
    BY <1>2 DEF Expire
  <2> QED
    BY <2>1 DEF OwedInv, Owes, Unfinal, JobOf
<1> QED
  BY <1>1, <1>2, RequestOwed, LoopOwed, PipelineOwed DEF NextAll, Tolerated

\* After the step something is carried for d that no worker is through with.
FreshWork(d) ==
    \E k \in Job : /\ DocumentOf[k] = d /\ Carried(k)'
                  /\ \A w \in Worker : Through(w)' => JobOf(w)' # k

\* A document comes to need work only with a job that is carried, and a worker
\* is done with its job only when it stays done, or the document needs no more.
Attends ==
    /\ \A d \in Document :
          status'[d] \in Unfinished => status[d] \in Unfinished \/ FreshWork(d)
    /\ \A w \in Worker :
          Through(w)' => \/ Through(w) /\ JobOf(w)' = JobOf(w)
                         \/ \A d \in Document : d = DocOf(w)' => status'[d] \notin Unfinished

LEMMA AttendsKeeps ==
    ASSUME Ground, LastChance, NoStrandedDocument, OneWorker, Moves, Attends, TypeInv'
    PROVE  LastChance' /\ NoStrandedDocument'
<1>1. ASSUME NEW d \in Document, status[d] \in Unfinished
      PROVE  \E k \in Job : DocumentOf[k] = d /\ Carried(k)'
  <2>1. PICK k \in Job : DocumentOf[k] = d /\ Carried(k)
    BY <1>1 DEF NoStrandedDocument, Unfinished
  <2>2. CASE Carried(k)'
    BY <2>1, <2>2
  <2>3. CASE ~Carried(k)'
    <3>1. PICK w \in Worker : Through(w) /\ JobOf(w) \in Job /\ Settles(JobOf(w))
      BY <2>1, <2>3 DEF Moves, Quiet, Carries
    <3>2. k = JobOf(w)
      BY <2>1, <2>3, <3>1 DEF Settles
    <3>3. PICK i \in Job : i # JobOf(w) /\ DocumentOf[i] = d /\ Carried(i)
      BY <1>1, <2>1, <3>1, <3>2 DEF LastChance, Elsewhere, DocOf
    <3> QED
      BY <3>1, <3>3 DEF Settles
  <2> QED
    BY <2>2, <2>3
<1>2. NoStrandedDocument'
  BY <1>1 DEF Attends, FreshWork, NoStrandedDocument, Unfinished
<1>3. ASSUME NEW w \in Worker, Through(w)' PROVE Elsewhere(w)'
  <2> PICK d : d = DocOf(w)'
    OBVIOUS
  <2>1. d \in Document
    <3>1. JobOf(w)' \in Job
      BY <1>3 DEF Through, TypeInv, HandsFull, Holding, JobOf, Raw
    <3> QED
      BY <3>1, IngestionAssumption DEF DocOf
  <2> SUFFICES ASSUME status'[d] \in Unfinished
               PROVE  \E k \in Job : k # JobOf(w)' /\ DocumentOf[k] = d /\ Carried(k)'
    BY DEF Elsewhere
  <2>2. Through(w) /\ JobOf(w)' = JobOf(w) /\ d = DocOf(w)
    BY <1>3, <2>1 DEF Attends, DocOf
  <2>3. CASE FreshWork(d)
    BY <1>3, <2>3 DEF FreshWork
  <2>4. CASE status[d] \in Unfinished
    <3>1. PICK k \in Job : k # JobOf(w) /\ DocumentOf[k] = d /\ Carried(k)
      BY <2>2, <2>4 DEF LastChance, Elsewhere
    <3>2. Carried(k)'
      BY <3>1 DEF Moves, Quiet, Carries, Settles, OneWorker
    <3> QED
      BY <2>2, <3>1, <3>2
  <2> QED
    BY <2>1, <2>3, <2>4 DEF Attends
<1> QED
  BY <1>2, <1>3 DEF LastChance

LEMMA RequestAttends ==
    ASSUME Ground, Ground', OwedInv, NEW j \in Job,
           Upload(j) \/ Requeue(j) \/ EndRequest(j)
    PROVE  Attends
<1>1. UNCHANGED <<pc, held, settled>>
  BY RequestFrame
<1>2. \A w \in Worker : /\ Through(w)' <=> Through(w)
                        /\ JobOf(w)' = JobOf(w)
  BY <1>1 DEF Through, JobOf
<1>3. CASE Upload(j) \/ Requeue(j)
  BY <1>2, <1>3 DEF Upload, Requeue, Attends
<1>4. CASE EndRequest(j)
  <2>1. /\ row[j] = "open" /\ row'[j] \in {"visible", "aborted"}
        /\ \/ status' = status
           \/ /\ status' = [status EXCEPT ![DocumentOf[j]] = "PENDING"]
              /\ j \in dirty \/ j \notin Requeued
    BY <1>4 DEF EndRequest, CloseRequest, Ground, DataTypes, TypeInv, TypeOK
  <2>2. CASE status' = status
    BY <1>2, <2>2 DEF Attends
  <2>3. CASE Owes(j)
    <3>1. Carried(j)'
      <4>1. j \notin settled'
        BY <1>1, <2>3 DEF OwedInv
      <4> QED
        BY <2>1, <4>1 DEF Ground, DeliveryInv, NoJobLost
    <3>2. \A w \in Worker : Through(w) => JobOf(w) # j
      BY <2>3 DEF Through, OwedInv, Unfinal, Holding
    <3>3. FreshWork(DocumentOf[j])
      BY <1>2, <3>1, <3>2 DEF FreshWork
    <3>4. \A d \in Document : d # DocumentOf[j] => status'[d] = status[d]
      BY <2>1 DEF Ground, DataTypes, TypeOKData
    <3> QED
      BY <1>2, <3>3, <3>4 DEF Attends
  <2> QED
    BY <2>1, <2>2, <2>3 DEF Owes
<1> QED
  BY <1>3, <1>4

LEMMA PipelineAttends ==
    ASSUME Ground, Ground', Tolerated, NEW w \in Worker, PipelineStepOf(w) \/ Die(w)
    PROVE  Attends
<1> USE DEF Ground, DataTypes, TypeInv, TypeOK, TypeOKData
<1>1. \A v \in Worker : v = w
  BY DEF Tolerated, OneWorker
<1> DEFINE d == DocOf(w)
<1>2. CASE WipeVectors(w) \/ DeleteOldChunks(w) \/ StoreChunks(w) \/ IndexVectors(w)
  BY <1>2 DEF WipeVectors, DeleteOldChunks, StoreChunks, IndexVectors, Attends, Through, JobOf
<1>3. CASE Die(w)
  <2>1. status' = status /\ pc'[w] = "down"
    BY <1>3 DEF Die, RunCrash, Crash, Dies, Goto
  <2> QED
    BY <1>1, <2>1 DEF Attends, Through
<1>4. CASE BeginDocument(w)
  <2>1. /\ UNCHANGED <<processing, held>> /\ pc[w] = "begin" /\ pc'[w] = "run"
        /\ status' = [status EXCEPT ![d] = "PROCESSING"]
    BY <1>4 DEF BeginDocument, BeginCounted, BeginUncounted, Goto, SetStatus
  <2>2. JobOf(w) \in Job /\ held[w] \in Raw /\ held[w].job = JobOf(w)
    BY <2>1, DocType DEF Holding, HandsFull, JobOf
  <2>3. processing[held[w]] > 0
    BY <2>1 DEF SoleInv, Sole, HandListed, AtWork
  <2>4. Carried(JobOf(w))'
    <3>1. \A j : j = JobOf(w) => InProcess(j)'
      BY <2>1, <2>2, <2>3 DEF InProcess
    <3> QED
      BY <2>1, <3>1 DEF Carried, JobOf
  <2>5. \A e \in Document : e # d => status'[e] = status[e]
    BY <2>1
  <2>6. ASSUME NEW e \in Document, e = d PROVE FreshWork(e)
    <3>1. \A j : j = JobOf(w) => Carried(j)'
      BY <2>1, <2>4 DEF JobOf
    <3> QED
      BY <1>1, <2>1, <2>2, <2>6, <3>1 DEF FreshWork, Through, DocOf
  <2> QED
    BY <1>1, <2>1, <2>5, <2>6 DEF Attends, Through
<1>5. CASE AbandonDocument(w) \/ FinishDocument(w) \/ FailDocument(w) \/ RaiseOutside(w)
  <2>1. pc[w] \in Holding /\ held' = held
    BY <1>5 DEF AbandonDocument, Abandon, FinishDocument, RunSucceeds, FailDocument,
                RaiseOutside, RunFails, Tolerated, Holding
  <2>2. d \in Document
    BY <2>1, DocType
  <2>3. \A e \in Document : status'[e] \in Unfinished => status[e] \in Unfinished
    BY <1>5, <2>2 DEF AbandonDocument, FinishDocument, FailDocument, Failed, RaiseOutside,
                      SetStatus, Unfinished
  <2>4. \A e \in Document : e = d => status'[e] \notin Unfinished
    BY <1>5, <2>2
    DEF AbandonDocument, FinishDocument, FailDocument, Failed, RaiseOutside, SetStatus,
        Unfinished, Exists, Tolerated, DocumentStatus
  <2>5. DocOf(w)' = d
    BY <2>1 DEF DocOf, JobOf
  <2> QED
    BY <1>1, <2>3, <2>4, <2>5 DEF Attends
<1> QED
  BY <1>2, <1>3, <1>4, <1>5 DEF PipelineStepOf

LEMMA OtherAttends ==
    ASSUME Ground, OneWorker, UNCHANGED status,
           \/ \E w \in Worker : LoopStep(w)
           \/ UNCHANGED <<pc, held>>
    PROVE  Attends
<1> USE DEF Ground, DataTypes, TypeInv, TypeOK
<1>1. CASE UNCHANGED <<pc, held>>
  BY <1>1 DEF Attends, Through, JobOf
<1>2. ASSUME NEW w \in Worker, LoopStep(w) PROVE Attends
  <2>1. \A v \in Worker : v = w
    BY DEF OneWorker
  <2>2. CASE AckFails(w)
    <3>1. pc[w] = "ack" /\ held' = held
      BY <2>2 DEF AckFails
    <3> QED
      BY <2>1, <3>1 DEF Attends, Through, JobOf
  <2>3. CASE ~AckFails(w)
    <3>1. pc'[w] \notin {"ack", "failed"}
      BY <1>2, <2>3
      DEF LoopStep, ReapStep, StartReap, InspectHeartbeat, Reclaim, FinishReap, Pop,
          ClaimNothing, Beat, Guard, Ack, AckAndBackOff, PushRetry, GiveUp, ReapFails,
          ClaimFails, Stop, Restart, Dies, NextIteration, Goto
    <3> QED
      BY <2>1, <3>1 DEF Attends, Through
  <2> QED
    BY <2>2, <2>3
<1> QED
  BY <1>1, <1>2

LEMMA NextStrand ==
    Tolerated /\ Ground /\ Ground' /\ StrandInv /\ [NextAll]_allVars => StrandInv'
<1> SUFFICES ASSUME Tolerated, Ground, Ground', StrandInv, [NextAll]_allVars
             PROVE  StrandInv'
  OBVIOUS
<1> USE DEF Tolerated, StrandInv
<1>1. Moves
  <2>1. [Next]_vars
    BY NextAllRefines
  <2> QED
    BY <2>1, NextDelivery DEF Ground, Step
<1>2. OwedInv'
  BY NextOwed
<1>3. ASSUME NEW d \in Document, CommitDelete(d) PROVE Attends
  <2>1. UNCHANGED <<pc, held>>
    BY <1>3, DeleteFrame
  <2>2. \A e \in Document : status'[e] = status[e] \/ status'[e] = "DELETED"
    BY <1>3 DEF CommitDelete, SetStatus, Ground, DataTypes, TypeOKData
  <2> QED
    BY <2>1, <2>2 DEF Attends, Through, JobOf, Unfinished
<1>4. ASSUME NEW d \in Document, WipeForDelete(d) \/ TearDelete(d) PROVE Attends
  BY <1>4, OtherAttends DEF WipeForDelete, TearDelete
<1>5. ASSUME NEW w \in Worker, LoopStep(w) PROVE Attends
  BY <1>5, LoopFrame, OtherAttends DEF Ground
<1>6. ASSUME \/ \E r \in Raw : Expire(r) /\ UNCHANGED dataVars
             \/ UNCHANGED allVars
      PROVE  Attends
  BY <1>6, OtherAttends DEF Expire
<1>7. Attends
  BY <1>3, <1>4, <1>5, <1>6, RequestAttends, PipelineAttends DEF NextAll
<1> QED
  BY <1>1, <1>2, <1>7, AttendsKeeps DEF Ground, DataTypes

LEMMA AlwaysGround == OneWorker /\ NoBackoffCrash /\ SpecAll => []Ground
<1>1. InitAll => DataTypes /\ RowsMatch
  BY InitDataTypes DEF InitAll, Init, InitData, RowsMatch
<1>2. DataTypes /\ RowsMatch /\ [NextAll]_allVars => (DataTypes /\ RowsMatch)'
  BY NextDataTypes, NextRows
<1>3. SpecAll => [](DataTypes /\ RowsMatch)
  BY <1>1, <1>2, PTL DEF SpecAll
<1>4. OneWorker /\ NoBackoffCrash /\ SpecAll => [](DeliveryInv /\ SoleInv)
  BY IngestionRefinesQueue, AlwaysDelivery, AlwaysSole, PTL
<1>5. DataTypes /\ RowsMatch /\ DeliveryInv /\ SoleInv => Ground
  BY DEF Ground
<1> QED
  BY <1>3, <1>4, <1>5, PTL

\* With a single worker, a document that says PENDING or PROCESSING always has a
\* job on the way to it: no crash, retry, reprocess or delete strands it, but
\* for the faults that Tolerated names (services/queue.py and worker.py with
\* document_service.py).
THEOREM NoDocumentIsStranded == Tolerated /\ SpecAll => []NoStrandedDocument
<1>1. Tolerated => Tolerated'
  BY DEF Tolerated, OneWorker, NoBackoffCrash
<1>2. Tolerated /\ SpecAll => []Ground
  <2>1. Tolerated => OneWorker /\ NoBackoffCrash
    BY DEF Tolerated
  <2> QED
    BY <2>1, AlwaysGround, PTL
<1>3. StrandInv => NoStrandedDocument
  BY DEF StrandInv
<1> QED
  BY InitStrand, NextStrand, <1>1, <1>2, <1>3, PTL DEF SpecAll
=============================================================================
