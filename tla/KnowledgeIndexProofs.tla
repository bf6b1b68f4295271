------------------------ MODULE KnowledgeIndexProofs ------------------------
(***************************************************************************)
(* The safety of the manifest, for any number of documents, handlers, jobs *)
(* and crashes.  The argument has two layers: the types, with the bound on *)
(* a job's attempts, and above them how jobs, documents and the worker     *)
(* belong together.                                                        *)
(***************************************************************************)
EXTENDS KnowledgeIndex, TLAPS

\* A handler that is to queue a job has settled which kind of job.
KindIsGiven ==
  \A t \in Threads : thread[t].pc \in {"start", "submit"} =>
                       thread[t].operation \in {"index", "reindex"}

\* A claim raises attempts by one, so their type needs the bound on queued jobs.
TypeInv == TypeOK /\ KindIsGiven /\ RecoveryGivesUp

-----------------------------------------------------------------------------
(* What the building blocks of the actions do to the types.                *)

\* A job is queued with a type of its own and no attempt, beside jobs that were there.
LEMMA InsertJobType ==
  ASSUME TypeInv, NEW d \in Docs, NEW op \in {"index", "reindex"},
         NEW others \in SUBSET jobs, InsertJob(d, op, others)
  PROVE  jobs' \in SUBSET Job /\ RecoveryGivesUp'
<1>1. PICK id \in JobIds :
        jobs' = others \cup {[id |-> id, doc |-> d, operation |-> op,
                              status |-> "queued", attempts |-> 0]}
  BY DEF InsertJob
<1>2. [id |-> id, doc |-> d, operation |-> op, status |-> "queued", attempts |-> 0] \in Job
  BY ConstantsAssumption DEF Job
<1>3. jobs' \in SUBSET Job
  BY <1>1, <1>2 DEF TypeInv, TypeOK
<1>4. RecoveryGivesUp'
  BY <1>1, ConstantsAssumption DEF TypeInv, RecoveryGivesUp, QueuedJobs
<1> QED  BY <1>3, <1>4

\* A subset of the jobs is well typed and recoverable.
LEMMA FewerJobsType ==
  ASSUME TypeInv, jobs' \in SUBSET jobs
  PROVE  jobs' \in SUBSET Job /\ RecoveryGivesUp'
BY DEF TypeInv, TypeOK, RecoveryGivesUp, QueuedJobs

\* A thread goes on, to a place that needs no kind of job or with the kind it has.
LEMMA GotoType ==
  ASSUME TypeInv, NEW t \in Threads, NEW pc \in ThreadPC, Goto(t, pc),
         pc \in {"start", "submit"} => thread[t].pc \in {"start", "submit"}
  PROVE  thread' \in [Threads -> ThreadState] /\ KindIsGiven'
BY DEF TypeInv, TypeOK, KindIsGiven, Goto, ThreadState

\* A thread that is done is idle again.
LEMMA ReturnType ==
  ASSUME TypeInv, NEW t \in Threads, Return(t)
  PROVE  thread' \in [Threads -> ThreadState] /\ KindIsGiven'
BY DEF TypeInv, TypeOK, KindIsGiven, Return, IdleThread, ThreadState, ThreadPC

\* A request sets its thread going.
LEMMA BeginType ==
  ASSUME TypeInv, NEW t \in Threads, NEW op, NEW state \in ThreadState, Begin(t, op, state),
         state.pc \in {"start", "submit"} => state.operation \in {"index", "reindex"},
         KeepRows, KeepProcess
  PROVE  TypeInv'
BY DEF TypeInv, TypeOK, KindIsGiven, RecoveryGivesUp, QueuedJobs, Begin, KeepRows, KeepProcess,
       manifest, documents

\* The worker goes on.
LEMMA WorkerGotoType ==
  ASSUME TypeInv, NEW pc \in WorkerPC, WorkerGoto(pc)
  PROVE  worker' \in WorkerState
BY DEF TypeInv, TypeOK, WorkerGoto, WorkerState

\* Whatever becomes of the chunks, they carry a generation that there is.
LEMMA BackendType ==
  ASSUME TypeInv, NEW d \in Docs,
         BackendDelete(d) \/ BackendDeleteFails(d) \/ BackendIndex(d) \/ BackendIndexFails(d)
  PROVE  chunks' \in [Docs -> [generation : Generations, whole : BOOLEAN]]
<1> DEFINE C == [generation : Generations, whole : BOOLEAN]
<1>1. /\ NoChunks \in C
      /\ AllChunks(worker.generation) \in C
      /\ SomeChunks(worker.generation) \in C
      /\ SomeChunks(chunks[d].generation) \in C
  BY ConstantsAssumption
     DEF TypeInv, TypeOK, NoChunks, AllChunks, SomeChunks, WorkerState, Generations
<1> QED
  BY <1>1 DEF TypeInv, TypeOK, BackendDelete, BackendDeleteFails, BackendIndex, BackendIndexFails

-----------------------------------------------------------------------------
(* Every action keeps the types.                                           *)

\* The empty data directory is well typed.
LEMMA TypeInit == Init => TypeInv
<1> SUFFICES ASSUME Init PROVE TypeInv
  OBVIOUS
<1>1. IdleThread \in ThreadState /\ IdleWorker \in WorkerState
  BY ConstantsAssumption
     DEF IdleThread, ThreadState, ThreadPC, IdleWorker, WorkerState, WorkerPC, Generations
<1>2. NoChunks \in [generation : Generations, whole : BOOLEAN]
  BY ConstantsAssumption DEF NoChunks, Generations
<1>3. 0 \in Generations /\ 0 \in 0 .. MaxCrashes
  BY ConstantsAssumption DEF Generations
<1>4. TypeOK
  BY <1>1, <1>2, <1>3 DEF Init, TypeOK
<1>5. KindIsGiven /\ RecoveryGivesUp
  BY DEF Init, KindIsGiven, RecoveryGivesUp, QueuedJobs, IdleThread
<1> QED  BY <1>4, <1>5 DEF TypeInv

\* A request that arrives only sets its thread going.
LEMMA RequestType ==
  ASSUME TypeInv, NEW t \in Threads, NEW d \in Docs, Request(t, d)
  PROVE  TypeInv'
<1>1. ASSUME NEW payload \in Payloads, Upload(t, d, payload) PROVE TypeInv'
  <2>1. [Handling("save", d) EXCEPT !.payload = payload] \in ThreadState
    BY DEF Handling, ThreadState, ThreadPC
  <2> QED  BY <1>1, <2>1, BeginType DEF Upload, Handling
<1>2. CASE RetryIndexing(t, d)
  <2>1. [Handling("submit", d) EXCEPT !.operation = "reindex"] \in ThreadState
    BY DEF Handling, ThreadState, ThreadPC
  <2> QED  BY <1>2, <2>1, BeginType DEF RetryIndexing, Handling
<1>3. CASE StartIndexing(t, d)
  <2> DEFINE op == IF status[d] \in {"ready", "failed"} THEN "reindex" ELSE "index"
  <2>1. [Handling("start", d) EXCEPT !.operation = op] \in ThreadState
    BY DEF Handling, ThreadState, ThreadPC
  <2> QED  BY <1>3, <2>1, BeginType DEF StartIndexing, Handling
<1>4. CASE StopIndexing(t, d)
  <2>1. Handling("stop", d) \in ThreadState
    BY DEF Handling, ThreadState, ThreadPC
  <2> QED  BY <1>4, <2>1, BeginType DEF StopIndexing, Handling
<1>5. CASE DeleteDocument(t, d)
  <2>1. Handling("delete", d) \in ThreadState
    BY DEF Handling, ThreadState, ThreadPC
  <2> QED  BY <1>5, <2>1, BeginType DEF DeleteDocument, Handling
<1> QED  BY <1>1, <1>2, <1>3, <1>4, <1>5 DEF Request

\* A new row has the types of its columns, and so has its first job.
LEMMA CreateQueuedDocumentType ==
  ASSUME TypeInv, NEW t \in Threads, NEW d \in Docs, CreateQueuedDocument(d, thread[t].payload)
  PROVE  /\ status' \in [Docs -> {"absent", "queued", "indexing", "ready", "failed"}]
         /\ generation' \in [Docs -> Generations]
         /\ indexed' \in [Docs -> Generations]
         /\ digest' \in [Docs -> Payloads \cup {None}]
         /\ jobs' \in SUBSET Job
         /\ collections' = collections
         /\ RecoveryGivesUp'
<1>1. 0 \in Generations /\ 1 \in Generations
  BY ConstantsAssumption DEF Generations
<1>2. thread[t].payload \in Payloads \cup {None}
  BY DEF TypeInv, TypeOK, ThreadState
<1>3. jobs' \in SUBSET Job /\ RecoveryGivesUp'
  BY InsertJobType DEF CreateQueuedDocument
<1> QED  BY <1>1, <1>2, <1>3 DEF CreateQueuedDocument, TypeInv, TypeOK

\* Each call of a handler keeps the types.
LEMMA HandlerType ==
  ASSUME TypeInv, NEW t \in Threads, NEW d \in Docs, HandlerStep(t, d)
  PROVE  TypeInv'
<1> USE DEF KeepRows, KeepProcess, manifest, documents
<1>1. CASE SaveOriginal(t, d)
  <2>1. original' \in [Docs -> Payloads \cup {None}]
    BY <1>1 DEF SaveOriginal, TypeInv, TypeOK, ThreadState
  <2>2. thread' \in [Threads -> ThreadState] /\ KindIsGiven'
    BY <1>1, GotoType, ReturnType DEF SaveOriginal, ThreadPC
  <2> QED
    BY <1>1, <2>1, <2>2 DEF SaveOriginal, TypeInv, TypeOK, RecoveryGivesUp, QueuedJobs
<1>2. CASE CreateUploaded(t, d)
  <2>1. thread' \in [Threads -> ThreadState] /\ KindIsGiven'
    BY <1>2, GotoType, ReturnType DEF CreateUploaded, ThreadPC
  <2>2. CASE CreateQueuedDocument(d, thread[t].payload)
    BY <1>2, <2>1, <2>2, CreateQueuedDocumentType DEF CreateUploaded, TypeInv, TypeOK
  <2>3. CASE UNCHANGED manifest
    BY <1>2, <2>1, <2>3 DEF CreateUploaded, TypeInv, TypeOK, RecoveryGivesUp, QueuedJobs
  <2> QED  BY <1>2, <2>2, <2>3 DEF CreateUploaded
<1>3. CASE UndoSave(t, d)
  BY <1>3, ReturnType DEF UndoSave, TypeInv, TypeOK, RecoveryGivesUp, QueuedJobs
<1>4. CASE ReconcileUpload(t, d)
  <2>1. thread' \in [Threads -> ThreadState] /\ KindIsGiven'
    BY <1>4, GotoType, ReturnType DEF ReconcileUpload, ThreadPC
  <2> QED
    BY <1>4, <2>1 DEF ReconcileUpload, TypeInv, TypeOK, RecoveryGivesUp, QueuedJobs
<1>5. CASE CreateReconciled(t, d)
  <2>1. CASE CreateQueuedDocument(d, thread[t].payload)
    BY <1>5, <2>1, ReturnType, CreateQueuedDocumentType DEF CreateReconciled, TypeInv, TypeOK
  <2>2. CASE UNCHANGED manifest
    BY <1>5, <2>2, ReturnType
       DEF CreateReconciled, TypeInv, TypeOK, RecoveryGivesUp, QueuedJobs
  <2> QED  BY <1>5, <2>1, <2>2 DEF CreateReconciled
<1>6. CASE ReadActiveForStart(t, d)
  <2>1. thread' \in [Threads -> ThreadState] /\ KindIsGiven'
    BY <1>6, GotoType, ReturnType DEF ReadActiveForStart, At, ThreadPC
  <2> QED
    BY <1>6, <2>1 DEF ReadActiveForStart, TypeInv, TypeOK, RecoveryGivesUp, QueuedJobs
<1>7. CASE SubmitJob(t, d)
  <2>1. thread' \in [Threads -> ThreadState] /\ KindIsGiven'
    BY <1>7, GotoType, ReturnType DEF SubmitJob, ThreadPC
  <2>2. thread[t].operation \in {"index", "reindex"}
    BY <1>7 DEF SubmitJob, At, TypeInv, KindIsGiven
  <2>3. jobs' \in SUBSET Job /\ RecoveryGivesUp'
    BY <1>7, <2>2, InsertJobType, FewerJobsType DEF SubmitJob
  <2> QED  BY <1>7, <2>1, <2>3 DEF SubmitJob, TypeInv, TypeOK
<1>8. CASE Requeue(t, d)
  BY <1>8, ReturnType
     DEF Requeue, SetDocumentStatus, TypeInv, TypeOK, RecoveryGivesUp, QueuedJobs
<1>9. CASE ReadActiveForStop(t, d)
  <2>1. thread' \in [Threads -> ThreadState] /\ KindIsGiven'
    BY <1>9, GotoType, ReturnType DEF ReadActiveForStop, ThreadPC
  <2> QED
    BY <1>9, <2>1 DEF ReadActiveForStop, TypeInv, TypeOK, RecoveryGivesUp, QueuedJobs
<1>10. CASE CancelForStop(t, d)
  <2>1. thread' \in [Threads -> ThreadState] /\ KindIsGiven'
    BY <1>10, GotoType, ReturnType DEF CancelForStop, ThreadPC
  <2>2. jobs' \in SUBSET Job /\ RecoveryGivesUp'
    BY <1>10, FewerJobsType DEF CancelForStop, CancelQueuedJob
  <2> QED  BY <1>10, <2>1, <2>2 DEF CancelForStop, TypeInv, TypeOK
<1>11. CASE ReadActiveForDelete(t, d)
  <2>1. thread' \in [Threads -> ThreadState] /\ KindIsGiven'
    BY <1>11, GotoType, ReturnType DEF ReadActiveForDelete, ThreadPC
  <2> QED
    BY <1>11, <2>1 DEF ReadActiveForDelete, TypeInv, TypeOK, RecoveryGivesUp, QueuedJobs
<1>12. CASE CancelForDelete(t, d)
  <2>1. thread' \in [Threads -> ThreadState] /\ KindIsGiven'
    BY <1>12, GotoType, ReturnType DEF CancelForDelete, ThreadPC
  <2>2. jobs' \in SUBSET Job /\ RecoveryGivesUp'
    BY <1>12, FewerJobsType DEF CancelForDelete, CancelQueuedJob
  <2> QED  BY <1>12, <2>1, <2>2 DEF CancelForDelete, TypeInv, TypeOK
<1>13. CASE DeleteChunks(t, d)
  <2>1. thread' \in [Threads -> ThreadState] /\ KindIsGiven'
    BY <1>13, GotoType, ReturnType DEF DeleteChunks, ThreadPC
  <2>2. chunks' \in [Docs -> [generation : Generations, whole : BOOLEAN]]
    BY <1>13, BackendType DEF DeleteChunks
  <2> QED
    BY <1>13, <2>1, <2>2 DEF DeleteChunks, TypeInv, TypeOK, RecoveryGivesUp, QueuedJobs
<1>14. CASE UnlinkOriginal(t, d)
  <2>1. thread' \in [Threads -> ThreadState] /\ KindIsGiven'
    BY <1>14, GotoType DEF UnlinkOriginal, ThreadPC
  <2> QED
    BY <1>14, <2>1 DEF UnlinkOriginal, TypeInv, TypeOK, RecoveryGivesUp, QueuedJobs
<1>15. CASE DeleteRecord(t, d)
  <2>1. jobs' \in SUBSET Job /\ RecoveryGivesUp'
    BY <1>15, FewerJobsType DEF DeleteRecord
  <2>2. 0 \in Generations
    BY ConstantsAssumption DEF Generations
  <2> QED  BY <1>15, <2>1, <2>2, ReturnType DEF DeleteRecord, TypeInv, TypeOK
<1> QED
  BY <1>1, <1>2, <1>3, <1>4, <1>5, <1>6, <1>7, <1>8, <1>9, <1>10, <1>11, <1>12, <1>13,
     <1>14, <1>15 DEF HandlerStep

\* Finishing a job, queueing the next one or not, keeps the types.
LEMMA FinishIndexingType ==
  ASSUME TypeInv, NEW d \in Docs, NEW error, FinishIndexing(d, error)
  PROVE  /\ status' \in [Docs -> {"absent", "queued", "indexing", "ready", "failed"}]
         /\ indexed' \in [Docs -> Generations]
         /\ jobs' \in SUBSET Job
         /\ worker' \in WorkerState
         /\ UNCHANGED <<collections, generation, digest>>
         /\ RecoveryGivesUp'
<1>1. jobs' \in SUBSET Job /\ RecoveryGivesUp'
  <2>1. jobs \ HeldJob(d) \in SUBSET jobs
    OBVIOUS
  <2>2. CASE InsertJob(d, "reindex", jobs \ HeldJob(d))
    BY <2>1, <2>2, InsertJobType
  <2>3. CASE jobs' = jobs \ HeldJob(d)
    BY <2>3, FewerJobsType
  <2> QED  BY <2>2, <2>3 DEF FinishIndexing
<1>2. IdleWorker \in WorkerState
  BY ConstantsAssumption DEF IdleWorker, WorkerState, WorkerPC, Generations
<1>3. worker.generation \in Generations
  BY DEF TypeInv, TypeOK, WorkerState
<1> QED  BY <1>1, <1>2, <1>3 DEF FinishIndexing, TypeInv, TypeOK

\* Each call of the worker keeps the types.
LEMMA WorkerStepType ==
  ASSUME TypeInv, NEW d \in Docs, WorkerStep(d)
  PROVE  TypeInv'
<1> USE DEF KeepOutside, manifest, documents
<1>0. BackendErrors \in SUBSET WorkerPC
  BY ConstantsAssumption DEF WorkerPC
<1>1. CASE ReadIndexingContext(d)
  <2>1. worker' \in WorkerState
    BY <1>1, WorkerGotoType DEF ReadIndexingContext, TypeInv, TypeOK, WorkerState, WorkerPC
  <2> QED
    BY <1>1, <2>1 DEF ReadIndexingContext, TypeInv, TypeOK, KindIsGiven, RecoveryGivesUp, QueuedJobs
<1>2. CASE MarkIndexing(d)
  <2>1. worker' \in WorkerState
    BY <1>2, WorkerGotoType DEF MarkIndexing, WorkerPC
  <2> QED
    BY <1>2, <2>1 DEF MarkIndexing, SetDocumentStatus, TypeInv, TypeOK, KindIsGiven,
                      RecoveryGivesUp, QueuedJobs
<1>3. CASE WipeChunks(d)
  <2>1. worker' \in WorkerState
    BY <1>0, <1>3, WorkerGotoType DEF WipeChunks, WorkerPC
  <2>2. chunks' \in [Docs -> [generation : Generations, whole : BOOLEAN]]
    BY <1>3, BackendType DEF WipeChunks
  <2> QED
    BY <1>3, <2>1, <2>2 DEF WipeChunks, TypeInv, TypeOK, KindIsGiven, RecoveryGivesUp, QueuedJobs
<1>4. CASE InsertChunks(d)
  <2>1. worker' \in WorkerState
    BY <1>0, <1>4, WorkerGotoType DEF InsertChunks, WorkerPC
  <2>2. chunks' \in [Docs -> [generation : Generations, whole : BOOLEAN]]
    BY <1>4, BackendType DEF InsertChunks
  <2> QED
    BY <1>4, <2>1, <2>2 DEF InsertChunks, TypeInv, TypeOK, KindIsGiven, RecoveryGivesUp, QueuedJobs
<1>5. CASE VerifyChunks(d)
  <2>1. worker' \in WorkerState
    BY <1>0, <1>5, WorkerGotoType DEF VerifyChunks, WorkerPC
  <2> QED
    BY <1>5, <2>1 DEF VerifyChunks, TypeInv, TypeOK, KindIsGiven, RecoveryGivesUp, QueuedJobs
<1>6. CASE FinishIndexed(d)
  <2>1. CASE FinishIndexing(d, FALSE)
    BY <1>6, <2>1, FinishIndexingType DEF FinishIndexed, TypeInv, TypeOK, KindIsGiven
  <2>2. CASE WorkerGoto("fail") /\ UNCHANGED manifest
    <3>1. worker' \in WorkerState
      BY <2>2, WorkerGotoType DEF WorkerPC
    <3> QED
      BY <1>6, <2>2, <3>1
         DEF FinishIndexed, TypeInv, TypeOK, KindIsGiven, RecoveryGivesUp, QueuedJobs
  <2> QED  BY <1>6, <2>1, <2>2 DEF FinishIndexed
<1>7. CASE FinishFailed(d)
  <2>1. CASE FinishIndexing(d, worker.pc = "fail")
    BY <1>7, <2>1, FinishIndexingType DEF FinishFailed, TypeInv, TypeOK, KindIsGiven
  <2>2. CASE worker' = DeadWorker /\ UNCHANGED manifest
    <3>1. DeadWorker \in WorkerState
      BY ConstantsAssumption DEF DeadWorker, IdleWorker, WorkerState, WorkerPC, Generations
    <3> QED
      BY <1>7, <2>2, <3>1
         DEF FinishFailed, TypeInv, TypeOK, KindIsGiven, RecoveryGivesUp, QueuedJobs
  <2> QED  BY <1>7, <2>1, <2>2 DEF FinishFailed
<1> QED  BY <1>1, <1>2, <1>3, <1>4, <1>5, <1>6, <1>7 DEF WorkerStep

\* The claim is where the bound on a queued job's attempts is needed.
LEMMA ClaimType ==
  ASSUME TypeInv, ClaimNextJob
  PROVE  TypeInv'
<1>1. PICK j \in QueuedJobs :
        /\ jobs' = (jobs \ {j}) \cup {[j EXCEPT !.status = "running", !.attempts = @ + 1]}
        /\ worker' = [pc |-> "context", job |-> j.id, doc |-> j.doc,
                      operation |-> j.operation, generation |-> 0]
  BY DEF ClaimNextJob
<1>2. j \in Job /\ j.attempts < MaxRecoveryAttempts
  BY DEF TypeInv, TypeOK, RecoveryGivesUp, QueuedJobs
<1>3. [j EXCEPT !.status = "running", !.attempts = @ + 1] \in Job
  <2>1. j.attempts + 1 \in 0 .. MaxRecoveryAttempts
    BY <1>2, ConstantsAssumption DEF Job
  <2>2. [j EXCEPT !.status = "running"] \in Job
    BY <1>2 DEF Job
  <2> QED  BY <1>2, <2>1, <2>2 DEF Job
<1>4. worker' \in WorkerState
  BY <1>1, <1>2, ConstantsAssumption DEF Job, JobIds, WorkerState, WorkerPC, Generations
<1>5. jobs' \in SUBSET Job
  BY <1>1, <1>3 DEF TypeInv, TypeOK
<1>6. RecoveryGivesUp'
  <2>1. [j EXCEPT !.status = "running", !.attempts = @ + 1].status = "running"
    BY <1>2 DEF Job
  <2> QED  BY <1>1, <2>1 DEF TypeInv, RecoveryGivesUp, QueuedJobs
<1> QED
  BY <1>4, <1>5, <1>6
     DEF ClaimNextJob, KeepOutside, documents, TypeInv, TypeOK, KindIsGiven

\* The generation is raised within its bound, and a job is queued or not.
LEMMA UpdateDocumentType ==
  ASSUME TypeInv, NEW d \in Docs, UpdateDocument(d)
  PROVE  TypeInv'
<1>1. generation[d] + 1 \in Generations
  BY ConstantsAssumption DEF UpdateDocument, TypeInv, TypeOK, Generations
<1>2. jobs' \in SUBSET Job /\ RecoveryGivesUp'
  BY InsertJobType, FewerJobsType DEF UpdateDocument
<1> QED
  BY <1>1, <1>2 DEF UpdateDocument, KeepProcess, TypeInv, TypeOK, KindIsGiven

\* A crash loses the threads, and at most part of one document's chunks.
LEMMA CrashType ==
  ASSUME TypeInv, Crash
  PROVE  TypeInv'
<1>1. chunks' \in [Docs -> [generation : Generations, whole : BOOLEAN]]
  <2>1. CASE UNCHANGED chunks
    BY <2>1 DEF TypeInv, TypeOK
  <2>2. CASE \E d \in Docs : InterruptedCall(d)
    BY <2>2, BackendType DEF InterruptedCall
  <2> QED  BY <2>1, <2>2 DEF Crash
<1>2. IdleWorker \in WorkerState /\ IdleThread \in ThreadState
  BY ConstantsAssumption
     DEF IdleThread, ThreadState, ThreadPC, IdleWorker, WorkerState, WorkerPC, Generations
<1>3. crashes + 1 \in 0 .. MaxCrashes
  BY ConstantsAssumption DEF Crash, TypeInv, TypeOK
<1>4. KindIsGiven'
  BY DEF Crash, KindIsGiven, IdleThread
<1> QED
  BY <1>1, <1>2, <1>3, <1>4
     DEF Crash, manifest, documents, TypeInv, TypeOK, RecoveryGivesUp, QueuedJobs

\* The repair queues jobs of the right kinds.
LEMMA RepairType ==
  ASSUME TypeInv, NEW d \in Docs, RepairQueuedDocument(d)
  PROVE  TypeInv'
<1>1. jobs' \in SUBSET Job /\ RecoveryGivesUp'
  BY InsertJobType DEF RepairQueuedDocument
<1> QED
  BY <1>1 DEF RepairQueuedDocument, KeepProcess, documents, TypeInv, TypeOK, KindIsGiven

\* A recovered job has been claimed less often than the limit.
LEMMA StartType ==
  ASSUME TypeInv, Start
  PROVE  TypeInv'
<1>1. ASSUME NEW j \in RunningJobs \ Exhausted
      PROVE  Recovered(j) \in Job /\ Recovered(j).attempts < MaxRecoveryAttempts
  <2>1. j \in Job /\ ~(j.attempts >= MaxRecoveryAttempts)
    BY DEF RunningJobs, Exhausted, TypeInv, TypeOK
  <2>2. j.attempts < MaxRecoveryAttempts
    BY <2>1, ConstantsAssumption DEF Job
  <2> QED  BY <2>1, <2>2 DEF Recovered, Job
<1>2. jobs' \in SUBSET Job
  BY <1>1 DEF Start, RecoverRunningJobs, QueuedJobs, TypeInv, TypeOK
<1>3. RecoveryGivesUp'
  BY <1>1 DEF Start, RecoverRunningJobs, RecoveryGivesUp, QueuedJobs, TypeInv
<1>4. status' \in [Docs -> {"absent", "queued", "indexing", "ready", "failed"}]
  BY DEF Start, RecoverRunningJobs, TypeInv, TypeOK
<1> QED
  BY <1>2, <1>3, <1>4 DEF Start, RecoverRunningJobs, TypeInv, TypeOK, KindIsGiven

\* Collections come and go without touching anything else.
LEMMA CollectionsType ==
  ASSUME TypeInv, NEW c \in Collections, CreateCollection(c) \/ DeleteCollection(c)
  PROVE  TypeInv'
BY DEF CreateCollection, DeleteCollection, KeepProcess, documents, TypeInv, TypeOK, KindIsGiven,
       RecoveryGivesUp, QueuedJobs

\* The types are an invariant of every step.
LEMMA TypeStep ==
  ASSUME TypeInv, [Next]_vars
  PROVE  TypeInv'
<1>1. CASE UNCHANGED vars
  BY <1>1 DEF vars, TypeInv, TypeOK, KindIsGiven, RecoveryGivesUp, QueuedJobs
<1>2. CASE Next
  BY <1>2, CollectionsType, UpdateDocumentType, RequestType, HandlerType, ClaimType,
     WorkerStepType, CrashType, RepairType, StartType DEF Next
<1> QED  BY <1>1, <1>2

\* Whatever the requests, the worker and crashes do, every table and file keeps its type.
THEOREM TypeCorrect == Spec => []TypeOK
<1>1. TypeInv => TypeOK
  BY DEF TypeInv
<1> QED  BY <1>1, TypeInit, TypeStep, PTL DEF Spec

\* No job is queued for a claim beyond the limit, so restart recovery comes to an end.
THEOREM RecoveryEnds == Spec => []RecoveryGivesUp
<1>1. TypeInv => RecoveryGivesUp
  BY DEF TypeInv
<1> QED  BY <1>1, TypeInit, TypeStep, PTL DEF Spec

-----------------------------------------------------------------------------
(* Jobs, documents and the worker belong together.                         *)

\* No property of these is inductive by itself: a fresh document has no second job
\* because no job outlives its row, the worker's claim leaves one running job because the
\* idle worker held none, and what it finishes is the document's only job.
Inv == /\ TypeInv
       /\ OneActiveJob
       /\ JobHasDocument
       /\ RunningJobIsHeld
       /\ ReadyIsCurrent

\* The rows and the flag that the properties of this part are about.
Watched == <<status, generation, indexed, jobs, running>>

\* The worker holds on to what it has claimed.
Holding ==
  /\ worker'.job = worker.job /\ worker'.doc = worker.doc
  /\ worker.pc \notin {"idle", "dead"} => worker'.pc \notin {"idle", "dead"}

\* A step that touches no row, and goes on with the worker's job if with any.
LEMMA QuietStep ==
  ASSUME Inv, TypeInv', UNCHANGED Watched, Holding
  PROVE  Inv'
<1>1. OneActiveJob' /\ JobHasDocument' /\ ReadyIsCurrent'
  BY DEF Watched, Inv, OneActiveJob, JobHasDocument, Exists, ReadyIsCurrent
<1>2. RunningJobIsHeld'
  BY DEF Holding, Watched, Inv, RunningJobIsHeld, RunningJobs
<1> QED  BY <1>1, <1>2 DEF Inv

\* One more queued job is harmless where the document is there and has none active.
LEMMA QueueOne ==
  ASSUME Inv, NEW d \in Docs, NEW op, InsertJob(d, op, jobs), ActiveJobs(d) = {},
         status'[d] # "absent", \A e \in Docs : Exists(e) => status'[e] # "absent",
         worker' = worker, running' = running
  PROVE  OneActiveJob' /\ JobHasDocument' /\ RunningJobIsHeld'
<1>1. PICK id \in JobIds :
        jobs' = jobs \cup {[id |-> id, doc |-> d, operation |-> op,
                            status |-> "queued", attempts |-> 0]}
  BY DEF InsertJob
<1>2. OneActiveJob'
  BY <1>1 DEF Inv, OneActiveJob, ActiveJobs
<1>3. \A j \in jobs : j.doc \in Docs
  BY DEF Inv, TypeInv, TypeOK, Job
<1>4. JobHasDocument'
  BY <1>1, <1>3 DEF Inv, JobHasDocument, Exists
<1>5. RunningJobIsHeld'
  BY <1>1 DEF Inv, RunningJobIsHeld, RunningJobs
<1> QED  BY <1>2, <1>4, <1>5

\* Withdrawing jobs is harmless where the documents stay.
LEMMA FewerJobs ==
  ASSUME Inv, TypeInv', jobs' \in SUBSET jobs, UNCHANGED documents,
         worker' = worker, running' = running
  PROVE  Inv'
BY DEF Inv, documents, OneActiveJob, JobHasDocument, Exists, RunningJobIsHeld, RunningJobs,
       ReadyIsCurrent

\* Sending a document to the queue, or to the indexer, with the jobs as they are.
LEMMA SetStatus ==
  ASSUME Inv, TypeInv', NEW d \in Docs, NEW s \in {"queued", "indexing"},
         SetDocumentStatus(d, s), jobs' = jobs, running' = running
  PROVE  OneActiveJob' /\ JobHasDocument' /\ ReadyIsCurrent'
<1>1. OneActiveJob'
  BY DEF Inv, OneActiveJob
<1>2. \A j \in jobs : j.doc \in Docs
  BY DEF Inv, TypeInv, TypeOK, Job
<1>3. JobHasDocument'
  BY <1>2 DEF Inv, TypeInv, TypeOK, SetDocumentStatus, JobHasDocument, Exists
<1>4. ReadyIsCurrent'
  BY DEF Inv, TypeInv, TypeOK, SetDocumentStatus, ReadyIsCurrent, Exists
<1> QED  BY <1>1, <1>3, <1>4

\* A document that was not there has no job, so its first job is its only one.
LEMMA CreateQueuedDocumentInv ==
  ASSUME Inv, TypeInv', NEW d \in Docs, NEW payload, CreateQueuedDocument(d, payload),
         worker' = worker, running' = running
  PROVE  Inv'
<1>1. ActiveJobs(d) = {}
  BY DEF Inv, JobHasDocument, ActiveJobs, CreateQueuedDocument, CanCreateDocument
<1>2. status'[d] = "queued" /\ \A e \in Docs \ {d} : status'[e] = status[e]
  BY DEF CreateQueuedDocument, Inv, TypeInv, TypeOK
<1>3. OneActiveJob' /\ JobHasDocument' /\ RunningJobIsHeld'
  BY <1>1, <1>2, QueueOne DEF CreateQueuedDocument, Exists
<1>4. ReadyIsCurrent'
  BY <1>2 DEF CreateQueuedDocument, Inv, TypeInv, TypeOK, ReadyIsCurrent
<1> QED  BY <1>3, <1>4 DEF Inv

\* Each call of a handler keeps jobs, documents and the worker together.
LEMMA HandlerInv ==
  ASSUME Inv, NEW t \in Threads, NEW d \in Docs, HandlerStep(t, d)
  PROVE  Inv'
<1> USE DEF KeepRows, KeepProcess, manifest, documents
<1>0. TypeInv'
  BY HandlerType DEF Inv
<1>1. CASE CreateUploaded(t, d)
  <2>1. CASE CreateQueuedDocument(d, thread[t].payload)
    BY <1>0, <1>1, <2>1, CreateQueuedDocumentInv DEF CreateUploaded
  <2>2. CASE UNCHANGED manifest
    BY <1>0, <1>1, <2>2, QuietStep DEF CreateUploaded, Watched, Holding
  <2> QED  BY <1>1, <2>1, <2>2 DEF CreateUploaded
<1>2. CASE CreateReconciled(t, d)
  <2>1. CASE CreateQueuedDocument(d, thread[t].payload)
    BY <1>0, <1>2, <2>1, CreateQueuedDocumentInv DEF CreateReconciled
  <2>2. CASE UNCHANGED manifest
    BY <1>0, <1>2, <2>2, QuietStep DEF CreateReconciled, Watched, Holding
  <2> QED  BY <1>2, <2>1, <2>2 DEF CreateReconciled
<1>3. CASE SubmitJob(t, d)
  <2>1. CASE ActiveJobs(d) = {} /\ Exists(d)
    <3>1. InsertJob(d, thread[t].operation, jobs)
      BY <1>3, <2>1 DEF SubmitJob
    <3>2. OneActiveJob' /\ JobHasDocument' /\ RunningJobIsHeld'
      BY <1>3, <2>1, <3>1, QueueOne DEF SubmitJob, Exists
    <3> QED  BY <1>0, <1>3, <3>2 DEF SubmitJob, Inv, ReadyIsCurrent
  <2>2. CASE UNCHANGED jobs
    BY <1>0, <1>3, <2>2, QuietStep DEF SubmitJob, Watched, Holding
  <2> QED  BY <1>3, <2>1, <2>2 DEF SubmitJob
<1>4. CASE Requeue(t, d)
  <2>1. OneActiveJob' /\ JobHasDocument' /\ ReadyIsCurrent'
    BY <1>0, <1>4, SetStatus DEF Requeue
  <2>2. RunningJobIsHeld'
    BY <1>4 DEF Requeue, Inv, RunningJobIsHeld, RunningJobs
  <2> QED  BY <1>0, <2>1, <2>2 DEF Inv
<1>5. CASE CancelForStop(t, d)
  BY <1>0, <1>5, FewerJobs DEF CancelForStop, CancelQueuedJob
<1>6. CASE CancelForDelete(t, d)
  BY <1>0, <1>6, FewerJobs DEF CancelForDelete, CancelQueuedJob
<1>7. CASE DeleteRecord(t, d)
  <2>1. \A e \in Docs \ {d} : status'[e] = status[e] /\ generation'[e] = generation[e]
                              /\ indexed'[e] = indexed[e]
    BY <1>7 DEF DeleteRecord, Inv, TypeInv, TypeOK
  <2>2. status'[d] = "absent" /\ jobs' = jobs \ ActiveJobs(d)
    BY <1>7 DEF DeleteRecord, Inv, TypeInv, TypeOK
  <2>3. OneActiveJob'
    BY <2>2 DEF Inv, OneActiveJob
  <2>4. JobHasDocument'
    BY <2>1, <2>2 DEF Inv, TypeInv, TypeOK, Job, JobHasDocument, Exists, ActiveJobs
  <2>5. RunningJobIsHeld'
    BY <1>7, <2>2 DEF DeleteRecord, Inv, RunningJobIsHeld, RunningJobs
  <2>6. ReadyIsCurrent'
    BY <2>1, <2>2 DEF Inv, ReadyIsCurrent
  <2> QED  BY <1>0, <2>3, <2>4, <2>5, <2>6 DEF Inv
<1>8. CASE \/ SaveOriginal(t, d) \/ UndoSave(t, d) \/ ReconcileUpload(t, d)
           \/ ReadActiveForStart(t, d) \/ ReadActiveForStop(t, d)
           \/ ReadActiveForDelete(t, d) \/ DeleteChunks(t, d) \/ UnlinkOriginal(t, d)
  <2>1. UNCHANGED Watched /\ worker' = worker
    BY <1>8 DEF SaveOriginal, UndoSave, ReconcileUpload, ReadActiveForStart, ReadActiveForStop,
                ReadActiveForDelete, DeleteChunks, UnlinkOriginal, Watched
  <2> QED  BY <1>0, <2>1, QuietStep DEF Holding
<1> QED
  BY <1>1, <1>2, <1>3, <1>4, <1>5, <1>6, <1>7, <1>8 DEF HandlerStep

\* The worker finishes the only job of its document, and the only one that runs.
LEMMA FinishIndexingInv ==
  ASSUME Inv, TypeInv', NEW d \in Docs, NEW error, FinishIndexing(d, error),
         running, running' = running
  PROVE  Inv'
<1>1. HeldJob(d) # {} /\ Exists(d)
  BY DEF FinishIndexing, FinishRaises
<1>2. RunningJobs = HeldJob(d)
  BY <1>1 DEF Inv, RunningJobIsHeld, HeldJob
<1>3. ActiveJobs(d) = HeldJob(d)
  BY <1>1 DEF Inv, OneActiveJob, ActiveJobs, HeldJob, RunningJobs
<1> DEFINE rest == jobs \ HeldJob(d)
<1>4. /\ \A j \in rest : j.doc # d /\ j.status # "running"
      /\ \A j \in rest : j.doc \in Docs /\ Exists(j.doc)
      /\ \A j, k \in rest : j.doc = k.doc => j = k
  BY <1>2, <1>3 DEF ActiveJobs, RunningJobs, Inv, OneActiveJob, JobHasDocument, TypeInv, TypeOK, Job
<1>5. \/ jobs' = rest
      \/ \E id \in JobIds, op \in {"reindex"} :
           jobs' = rest \cup {[id |-> id, doc |-> d, operation |-> op,
                               status |-> "queued", attempts |-> 0]}
  BY DEF FinishIndexing, InsertJob
<1>6. /\ status'[d] \in {"queued", "failed", "ready"}
      /\ \A e \in Docs \ {d} : status'[e] = status[e] /\ indexed'[e] = indexed[e]
      /\ status'[d] = "ready" => indexed'[d] = generation[d]
  BY DEF FinishIndexing, MetadataMoved, Inv, TypeInv, TypeOK
<1> HIDE DEF rest
<1>7. OneActiveJob'
  BY <1>4, <1>5 DEF OneActiveJob
<1>8. JobHasDocument'
  BY <1>4, <1>5, <1>6 DEF JobHasDocument, Exists
<1>9. RunningJobIsHeld'
  BY <1>4, <1>5 DEF RunningJobIsHeld, RunningJobs
<1>10. ReadyIsCurrent'
  BY <1>6 DEF FinishIndexing, ReadyIsCurrent, Inv
<1> QED  BY <1>7, <1>8, <1>9, <1>10 DEF Inv

\* Each call of the worker does, the one that ends the worker included.
LEMMA WorkerStepInv ==
  ASSUME Inv, NEW d \in Docs, WorkerStep(d)
  PROVE  Inv'
<1> USE DEF KeepOutside, manifest, documents
<1>0. TypeInv' /\ worker \in WorkerState /\ BackendErrors \in SUBSET {"fail", "blank"}
  BY WorkerStepType, ConstantsAssumption DEF Inv, TypeInv, TypeOK
<1>1. CASE ReadIndexingContext(d)
  <2>1. Holding
    BY <1>0, <1>1 DEF ReadIndexingContext, WorkerGoto, Holding, WorkerState
  <2> QED  BY <1>0, <1>1, <2>1, QuietStep DEF ReadIndexingContext, Watched
<1>2. CASE MarkIndexing(d)
  <2>1. OneActiveJob' /\ JobHasDocument' /\ ReadyIsCurrent'
    BY <1>0, <1>2, SetStatus DEF MarkIndexing
  <2>2. Holding
    BY <1>0, <1>2 DEF MarkIndexing, WorkerGoto, Holding, WorkerState
  <2>3. RunningJobIsHeld'
    BY <1>2, <2>2 DEF Holding, MarkIndexing, Inv, RunningJobIsHeld, RunningJobs
  <2> QED  BY <1>0, <2>1, <2>3 DEF Inv
<1>3. CASE WipeChunks(d) \/ InsertChunks(d) \/ VerifyChunks(d)
  <2>1. Holding
    BY <1>0, <1>3 DEF WipeChunks, InsertChunks, VerifyChunks, WorkerGoto, Holding,
                      WorkerState
  <2> QED
    BY <1>0, <1>3, <2>1, QuietStep DEF WipeChunks, InsertChunks, VerifyChunks, Watched
<1>4. CASE FinishIndexed(d)
  <2>1. CASE FinishIndexing(d, FALSE)
    BY <1>0, <1>4, <2>1, FinishIndexingInv DEF FinishIndexed, WorkerAt
  <2>2. CASE WorkerGoto("fail") /\ UNCHANGED manifest
    <3>1. Holding
      BY <1>0, <1>4, <2>2 DEF FinishIndexed, WorkerGoto, Holding, WorkerState
    <3> QED  BY <1>0, <1>4, <2>2, <3>1, QuietStep DEF FinishIndexed, Watched
  <2> QED  BY <1>4, <2>1, <2>2 DEF FinishIndexed
<1>5. CASE FinishFailed(d)
  <2>1. CASE FinishIndexing(d, worker.pc = "fail")
    BY <1>0, <1>5, <2>1, FinishIndexingInv DEF FinishFailed, WorkerAt
  <2>2. CASE FinishRaises(d) /\ worker' = DeadWorker /\ UNCHANGED manifest
    <3>1. HeldJob(d) = {}
      BY <2>2 DEF FinishRaises, HeldJob, RunningJobs, Inv, JobHasDocument
    <3>2. RunningJobs = {}
      BY <1>5, <3>1 DEF FinishFailed, WorkerAt, HeldJob, Inv, RunningJobIsHeld
    <3>3. RunningJobIsHeld'
      BY <2>2, <3>2 DEF RunningJobIsHeld, RunningJobs
    <3> QED
      BY <1>0, <1>5, <2>2, <3>3
         DEF FinishFailed, Inv, OneActiveJob, JobHasDocument, Exists, ReadyIsCurrent
  <2> QED  BY <1>5, <2>1, <2>2 DEF FinishFailed
<1> QED  BY <1>1, <1>2, <1>3, <1>4, <1>5 DEF WorkerStep

\* The idle worker held no running job, so the job it claims is the only one.
LEMMA ClaimInv ==
  ASSUME Inv, ClaimNextJob
  PROVE  Inv'
<1>0. TypeInv'
  BY ClaimType DEF Inv
<1>1. PICK j \in QueuedJobs :
        /\ jobs' = (jobs \ {j}) \cup {[j EXCEPT !.status = "running", !.attempts = @ + 1]}
        /\ worker' = [pc |-> "context", job |-> j.id, doc |-> j.doc,
                      operation |-> j.operation, generation |-> 0]
  BY DEF ClaimNextJob
<1> DEFINE claimed == [j EXCEPT !.status = "running", !.attempts = @ + 1]
<1>2. j \in jobs /\ claimed.doc = j.doc /\ claimed.id = j.id
  BY DEF QueuedJobs, Inv, TypeInv, TypeOK, Job
<1>3. RunningJobs = {}
  BY DEF ClaimNextJob, IdleWorker, Inv, RunningJobIsHeld
<1> HIDE DEF claimed
<1>4. jobs' = (jobs \ {j}) \cup {claimed}
  BY <1>1 DEF claimed
<1>5. OneActiveJob' /\ JobHasDocument'
  BY <1>2, <1>4 DEF ClaimNextJob, documents, Inv, OneActiveJob, JobHasDocument, Exists
<1>6. RunningJobIsHeld'
  BY <1>1, <1>2, <1>3, <1>4 DEF RunningJobIsHeld, RunningJobs
<1> QED  BY <1>0, <1>5, <1>6 DEF ClaimNextJob, documents, Inv, ReadyIsCurrent

\* An update queues a job only where none is active.
LEMMA UpdateDocumentInv ==
  ASSUME Inv, NEW d \in Docs, UpdateDocument(d)
  PROVE  Inv'
<1>0. TypeInv'
  BY UpdateDocumentType DEF Inv
<1>1. /\ status'[d] = "queued"
      /\ \A e \in Docs \ {d} : status'[e] = status[e] /\ generation'[e] = generation[e]
  BY DEF UpdateDocument, Inv, TypeInv, TypeOK
<1>2. OneActiveJob' /\ JobHasDocument' /\ RunningJobIsHeld'
  <2>1. CASE ActiveJobs(d) = {}
    BY <1>1, <2>1, QueueOne DEF UpdateDocument, KeepProcess, Exists
  <2>2. CASE UNCHANGED jobs
    <3>1. \A j \in jobs : j.doc \in Docs
      BY DEF Inv, TypeInv, TypeOK, Job
    <3> QED
      BY <1>1, <2>2, <3>1 DEF UpdateDocument, KeepProcess, Inv, OneActiveJob, JobHasDocument,
                              Exists, RunningJobIsHeld, RunningJobs
  <2> QED  BY <2>1, <2>2 DEF UpdateDocument
<1>3. ReadyIsCurrent'
  BY <1>1 DEF UpdateDocument, Inv, ReadyIsCurrent
<1> QED  BY <1>0, <1>2, <1>3 DEF Inv

\* The repair queues a job only where none is active.
LEMMA RepairInv ==
  ASSUME Inv, NEW d \in Docs, RepairQueuedDocument(d)
  PROVE  Inv'
<1>1. TypeInv'
  BY RepairType DEF Inv
<1>2. OneActiveJob' /\ JobHasDocument' /\ RunningJobIsHeld'
  BY QueueOne DEF RepairQueuedDocument, NeedsRepair, documents, KeepProcess, Exists
<1> QED
  BY <1>1, <1>2 DEF RepairQueuedDocument, documents, Inv, ReadyIsCurrent

\* Recovery changes no job's document, so it keeps one job to a document.
LEMMA StartInv ==
  ASSUME Inv, Start
  PROVE  Inv'
<1>0. TypeInv'
  BY StartType DEF Inv
<1>1. \A j \in RunningJobs :
        j \in jobs /\ Recovered(j).doc = j.doc /\ Recovered(j).status = "queued"
  BY DEF Recovered, RunningJobs, Inv, TypeInv, TypeOK, Job
<1>2. \A j \in QueuedJobs : j \in jobs /\ j.status = "queued"
  BY DEF QueuedJobs
<1>3. jobs' = QueuedJobs \cup {Recovered(j) : j \in RunningJobs \ Exhausted}
  BY DEF Start, RecoverRunningJobs
<1>4. OneActiveJob'
  <2>1. \A j \in QueuedJobs : j \notin RunningJobs
    BY DEF QueuedJobs, RunningJobs
  <2> QED  BY <1>1, <1>2, <1>3, <2>1 DEF Inv, OneActiveJob
<1>5. JobHasDocument'
  <2>1. \A j \in jobs' : j.doc \in Docs /\ Exists(j.doc)
    BY <1>1, <1>2, <1>3 DEF Inv, TypeInv, TypeOK, Job, JobHasDocument
  <2> QED
    BY <2>1 DEF Start, RecoverRunningJobs, JobHasDocument, Exists
<1>6. RunningJobIsHeld'
  BY <1>1, <1>2, <1>3 DEF RunningJobIsHeld, RunningJobs
<1>7. ReadyIsCurrent'
  BY DEF Start, RecoverRunningJobs, Inv, ReadyIsCurrent
<1> QED  BY <1>0, <1>4, <1>5, <1>6, <1>7 DEF Inv

\* Inv is inductive.
LEMMA InvStep ==
  ASSUME Inv, [Next]_vars
  PROVE  Inv'
<1>0. TypeInv'
  BY TypeStep DEF Inv
<1>1. ASSUME NEW c \in Collections, CreateCollection(c) \/ DeleteCollection(c) PROVE Inv'
  <2>1. UNCHANGED Watched /\ Holding
    BY <1>1 DEF CreateCollection, DeleteCollection, documents, KeepProcess, Watched, Holding
  <2> QED  BY <1>0, <2>1, QuietStep
<1>2. ASSUME NEW t \in Threads, NEW d \in Docs, Request(t, d) PROVE Inv'
  <2>1. UNCHANGED Watched /\ Holding
    BY <1>2 DEF Request, Upload, RetryIndexing, StartIndexing, StopIndexing, DeleteDocument,
                KeepRows, KeepProcess, manifest, documents, Watched, Holding
  <2> QED  BY <1>0, <2>1, QuietStep
<1>3. CASE Crash
  BY <1>0, <1>3 DEF Crash, manifest, documents, Inv, OneActiveJob, JobHasDocument, Exists,
                    RunningJobIsHeld, ReadyIsCurrent
<1>4. CASE UNCHANGED vars
  BY <1>0, <1>4, QuietStep DEF vars, Watched, Holding
<1> QED
  BY <1>1, <1>2, <1>3, <1>4, HandlerInv, WorkerStepInv, ClaimInv, UpdateDocumentInv, RepairInv,
     StartInv DEF Next

\* Inv holds throughout.
LEMMA InvHolds == Spec => []Inv
<1>1. Init => Inv
  BY TypeInit
     DEF Init, Inv, OneActiveJob, JobHasDocument, RunningJobIsHeld, RunningJobs, ReadyIsCurrent
<1> QED  BY <1>1, InvStep, PTL DEF Spec

\* However requests, requeueing and restarts interleave, no document has two active jobs.
THEOREM JobsAreUnique == Spec => []OneActiveJob
<1>1. Inv => OneActiveJob
  BY DEF Inv
<1> QED  BY <1>1, InvHolds, PTL

\* No active job outlives its document, even where a delete overtakes an update.
THEOREM JobsHaveDocuments == Spec => []JobHasDocument
<1>1. Inv => JobHasDocument
  BY DEF Inv
<1> QED  BY <1>1, InvHolds, PTL

\* The active jobs are one per document and none without one, for any number of handlers,
\* documents and crashes.
THEOREM JobsStayFit == Spec => []JobsFitDocuments
<1>1. OneActiveJob /\ JobHasDocument => JobsFitDocuments
  BY DEF JobsFitDocuments
<1> QED  BY <1>1, JobsAreUnique, JobsHaveDocuments, PTL

\* While the process runs, a running row is the one the live worker is at work on.
THEOREM WorkerHoldsRunningJob == Spec => []RunningJobIsHeld
<1>1. Inv => RunningJobIsHeld
  BY DEF Inv
<1> QED  BY <1>1, InvHolds, PTL

\* A document is never ready at metadata older than the newest.
THEOREM ReadyAtNewestMetadata == Spec => []ReadyIsCurrent
<1>1. Inv => ReadyIsCurrent
  BY DEF Inv
<1> QED  BY <1>1, InvHolds, PTL

-----------------------------------------------------------------------------
(* While nobody deletes: the worker holds a running row, and a document    *)
(* that says indexing has one.                                             *)

NoDeletes == "delete" \notin Operations

Keeping == {"idle", "save", "create", "undo", "reconcile", "recreate",
            "start", "submit", "requeue", "stop", "cancel"}
Uploading == {"idle", "save", "create", "undo", "reconcile", "recreate"}

WorkerHolds ==
  /\ worker.pc # "dead"
  /\ worker.pc # "idle" =>
       /\ running /\ worker.doc \in Docs
       /\ \E j \in RunningJobs : j.id = worker.job /\ j.doc = worker.doc

\* The worker ends only when its row is gone, and only a delete takes a running row away.
KeepInv ==
  /\ Inv
  /\ \A t \in Threads : thread[t].pc \in Keeping
  /\ WorkerHolds
  /\ IndexingHasRunningJob

\* Threads stay where they are, but for one that goes where it may.
LEMMA ThreadMoves ==
  ASSUME TypeInv, NEW t \in Threads, NEW S, \A u \in Threads : thread[u].pc \in S,
         \/ Return(t) /\ "idle" \in S
         \/ \E pc \in S : Goto(t, pc)
         \/ \E state : state.pc \in S /\ thread' = [thread EXCEPT ![t] = state]
  PROVE  \A u \in Threads : thread'[u].pc \in S
<1>1. thread \in [Threads -> ThreadState] /\ IdleThread.pc = "idle"
  BY DEF TypeInv, TypeOK, IdleThread
<1>2. CASE Return(t) /\ "idle" \in S
  BY <1>1, <1>2 DEF Return
<1>3. ASSUME NEW pc \in S, Goto(t, pc) PROVE \A u \in Threads : thread'[u].pc \in S
  BY <1>1, <1>3 DEF Goto, ThreadState
<1>4. ASSUME NEW state, state.pc \in S, thread' = [thread EXCEPT ![t] = state]
      PROVE  \A u \in Threads : thread'[u].pc \in S
  BY <1>1, <1>4
<1> QED  BY <1>2, <1>3, <1>4

\* Without a delete no handler gets into one, and without anything but uploads, into nothing else.
LEMMA RequestMoves ==
  ASSUME TypeInv, NEW t \in Threads, NEW d \in Docs, Request(t, d)
  PROVE  /\ NoDeletes /\ (\A u \in Threads : thread[u].pc \in Keeping)
              => \A u \in Threads : thread'[u].pc \in Keeping
         /\ Operations \cap {"retry", "start", "stop", "delete"} = {}
              => \E payload \in Payloads : Upload(t, d, payload)
<1>1. ASSUME NoDeletes, \A u \in Threads : thread[u].pc \in Keeping
      PROVE  \A u \in Threads : thread'[u].pc \in Keeping
  <2>1. ~DeleteDocument(t, d)
    BY <1>1 DEF DeleteDocument, Begin, NoDeletes
  <2>2. \E state : state.pc \in Keeping /\ thread' = [thread EXCEPT ![t] = state]
    <3>1. ASSUME NEW payload \in Payloads, Upload(t, d, payload)
          PROVE  \E state : state.pc \in Keeping /\ thread' = [thread EXCEPT ![t] = state]
      <4>1. [Handling("save", d) EXCEPT !.payload = payload].pc \in Keeping
        BY DEF Handling, Keeping
      <4> QED  BY <3>1, <4>1 DEF Upload, Begin
    <3>2. CASE RetryIndexing(t, d)
      <4>1. [Handling("submit", d) EXCEPT !.operation = "reindex"].pc \in Keeping
        BY DEF Handling, Keeping
      <4> QED  BY <3>2, <4>1 DEF RetryIndexing, Begin
    <3>3. CASE StartIndexing(t, d)
      <4> DEFINE op == IF status[d] \in {"ready", "failed"} THEN "reindex" ELSE "index"
      <4>1. [Handling("start", d) EXCEPT !.operation = op].pc \in Keeping
        BY DEF Handling, Keeping
      <4> QED  BY <3>3, <4>1 DEF StartIndexing, Begin
    <3>4. CASE StopIndexing(t, d)
      <4>1. Handling("stop", d).pc \in Keeping
        BY DEF Handling, Keeping
      <4> QED  BY <3>4, <4>1 DEF StopIndexing, Begin
    <3> QED  BY <2>1, <3>1, <3>2, <3>3, <3>4 DEF Request
  <2> QED  BY <1>1, <2>2, ThreadMoves
<1>2. ASSUME Operations \cap {"retry", "start", "stop", "delete"} = {}
      PROVE  \E payload \in Payloads : Upload(t, d, payload)
  BY <1>2 DEF Request, RetryIndexing, StartIndexing, StopIndexing, DeleteDocument, Begin
<1> QED  BY <1>1, <1>2

\* A handler at work goes on in its own request.
LEMMA HandlerMoves ==
  ASSUME TypeInv, NEW t \in Threads, NEW d \in Docs, HandlerStep(t, d)
  PROVE  /\ (\A u \in Threads : thread[u].pc \in Keeping)
              => \A u \in Threads : thread'[u].pc \in Keeping
         /\ (\A u \in Threads : thread[u].pc \in Uploading)
              => \A u \in Threads : thread'[u].pc \in Uploading
<1>1. ASSUME \A u \in Threads : thread[u].pc \in Keeping
      PROVE  \A u \in Threads : thread'[u].pc \in Keeping
  <2>1. "idle" \in Keeping /\ thread[t].pc \in Keeping
    BY <1>1 DEF Keeping
  <2>2. Return(t) \/ \E pc \in Keeping : Goto(t, pc)
    BY <2>1 DEF HandlerStep, SaveOriginal, CreateUploaded, UndoSave, ReconcileUpload,
       CreateReconciled, ReadActiveForStart, SubmitJob, Requeue, ReadActiveForStop, CancelForStop,
       ReadActiveForDelete, CancelForDelete, DeleteChunks, UnlinkOriginal, DeleteRecord, At, Keeping
  <2> QED  BY <1>1, <2>1, <2>2, ThreadMoves
<1>2. ASSUME \A u \in Threads : thread[u].pc \in Uploading
      PROVE  \A u \in Threads : thread'[u].pc \in Uploading
  <2>1. "idle" \in Uploading /\ thread[t].pc \in Uploading
    BY <1>2 DEF Uploading
  <2>2. Return(t) \/ \E pc \in Uploading : Goto(t, pc)
    BY <2>1 DEF HandlerStep, SaveOriginal, CreateUploaded, UndoSave, ReconcileUpload,
       CreateReconciled, ReadActiveForStart, SubmitJob, Requeue, ReadActiveForStop, CancelForStop,
       ReadActiveForDelete, CancelForDelete, DeleteChunks, UnlinkOriginal, DeleteRecord, At, Uploading
  <2> QED  BY <1>2, <2>1, <2>2, ThreadMoves
<1> QED  BY <1>1, <1>2

\* What keeps the worker's row and every running row of a document that says indexing.
RowsStay ==
  /\ RunningJobs \subseteq jobs'
  /\ \A e \in Docs : status'[e] = "indexing" => status[e] = "indexing"

LEMMA RowsHeld ==
  ASSUME KeepInv, RowsStay, Holding, running' = running, worker'.pc # "dead",
         worker.pc = "idle" => worker'.pc = "idle"
  PROVE  WorkerHolds' /\ IndexingHasRunningJob'
<1>1. RunningJobs \subseteq RunningJobs'
  BY DEF RowsStay, RunningJobs
<1>2. WorkerHolds'
  BY <1>1 DEF Holding, KeepInv, WorkerHolds
<1>3. IndexingHasRunningJob'
  BY <1>1 DEF RowsStay, KeepInv, IndexingHasRunningJob
<1> QED  BY <1>2, <1>3

\* The calls of handlers that delete nothing take no running row away.
LEMMA HandlerRows ==
  ASSUME Inv, NEW t \in Threads, NEW d \in Docs, HandlerStep(t, d), thread[t].pc \in Keeping
  PROVE  RowsStay /\ worker' = worker /\ running' = running
<1> USE DEF KeepRows, KeepProcess, manifest, documents, RowsStay
<1>1. status \in [Docs -> {"absent", "queued", "indexing", "ready", "failed"}]
      /\ RunningJobs \subseteq jobs
  BY DEF Inv, TypeInv, TypeOK, RunningJobs
<1>2. ASSUME CreateQueuedDocument(d, thread[t].payload) PROVE RowsStay
  BY <1>1, <1>2 DEF CreateQueuedDocument, InsertJob
<1>3. CASE CreateUploaded(t, d) \/ CreateReconciled(t, d)
  <2>1. CASE UNCHANGED manifest
    BY <1>1, <1>3, <2>1 DEF CreateUploaded, CreateReconciled
  <2> QED  BY <1>2, <1>3, <2>1 DEF CreateUploaded, CreateReconciled
<1>4. CASE SubmitJob(t, d)
  BY <1>1, <1>4 DEF SubmitJob, InsertJob
<1>5. CASE Requeue(t, d)
  BY <1>1, <1>5 DEF Requeue, SetDocumentStatus
<1>6. CASE CancelForStop(t, d)
  <2>1. RunningJobs \cap QueuedJobs = {}
    BY DEF RunningJobs, QueuedJobs
  <2> QED  BY <1>1, <1>6, <2>1 DEF CancelForStop, CancelQueuedJob
<1>7. CASE SaveOriginal(t, d) \/ UndoSave(t, d) \/ ReconcileUpload(t, d)
           \/ ReadActiveForStart(t, d) \/ ReadActiveForStop(t, d)
  BY <1>1, <1>7 DEF SaveOriginal, UndoSave, ReconcileUpload, ReadActiveForStart, ReadActiveForStop
<1>8. CASE \/ ReadActiveForDelete(t, d) \/ CancelForDelete(t, d) \/ DeleteChunks(t, d)
           \/ UnlinkOriginal(t, d) \/ DeleteRecord(t, d)
  BY <1>8 DEF ReadActiveForDelete, CancelForDelete, DeleteChunks, UnlinkOriginal, DeleteRecord, At,
              Keeping
<1> QED  BY <1>3, <1>4, <1>5, <1>6, <1>7, <1>8 DEF HandlerStep

\* The worker finishes what it holds: finish_indexing never raises.
LEMMA HeldRow ==
  ASSUME KeepInv, worker.pc # "idle"
  PROVE  /\ worker.doc \in Docs /\ running /\ Exists(worker.doc)
         /\ HeldJob(worker.doc) # {} /\ ~FinishRaises(worker.doc)
<1>1. PICK j \in RunningJobs : j.id = worker.job /\ j.doc = worker.doc
  BY DEF KeepInv, WorkerHolds
<1>2. Exists(worker.doc) /\ j \in HeldJob(worker.doc)
  BY <1>1 DEF KeepInv, Inv, JobHasDocument, RunningJobs, HeldJob
<1> QED  BY <1>2 DEF FinishRaises, KeepInv, WorkerHolds

LEMMA WorkerKeep ==
  ASSUME KeepInv, NEW d \in Docs, WorkerStep(d)
  PROVE  KeepInv'
<1> USE DEF KeepOutside, manifest, documents
<1>1. Inv' /\ thread' = thread /\ worker.doc = d /\ worker.pc # "idle" /\ running' = running
  BY WorkerStepInv DEF KeepInv, WorkerStep, ReadIndexingContext, MarkIndexing, WipeChunks,
     InsertChunks, VerifyChunks, FinishIndexed, FinishFailed, WorkerAt
<1>2. /\ Exists(d) /\ HeldJob(d) # {} /\ ~FinishRaises(d)
      /\ status \in [Docs -> {"absent", "queued", "indexing", "ready", "failed"}]
      /\ worker \in WorkerState /\ BackendErrors \in SUBSET {"fail", "blank"}
  BY <1>1, HeldRow, ConstantsAssumption DEF KeepInv, Inv, TypeInv, TypeOK
<1>3. CASE \/ ReadIndexingContext(d) \/ WipeChunks(d) \/ InsertChunks(d) \/ VerifyChunks(d)
  <2>1. RowsStay
    BY <1>3 DEF ReadIndexingContext, WipeChunks, InsertChunks, VerifyChunks, RowsStay, RunningJobs
  <2>2. Holding /\ worker'.pc # "dead"
    BY <1>2, <1>3 DEF ReadIndexingContext, WipeChunks, InsertChunks, VerifyChunks, WorkerGoto,
                      Holding, WorkerState
  <2> QED  BY <1>1, <2>1, <2>2, RowsHeld DEF KeepInv
<1>4. CASE MarkIndexing(d)
  <2>1. Holding /\ worker'.pc \notin {"dead", "idle"} /\ worker'.job = worker.job /\ worker'.doc = d
    BY <1>1, <1>2, <1>4 DEF MarkIndexing, WorkerGoto, Holding, WorkerState
  <2>2. jobs' = jobs /\ \A e \in Docs \ {d} : status'[e] = status[e]
    BY <1>2, <1>4 DEF MarkIndexing, SetDocumentStatus
  <2>3. \E j \in RunningJobs : j.id = worker.job /\ j.doc = d
    BY <1>1 DEF KeepInv, WorkerHolds
  <2>4. WorkerHolds'
    BY <1>1, <2>1, <2>2, <2>3 DEF KeepInv, WorkerHolds, RunningJobs
  <2>5. IndexingHasRunningJob'
    BY <2>2, <2>3 DEF KeepInv, IndexingHasRunningJob, RunningJobs
  <2> QED  BY <1>1, <2>4, <2>5 DEF KeepInv
<1>5. ASSUME NEW error, FinishIndexing(d, error) PROVE KeepInv'
  <2>1. worker' = IdleWorker /\ worker'.pc = "idle"
    BY <1>5 DEF FinishIndexing, IdleWorker
  <2>2. /\ status'[d] \in {"queued", "failed", "ready"} /\ \A e \in Docs \ {d} : status'[e] = status[e]
        /\ \A j \in jobs : j.doc # d => j \in jobs'
    BY <1>2, <1>5 DEF FinishIndexing, InsertJob, HeldJob, RunningJobs
  <2>3. IndexingHasRunningJob'
    BY <2>2 DEF KeepInv, IndexingHasRunningJob, RunningJobs
  <2> QED  BY <1>1, <2>1, <2>3 DEF KeepInv, WorkerHolds
<1>6. CASE FinishIndexed(d) \/ FinishFailed(d)
  BY <1>2, <1>5, <1>6 DEF FinishIndexed, FinishFailed
<1> QED  BY <1>3, <1>4, <1>6 DEF WorkerStep

\* What is claimed runs, and the documents say what they said.
LEMMA ClaimKeep ==
  ASSUME KeepInv, ClaimNextJob
  PROVE  KeepInv'
<1>1. PICK j \in QueuedJobs :
        /\ jobs' = (jobs \ {j}) \cup {[j EXCEPT !.status = "running", !.attempts = @ + 1]}
        /\ worker' = [pc |-> "context", job |-> j.id, doc |-> j.doc,
                      operation |-> j.operation, generation |-> 0]
  BY DEF ClaimNextJob
<1> DEFINE claimed == [j EXCEPT !.status = "running", !.attempts = @ + 1]
<1>2. /\ j.doc \in Docs /\ claimed.doc = j.doc /\ claimed.id = j.id /\ claimed.status = "running"
      /\ j.status = "queued"
  BY DEF QueuedJobs, KeepInv, Inv, TypeInv, TypeOK, Job
<1> HIDE DEF claimed
<1>3. jobs' = (jobs \ {j}) \cup {claimed} /\ UNCHANGED <<status, thread, running>> /\ running
  BY <1>1 DEF ClaimNextJob, KeepOutside, documents, claimed
<1>4. WorkerHolds'
  BY <1>1, <1>2, <1>3 DEF WorkerHolds, RunningJobs
<1>5. IndexingHasRunningJob'
  BY <1>2, <1>3 DEF KeepInv, IndexingHasRunningJob, RunningJobs
<1> QED  BY <1>3, <1>4, <1>5, ClaimInv DEF KeepInv

\* A restart leaves no document indexing.
LEMMA StartKeep ==
  ASSUME KeepInv, Start
  PROVE  KeepInv'
<1>1. IndexingHasRunningJob'
  <2> SUFFICES ASSUME NEW d \in Docs, status'[d] = "indexing" PROVE FALSE
    BY DEF IndexingHasRunningJob
  <2>1. status[d] = "indexing" /\ ~(\E j \in jobs' : j.doc = d) /\ ~(\E j \in Exhausted : j.doc = d)
    BY DEF Start, RecoverRunningJobs
  <2>2. PICK j \in RunningJobs : j.doc = d
    BY <2>1 DEF KeepInv, IndexingHasRunningJob
  <2>3. Recovered(j) \in jobs' /\ Recovered(j).doc = d
    BY <2>1, <2>2 DEF Start, RecoverRunningJobs, Recovered, RunningJobs, KeepInv, Inv, TypeInv,
                      TypeOK, Job
  <2> QED  BY <2>1, <2>3
<1>2. WorkerHolds'
  BY DEF Start, KeepInv, WorkerHolds
<1> QED  BY <1>1, <1>2, StartInv DEF Start, KeepInv

LEMMA KeepStep ==
  ASSUME NoDeletes, KeepInv, [Next]_vars
  PROVE  KeepInv'
<1>0. Inv /\ Inv' /\ TypeInv /\ status \in [Docs -> {"absent", "queued", "indexing", "ready", "failed"}]
  BY InvStep DEF KeepInv, Inv, TypeInv, TypeOK
<1>1. ASSUME NEW c \in Collections, CreateCollection(c) \/ DeleteCollection(c) PROVE KeepInv'
  BY <1>0, <1>1 DEF CreateCollection, DeleteCollection, documents, KeepProcess, KeepInv, WorkerHolds,
                    IndexingHasRunningJob, RunningJobs
<1>2. ASSUME NEW d \in Docs, UpdateDocument(d) \/ RepairQueuedDocument(d) PROVE KeepInv'
  <2>1. RowsStay
    BY <1>0, <1>2 DEF UpdateDocument, RepairQueuedDocument, InsertJob, RowsStay, RunningJobs, documents
  <2>2. Holding /\ UNCHANGED <<thread, worker, running>>
    BY <1>2 DEF UpdateDocument, RepairQueuedDocument, KeepProcess, Holding
  <2> QED  BY <1>0, <2>1, <2>2, RowsHeld DEF KeepInv, WorkerHolds
<1>3. ASSUME NEW t \in Threads, NEW d \in Docs, Request(t, d) PROVE KeepInv'
  <2>1. UNCHANGED <<jobs, status, worker, running>>
    BY <1>3 DEF Request, Upload, RetryIndexing, StartIndexing, StopIndexing, DeleteDocument,
                KeepRows, KeepProcess, manifest, documents
  <2>2. \A u \in Threads : thread'[u].pc \in Keeping
    BY <1>0, <1>3, RequestMoves DEF KeepInv
  <2> QED  BY <1>0, <2>1, <2>2 DEF KeepInv, WorkerHolds, IndexingHasRunningJob, RunningJobs
<1>4. ASSUME NEW t \in Threads, NEW d \in Docs, HandlerStep(t, d) PROVE KeepInv'
  <2>1. RowsStay /\ worker' = worker /\ running' = running
    BY <1>0, <1>4, HandlerRows DEF KeepInv
  <2>2. \A u \in Threads : thread'[u].pc \in Keeping
    BY <1>0, <1>4, HandlerMoves DEF KeepInv
  <2> QED  BY <1>0, <2>1, <2>2, RowsHeld DEF KeepInv, WorkerHolds, Holding
<1>5. CASE Crash
  <2>1. UNCHANGED <<jobs, status>> /\ worker'.pc = "idle" /\ \A u \in Threads : thread'[u].pc = "idle"
    BY <1>5 DEF Crash, manifest, documents, IdleWorker, IdleThread
  <2> QED
    BY <1>0, <2>1 DEF KeepInv, WorkerHolds, IndexingHasRunningJob, RunningJobs, Keeping
<1>6. CASE UNCHANGED vars
  BY <1>0, <1>6 DEF vars, KeepInv, WorkerHolds, IndexingHasRunningJob, RunningJobs
<1> QED  BY <1>1, <1>2, <1>3, <1>4, <1>5, <1>6, ClaimKeep, WorkerKeep, StartKeep DEF Next

LEMMA KeepHolds == ASSUME NoDeletes PROVE Spec => []KeepInv
<1>1. Init => KeepInv
  <2> SUFFICES ASSUME Init PROVE KeepInv
    OBVIOUS
  <2>1. Inv
    BY TypeInit DEF Init, Inv, OneActiveJob, JobHasDocument, RunningJobIsHeld, RunningJobs,
                    ReadyIsCurrent
  <2>2. worker.pc = "idle" /\ \A t \in Threads : thread[t].pc = "idle"
    BY DEF Init, IdleWorker, IdleThread
  <2>3. IndexingHasRunningJob
    BY DEF Init, IndexingHasRunningJob
  <2> QED  BY <2>1, <2>2, <2>3 DEF KeepInv, WorkerHolds, Keeping
<1>2. KeepInv /\ [Next]_vars => KeepInv'
  BY KeepStep
<1> QED  BY <1>1, <1>2, PTL DEF Spec

\* As long as nobody deletes a document, no failure ends the worker thread: the row it has claimed
\* is there when it finishes, however uploads, updates, retries and stops come in between.  (A
\* delete beside an update does end it.)
THEOREM WorkerLives == ASSUME NoDeletes PROVE Spec => []WorkerSurvives
<1>1. KeepInv => WorkerSurvives
  BY DEF KeepInv, WorkerHolds, WorkerSurvives, DeadWorker, IdleWorker
<1> QED  BY <1>1, KeepHolds, PTL

\* As long as nobody deletes a document, one that says indexing has a running row, which the worker
\* holds, or a restart finds.
THEOREM IndexingIsHeld == ASSUME NoDeletes PROVE Spec => []IndexingHasRunningJob
<1>1. KeepInv => IndexingHasRunningJob
  BY DEF KeepInv
<1> QED  BY <1>1, KeepHolds, PTL

-----------------------------------------------------------------------------
(* While clients only upload and update: what a document says, its job and *)
(* the worker go together, and follow the lifecycle.                       *)

OnlyWrites == Operations \cap {"retry", "start", "stop", "delete"} = {}

\* An active job says what its document does, and a queued document has one.
JobsShow ==
  /\ \A j \in jobs : status[j.doc] \in {"queued", "indexing"}
  /\ \A j \in QueuedJobs : status[j.doc] = "queued"
  /\ \A d \in Docs : status[d] = "queued" => ActiveJobs(d) # {}

\* Once the worker has marked its document, only newer metadata sends it back to the queue.
WorkerShows ==
  /\ worker.pc \in {"mark", "wipe", "insert", "verify", "finish", "fail", "blank"} =>
       worker.generation <= generation[worker.doc]
  /\ worker.pc \in {"wipe", "insert", "verify", "finish", "fail", "blank"}
       /\ worker.generation = generation[worker.doc] => status[worker.doc] = "indexing"

LifeInv ==
  /\ KeepInv
  /\ \A t \in Threads : thread[t].pc \in Uploading
  /\ JobsShow /\ WorkerShows
  /\ \A d \in Docs : ~Exists(d) => indexed[d] = 0

\* Nobody but the worker and a restart touches a document that is there, except to update it.
LEMMA WriterRows ==
  ASSUME LifeInv, NEW t \in Threads, NEW d \in Docs, HandlerStep(t, d)
  PROVE  /\ UNCHANGED <<chunks, worker, running>>
         /\ \/ UNCHANGED <<status, generation, indexed, digest, jobs>>
            \/ /\ CreateQueuedDocument(d, thread[t].payload)
               /\ CreateUploaded(t, d) \/ CreateReconciled(t, d)
<1> USE DEF KeepRows, KeepProcess, manifest, documents
<1>1. thread[t].pc \in Uploading
  BY DEF LifeInv
<1>2. CASE CreateUploaded(t, d) \/ CreateReconciled(t, d)
  BY <1>2 DEF CreateUploaded, CreateReconciled
<1>3. CASE SaveOriginal(t, d) \/ UndoSave(t, d) \/ ReconcileUpload(t, d)
  BY <1>3 DEF SaveOriginal, UndoSave, ReconcileUpload
<1> QED
  BY <1>1, <1>2, <1>3 DEF HandlerStep, ReadActiveForStart, SubmitJob, Requeue, ReadActiveForStop,
     CancelForStop, ReadActiveForDelete, CancelForDelete, DeleteChunks, UnlinkOriginal, DeleteRecord,
     At, Uploading

\* Where the queued documents have jobs, and the jobs that stay and the one that comes are of
\* documents that say so.
LEMMA JobsShown ==
  ASSUME LifeInv, NEW d \in Docs, NEW op, NEW rest \in SUBSET jobs,
         \E id \in JobIds :
           jobs' = rest \cup {[id |-> id, doc |-> d, operation |-> op,
                              status |-> "queued", attempts |-> 0]},
         status' = [status EXCEPT ![d] = "queued"], \A j \in jobs : j.doc # d => j \in rest
  PROVE  JobsShow'
<1>1. /\ status \in [Docs -> {"absent", "queued", "indexing", "ready", "failed"}]
      /\ \A j \in jobs : j.doc \in Docs
  BY DEF LifeInv, KeepInv, Inv, TypeInv, TypeOK, Job
<1>2. PICK id \in JobIds : jobs' = rest \cup {[id |-> id, doc |-> d, operation |-> op,
                                              status |-> "queued", attempts |-> 0]}
  OBVIOUS
<1> DEFINE new == [id |-> id, doc |-> d, operation |-> op, status |-> "queued", attempts |-> 0]
<1>3. new.doc = d /\ new.status = "queued"
  OBVIOUS
<1>4. jobs' = rest \cup {new}
  BY <1>2
<1> HIDE DEF new
<1>5. \A j \in jobs' : status'[j.doc] \in {"queued", "indexing"}
  BY <1>1, <1>3, <1>4 DEF LifeInv, JobsShow
<1>6. \A j \in jobs' : j.status = "queued" => status'[j.doc] = "queued"
  <2>1. \A j \in jobs : j.status = "queued" => status[j.doc] = "queued"
    BY DEF LifeInv, JobsShow, QueuedJobs
  <2> QED  BY <1>1, <1>3, <1>4, <2>1
<1>7. \A e \in Docs : status'[e] = "queued" => \E j \in jobs' : j.doc = e
  <2>1. \A e \in Docs : status[e] = "queued" => \E j \in jobs : j.doc = e
    BY DEF LifeInv, JobsShow, ActiveJobs
  <2> QED  BY <1>1, <1>3, <1>4, <2>1
<1> QED  BY <1>5, <1>6, <1>7 DEF JobsShow, QueuedJobs, ActiveJobs

\* A first job for a document that was not there.
LEMMA CreateLife ==
  ASSUME LifeInv, NEW d \in Docs, NEW payload, CreateQueuedDocument(d, payload), worker' = worker
  PROVE  JobsShow' /\ WorkerShows' /\ \A e \in Docs : status'[e] = "absent" => indexed'[e] = 0
<1>1. /\ status \in [Docs -> {"absent", "queued", "indexing", "ready", "failed"}]
      /\ generation \in [Docs -> Generations] /\ indexed \in [Docs -> Generations]
      /\ \A j \in jobs : j.doc \in Docs
  BY DEF LifeInv, KeepInv, Inv, TypeInv, TypeOK, Job
<1>2. /\ ~Exists(d) /\ status' = [status EXCEPT ![d] = "queued"]
      /\ generation' = [generation EXCEPT ![d] = 1] /\ indexed' = [indexed EXCEPT ![d] = 0]
  BY DEF CreateQueuedDocument, CanCreateDocument
<1>3. \E id \in JobIds :
        jobs' = jobs \cup {[id |-> id, doc |-> d, operation |-> "index",
                            status |-> "queued", attempts |-> 0]}
  BY DEF CreateQueuedDocument, InsertJob
<1>4. JobsShow'
  BY <1>2, <1>3, JobsShown
<1>5. WorkerShows'
  <2>1. worker.pc # "idle" => worker.doc \in Docs /\ worker.doc # d
    BY <1>2, HeldRow DEF LifeInv
  <2> QED  BY <1>1, <1>2, <2>1 DEF LifeInv, WorkerShows
<1> QED  BY <1>1, <1>2, <1>4, <1>5 DEF LifeInv, Exists

\* A metadata update: whatever the worker has read is older now.
LEMMA UpdateLife ==
  ASSUME LifeInv, NEW d \in Docs, UpdateDocument(d)
  PROVE  JobsShow' /\ WorkerShows' /\ \A e \in Docs : status'[e] = "absent" => indexed'[e] = 0
<1>1. /\ status \in [Docs -> {"absent", "queued", "indexing", "ready", "failed"}]
      /\ generation \in [Docs -> Nat] /\ \A j \in jobs : j.doc \in Docs
      /\ worker.generation \in Nat
  BY ConstantsAssumption DEF LifeInv, KeepInv, Inv, TypeInv, TypeOK, Job, Generations, WorkerState
<1>2. /\ status' = [status EXCEPT ![d] = "queued"] /\ worker' = worker /\ indexed' = indexed
      /\ generation' = [generation EXCEPT ![d] = @ + 1] /\ Exists(d)
  BY DEF UpdateDocument, KeepProcess
<1>3. ASSUME ActiveJobs(d) = {} PROVE JobsShow'
  <2>1. \E id \in JobIds :
          jobs' = jobs \cup {[id |-> id, doc |-> d, operation |-> "reindex",
                              status |-> "queued", attempts |-> 0]}
    BY <1>3 DEF UpdateDocument, InsertJob
  <2>2. jobs \in SUBSET jobs /\ \A j \in jobs : j.doc # d => j \in jobs
    OBVIOUS
  <2>3. status' = [status EXCEPT ![d] = "queued"]
    BY <1>2
  <2> QED  BY <2>1, <2>2, <2>3, JobsShown
<1>4. ASSUME ActiveJobs(d) # {} PROVE JobsShow'
  <2>1. jobs' = jobs
    BY <1>4 DEF UpdateDocument
  <2>2. \A j \in jobs : status'[j.doc] \in {"queued", "indexing"}
    BY <1>1, <1>2 DEF LifeInv, JobsShow
  <2>3. \A j \in jobs : j.status = "queued" => status'[j.doc] = "queued"
    BY <1>1, <1>2, <2>1 DEF LifeInv, JobsShow, QueuedJobs
  <2>4. \A e \in Docs : status'[e] = "queued" => ActiveJobs(e) # {}
    BY <1>1, <1>2, <1>4 DEF LifeInv, JobsShow
  <2> QED  BY <2>1, <2>2, <2>3, <2>4 DEF JobsShow, QueuedJobs, ActiveJobs
<1>5. JobsShow'
  BY <1>3, <1>4
<1>6. WorkerShows'
  BY <1>1, <1>2, HeldRow DEF LifeInv, WorkerShows
<1> QED  BY <1>1, <1>2, <1>5, <1>6 DEF LifeInv, Exists

\* The worker's calls: it marks a document whose job it holds, and leaves no job behind.
LEMMA WorkerLife ==
  ASSUME LifeInv, NEW d \in Docs, WorkerStep(d)
  PROVE  JobsShow' /\ WorkerShows' /\ \A e \in Docs : status'[e] = "absent" => indexed'[e] = 0
<1> USE DEF KeepOutside, manifest, documents
<1>1. /\ worker.doc = d /\ worker.pc # "idle"
  BY DEF WorkerStep, ReadIndexingContext, MarkIndexing, WipeChunks,
     InsertChunks, VerifyChunks, FinishIndexed, FinishFailed, WorkerAt
<1>2. /\ Exists(d) /\ HeldJob(d) # {} /\ ~FinishRaises(d)
      /\ status \in [Docs -> {"absent", "queued", "indexing", "ready", "failed"}]
      /\ generation \in [Docs -> Nat] /\ indexed \in [Docs -> Generations]
      /\ worker \in WorkerState /\ worker.generation \in Nat /\ \A j \in jobs : j.doc \in Docs
      /\ BackendErrors \in SUBSET {"fail", "blank"}
  BY <1>1, HeldRow, ConstantsAssumption
     DEF LifeInv, KeepInv, Inv, TypeInv, TypeOK, Generations, WorkerState, Job
<1>3. ActiveJobs(d) = HeldJob(d) /\ HeldJob(d) \cap QueuedJobs = {}
  BY <1>2 DEF LifeInv, KeepInv, Inv, OneActiveJob, ActiveJobs, HeldJob, RunningJobs, QueuedJobs
<1>4. CASE ReadIndexingContext(d)
  <2>1. worker' = [worker EXCEPT !.pc = "mark", !.generation = generation[d]]
        /\ UNCHANGED <<status, generation, indexed, jobs>>
    BY <1>2, <1>4 DEF ReadIndexingContext
  <2>2. worker'.pc = "mark" /\ worker'.generation = generation[d] /\ worker'.doc = d
    BY <1>1, <1>2, <2>1 DEF WorkerState
  <2> QED  BY <1>2, <2>1, <2>2 DEF LifeInv, JobsShow, WorkerShows, QueuedJobs, ActiveJobs, Exists
<1>5. CASE WipeChunks(d) \/ InsertChunks(d) \/ VerifyChunks(d)
  <2>1. /\ UNCHANGED <<status, generation, indexed, jobs>>
        /\ worker.pc \in {"wipe", "insert", "verify"}
        /\ \E pc \in {"insert", "verify", "finish", "fail", "blank"} : WorkerGoto(pc)
    BY <1>2, <1>5 DEF WipeChunks, InsertChunks, VerifyChunks, WorkerAt
  <2>2. worker'.generation = worker.generation /\ worker'.doc = d
        /\ worker'.pc \in {"insert", "verify", "finish", "fail", "blank"}
    BY <1>1, <1>2, <2>1 DEF WorkerGoto, WorkerState
  <2> QED  BY <1>1, <1>2, <2>1, <2>2 DEF LifeInv, JobsShow, WorkerShows, QueuedJobs, ActiveJobs, Exists
<1>6. CASE MarkIndexing(d)
  <2>1. /\ status' = [status EXCEPT ![d] = "indexing"] /\ UNCHANGED <<generation, indexed, jobs>>
        /\ worker.pc = "mark" /\ WorkerGoto(IF worker.operation = "reindex" THEN "wipe" ELSE "insert")
    BY <1>2, <1>6 DEF MarkIndexing, SetDocumentStatus, WorkerAt
  <2>2. worker'.generation = worker.generation /\ worker'.doc = d /\ worker'.pc \in {"wipe", "insert"}
    BY <1>1, <1>2, <2>1 DEF WorkerGoto, WorkerState
  <2>3. \A j \in QueuedJobs : j.doc # d /\ j \in jobs
    BY <1>3 DEF ActiveJobs, QueuedJobs
  <2>4. JobsShow'
    BY <1>2, <2>1, <2>3 DEF LifeInv, JobsShow, QueuedJobs, ActiveJobs
  <2>5. WorkerShows'
    BY <1>1, <1>2, <2>1, <2>2 DEF LifeInv, WorkerShows
  <2> QED  BY <1>2, <2>1, <2>4, <2>5 DEF LifeInv, Exists
<1>7. ASSUME NEW error, FinishIndexing(d, error)
      PROVE JobsShow' /\ WorkerShows' /\ \A e \in Docs : status'[e] = "absent" => indexed'[e] = 0
  <2>1. worker'.pc = "idle" /\ generation' = generation
    BY <1>7 DEF FinishIndexing, IdleWorker
  <2> DEFINE rest == jobs \ HeldJob(d)
  <2>2. \/ /\ status' = [status EXCEPT ![d] = "queued"] /\ indexed' = indexed
           /\ \E id \in JobIds :
                jobs' = rest \cup {[id |-> id, doc |-> d, operation |-> "reindex",
                                    status |-> "queued", attempts |-> 0]}
        \/ /\ \/ status' = [status EXCEPT ![d] = "failed"] /\ indexed' = indexed
              \/ status' = [status EXCEPT ![d] = "ready"]
                 /\ indexed' = [indexed EXCEPT ![d] = worker.generation]
           /\ jobs' = rest
    BY <1>7 DEF FinishIndexing, InsertJob
  <2>3. \A j \in rest : j \in jobs /\ j.doc # d
    BY <1>3 DEF ActiveJobs
  <2>4. \A j \in jobs : j.doc # d => j \in rest
    BY <1>3 DEF ActiveJobs
  <2> HIDE DEF rest
  <2>5. JobsShow'
    <3>1. CASE status' = [status EXCEPT ![d] = "queued"]
      <4>1. status'[d] = "queued" /\ rest \in SUBSET jobs
        BY <1>2, <2>3, <3>1
      <4>2. \E id \in JobIds :
              jobs' = rest \cup {[id |-> id, doc |-> d, operation |-> "reindex",
                                  status |-> "queued", attempts |-> 0]}
        BY <1>2, <2>2, <4>1
      <4> QED  BY <2>4, <3>1, <4>1, <4>2, JobsShown
    <3>2. CASE jobs' = rest /\ \E s \in {"failed", "ready"} : status' = [status EXCEPT ![d] = s]
      <4>1. /\ \A j \in rest : j.doc \in Docs /\ status'[j.doc] = status[j.doc]
            /\ status'[d] # "queued" /\ \A e \in Docs : e # d => status'[e] = status[e]
        BY <1>2, <2>3, <3>2
      <4>2. \A j \in rest : status'[j.doc] \in {"queued", "indexing"}
                           /\ (j.status = "queued" => status'[j.doc] = "queued")
        BY <2>3, <4>1 DEF LifeInv, JobsShow, QueuedJobs
      <4>3. \A e \in Docs : status'[e] = "queued" => \E j \in rest : j.doc = e
        BY <2>4, <4>1 DEF LifeInv, JobsShow, ActiveJobs
      <4> QED  BY <3>2, <4>2, <4>3 DEF JobsShow, QueuedJobs, ActiveJobs
    <3> QED  BY <2>2, <3>1, <3>2
  <2>6. \A e \in Docs : status'[e] = "absent" => indexed'[e] = 0
    BY <1>2, <2>2 DEF LifeInv, Exists
  <2> QED  BY <2>1, <2>5, <2>6 DEF WorkerShows
<1>8. CASE FinishIndexed(d) \/ FinishFailed(d)
  BY <1>2, <1>7, <1>8 DEF FinishIndexed, FinishFailed
<1> QED  BY <1>4, <1>5, <1>6, <1>8 DEF WorkerStep

\* A claim and a restart.
LEMMA ClaimLife ==
  ASSUME LifeInv, ClaimNextJob
  PROVE  JobsShow' /\ WorkerShows' /\ \A e \in Docs : status'[e] = "absent" => indexed'[e] = 0
<1>1. PICK j \in QueuedJobs :
        /\ jobs' = (jobs \ {j}) \cup {[j EXCEPT !.status = "running", !.attempts = @ + 1]}
        /\ worker' = [pc |-> "context", job |-> j.id, doc |-> j.doc,
                      operation |-> j.operation, generation |-> 0]
  BY DEF ClaimNextJob
<1> DEFINE claimed == [j EXCEPT !.status = "running", !.attempts = @ + 1]
<1>2. claimed.doc = j.doc /\ claimed.status = "running" /\ j \in jobs
  BY DEF QueuedJobs, LifeInv, KeepInv, Inv, TypeInv, TypeOK, Job
<1> HIDE DEF claimed
<1>3. /\ jobs' = (jobs \ {j}) \cup {claimed} /\ worker'.pc = "context"
      /\ UNCHANGED <<status, generation, indexed>>
  BY <1>1 DEF ClaimNextJob, KeepOutside, documents, claimed
<1> QED
  BY <1>2, <1>3 DEF LifeInv, JobsShow, WorkerShows, QueuedJobs, ActiveJobs, Exists

LEMMA StartLife ==
  ASSUME LifeInv, Start
  PROVE  JobsShow' /\ WorkerShows' /\ \A e \in Docs : status'[e] = "absent" => indexed'[e] = 0
<1>1. /\ jobs' = QueuedJobs \cup {Recovered(j) : j \in RunningJobs \ Exhausted}
      /\ status' = [d \in Docs |->
           IF \E j \in jobs' : j.doc = d THEN "queued"
           ELSE IF \E j \in Exhausted : j.doc = d THEN "failed"
           ELSE status[d]]
      /\ UNCHANGED <<generation, indexed, worker>> /\ worker.pc = "idle"
  BY DEF Start, RecoverRunningJobs, LifeInv, KeepInv, WorkerHolds
<1>2. \A j \in RunningJobs : Recovered(j).doc = j.doc /\ j.doc \in Docs /\ Recovered(j).status = "queued"
  BY DEF Recovered, RunningJobs, LifeInv, KeepInv, Inv, TypeInv, TypeOK, Job
<1>3. \A j \in jobs : j.doc \in Docs /\ (j \in QueuedJobs \/ j \in RunningJobs)
  BY DEF QueuedJobs, RunningJobs, LifeInv, KeepInv, Inv, TypeInv, TypeOK, Job
<1>4. \A j \in jobs' : j.doc \in Docs /\ status'[j.doc] = "queued"
  BY <1>1, <1>2, <1>3 DEF QueuedJobs
<1>5. ASSUME NEW d \in Docs, status'[d] = "queued" PROVE \E j \in jobs' : j.doc = d
  <2> SUFFICES ASSUME ~(\E j \in jobs' : j.doc = d) PROVE FALSE
    OBVIOUS
  <2>1. status[d] = "queued" /\ ~(\E j \in Exhausted : j.doc = d)
    BY <1>1, <1>5
  <2>2. PICK j \in jobs : j.doc = d
    BY <2>1 DEF LifeInv, JobsShow, ActiveJobs
  <2>3. j \in RunningJobs \ Exhausted
    BY <1>1, <1>3, <2>1, <2>2
  <2> QED  BY <1>1, <1>2, <2>2, <2>3
<1> QED
  BY <1>1, <1>4, <1>5 DEF LifeInv, JobsShow, WorkerShows, QueuedJobs, ActiveJobs, Exists

LEMMA LifeStep ==
  ASSUME OnlyWrites, LifeInv, [Next]_vars
  PROVE  LifeInv'
<1> USE DEF manifest, documents, KeepProcess
<1>0. TypeInv /\ KeepInv' /\ KeepInv
  BY KeepStep DEF OnlyWrites, NoDeletes, LifeInv, KeepInv, Inv
<1>1. ASSUME UNCHANGED <<status, generation, indexed, jobs>>, worker' = worker \/ worker'.pc = "idle",
             \A u \in Threads : thread'[u].pc \in Uploading
      PROVE  LifeInv'
  BY <1>0, <1>1 DEF LifeInv, JobsShow, WorkerShows, QueuedJobs, ActiveJobs, Exists
<1>2. ASSUME NEW c \in Collections, CreateCollection(c) \/ DeleteCollection(c) PROVE LifeInv'
  BY <1>1, <1>2 DEF CreateCollection, DeleteCollection, LifeInv
<1>3. ASSUME NEW d \in Docs, UpdateDocument(d) PROVE LifeInv'
  BY <1>0, <1>3, UpdateLife DEF UpdateDocument, LifeInv, Exists
<1>4. ASSUME NEW t \in Threads, NEW d \in Docs, Request(t, d) PROVE LifeInv'
  <2>1. PICK payload \in Payloads : Upload(t, d, payload)
    BY <1>0, <1>4, RequestMoves DEF OnlyWrites
  <2>2. [Handling("save", d) EXCEPT !.payload = payload].pc \in Uploading
    BY DEF Handling, Uploading
  <2>3. \A u \in Threads : thread'[u].pc \in Uploading
    BY <1>0, <2>1, <2>2, ThreadMoves DEF Upload, Begin, LifeInv
  <2> QED  BY <1>1, <2>1, <2>3 DEF Upload, KeepRows
<1>5. ASSUME NEW t \in Threads, NEW d \in Docs, HandlerStep(t, d) PROVE LifeInv'
  <2>1. \A u \in Threads : thread'[u].pc \in Uploading
    BY <1>0, <1>5, HandlerMoves DEF LifeInv
  <2>2. worker' = worker
    BY <1>5, WriterRows
  <2>3. CASE UNCHANGED <<status, generation, indexed, digest, jobs>>
    BY <1>1, <2>1, <2>2, <2>3
  <2>4. CASE CreateQueuedDocument(d, thread[t].payload)
    BY <1>0, <2>1, <2>2, <2>4, CreateLife DEF LifeInv, Exists
  <2> QED  BY <1>5, <2>3, <2>4, WriterRows
<1>6. ASSUME NEW d \in Docs, RepairQueuedDocument(d) PROVE FALSE
  BY <1>6 DEF RepairQueuedDocument, NeedsRepair, LifeInv, JobsShow
<1>7. CASE ClaimNextJob
  BY <1>0, <1>7, ClaimLife DEF ClaimNextJob, KeepOutside, LifeInv, Exists
<1>8. ASSUME NEW d \in Docs, WorkerStep(d) PROVE LifeInv'
  <2>1. thread' = thread
    BY <1>8 DEF WorkerStep, ReadIndexingContext, MarkIndexing, WipeChunks, InsertChunks,
                VerifyChunks, FinishIndexed, FinishFailed, KeepOutside
  <2> QED  BY <1>0, <1>8, <2>1, WorkerLife DEF LifeInv, Exists
<1>9. CASE Crash
  BY <1>1, <1>9 DEF Crash, IdleWorker, IdleThread, Uploading
<1>10. CASE Start
  BY <1>0, <1>10, StartLife DEF Start, LifeInv, Exists
<1>11. CASE UNCHANGED vars
  BY <1>1, <1>11 DEF vars, LifeInv
<1> QED  BY <1>2, <1>3, <1>4, <1>5, <1>6, <1>7, <1>8, <1>9, <1>10, <1>11 DEF Next

LEMMA LifeHolds == ASSUME OnlyWrites PROVE Spec => []LifeInv
<1>1. Init => LifeInv
  <2> SUFFICES ASSUME Init PROVE LifeInv
    OBVIOUS
  <2>1. Inv
    BY TypeInit DEF Init, Inv, OneActiveJob, JobHasDocument, RunningJobIsHeld, RunningJobs,
                    ReadyIsCurrent
  <2>2. worker.pc = "idle" /\ \A t \in Threads : thread[t].pc = "idle"
    BY DEF Init, IdleWorker, IdleThread
  <2>3. IndexingHasRunningJob /\ JobsShow /\ WorkerShows /\ \A d \in Docs : indexed[d] = 0
    BY <2>2 DEF Init, IndexingHasRunningJob, JobsShow, WorkerShows, QueuedJobs
  <2> QED  BY <2>1, <2>2, <2>3 DEF LifeInv, KeepInv, WorkerHolds, Keeping, Uploading
<1>2. LifeInv /\ [Next]_vars => LifeInv'
  BY LifeStep
<1> QED  BY <1>1, <1>2, PTL DEF Spec

\* As long as clients only upload and update, a document in a state that somebody must end has the
\* job that will end it, for any number of documents, updates, failures and restarts.  (A retry
\* and a stop may leave a queued document without one.)
THEOREM StatusesHaveJobs == ASSUME OnlyWrites PROVE Spec => []StatusHasJob
<1>1. LifeInv => StatusHasJob
  BY DEF LifeInv, KeepInv, JobsShow, StatusHasJob, QueuedHasJob
<1> QED  BY <1>1, LifeHolds, PTL

\* A step of the sidecar is a step of the lifecycle, or shows the clients nothing.
LEMMA LifecycleStep ==
  ASSUME OnlyWrites, LifeInv, [Next]_vars
  PROVE  [Lifecycle!Next]_(Lifecycle!vars)
<1> USE DEF manifest, documents, KeepProcess, KeepOutside
<1>0. /\ status \in [Docs -> {"absent", "queued", "indexing", "ready", "failed"}]
      /\ \A j \in jobs : j.doc \in Docs
  BY DEF LifeInv, KeepInv, Inv, TypeInv, TypeOK, Job
<1>1. ASSUME UNCHANGED <<status, generation, indexed>> PROVE UNCHANGED Lifecycle!vars
  BY <1>1 DEF Lifecycle!vars
<1>2. ASSUME NEW c \in Collections, CreateCollection(c) \/ DeleteCollection(c)
      PROVE  UNCHANGED Lifecycle!vars
  BY <1>1, <1>2 DEF CreateCollection, DeleteCollection
<1>3. ASSUME NEW d \in Docs, UpdateDocument(d) PROVE Lifecycle!WriteMetadata(d)
  <2>1. status[d] \in {"queued", "indexing", "ready", "failed"}
    BY <1>0, <1>3 DEF UpdateDocument, Exists
  <2> QED  BY <1>3, <2>1 DEF UpdateDocument, Lifecycle!WriteMetadata, Lifecycle!Move
<1>4. ASSUME NEW t \in Threads, NEW d \in Docs, Request(t, d) PROVE UNCHANGED Lifecycle!vars
  BY <1>1, <1>4 DEF Request, Upload, RetryIndexing, StartIndexing, StopIndexing, DeleteDocument,
                    KeepRows
<1>5. ASSUME NEW t \in Threads, NEW d \in Docs, HandlerStep(t, d)
      PROVE  UNCHANGED Lifecycle!vars \/ Lifecycle!Upload(d)
  <2>1. CASE UNCHANGED <<status, generation, indexed, digest, jobs>>
    BY <1>1, <2>1
  <2>2. CASE CreateQueuedDocument(d, thread[t].payload)
    <3>1. status[d] = "absent" /\ indexed[d] = 0
      BY <2>2 DEF CreateQueuedDocument, CanCreateDocument, Exists, LifeInv
    <3>2. indexed' = indexed
      BY <2>2, <3>1 DEF CreateQueuedDocument, LifeInv, KeepInv, Inv, TypeInv, TypeOK
    <3> QED  BY <2>2, <3>1, <3>2 DEF CreateQueuedDocument, Lifecycle!Upload, Lifecycle!Move
  <2> QED  BY <1>5, <2>1, <2>2, WriterRows
<1>6. ASSUME NEW d \in Docs, RepairQueuedDocument(d) PROVE UNCHANGED Lifecycle!vars
  BY <1>1, <1>6 DEF RepairQueuedDocument
<1>7. ASSUME NEW d \in Docs, WorkerStep(d)
      PROVE  \/ UNCHANGED Lifecycle!vars
             \/ Lifecycle!BeginIndexing(d) \/ Lifecycle!Publish(d)
             \/ Lifecycle!QueueAgain(d) \/ Lifecycle!GiveUp(d)
  <2>1. worker.doc = d /\ worker.pc # "idle"
    BY <1>7 DEF WorkerStep, ReadIndexingContext, MarkIndexing, WipeChunks,
       InsertChunks, VerifyChunks, FinishIndexed, FinishFailed, WorkerAt
  <2>2. Exists(d) /\ HeldJob(d) # {} /\ ~FinishRaises(d) /\ status[d] \in {"queued", "indexing"}
    <3>1. Exists(d) /\ HeldJob(d) # {} /\ ~FinishRaises(d)
      BY <2>1, HeldRow DEF LifeInv
    <3> QED  BY <3>1 DEF LifeInv, JobsShow, HeldJob, RunningJobs
  <2>3. CASE \/ ReadIndexingContext(d) \/ WipeChunks(d) \/ InsertChunks(d) \/ VerifyChunks(d)
    BY <1>1, <2>3 DEF ReadIndexingContext, WipeChunks, InsertChunks, VerifyChunks
  <2>4. CASE MarkIndexing(d)
    <3>1. status' = [status EXCEPT ![d] = "indexing"] /\ UNCHANGED <<generation, indexed>>
      BY <2>2, <2>4 DEF MarkIndexing, SetDocumentStatus
    <3>2. CASE status[d] = "queued"
      BY <3>1, <3>2 DEF Lifecycle!BeginIndexing, Lifecycle!Move
    <3>3. CASE status[d] = "indexing"
      BY <1>0, <1>1, <3>1, <3>3
    <3> QED  BY <2>2, <3>2, <3>3
  <2>5. ASSUME NEW error, FinishIndexing(d, error), worker.pc \in {"finish", "fail", "blank"}
        PROVE  \/ UNCHANGED Lifecycle!vars \/ Lifecycle!Publish(d)
               \/ Lifecycle!QueueAgain(d) \/ Lifecycle!GiveUp(d)
    <3>1. generation' = generation
      BY <2>5 DEF FinishIndexing
    <3>2. CASE status' = [status EXCEPT ![d] = "queued"] /\ UNCHANGED indexed
      <4>1. CASE status[d] = "queued"
        BY <1>0, <1>1, <3>1, <3>2, <4>1
      <4>2. CASE status[d] = "indexing"
        BY <3>1, <3>2, <4>2 DEF Lifecycle!QueueAgain, Lifecycle!Move
      <4> QED  BY <2>2, <4>1, <4>2
    <3>3. CASE status' = [status EXCEPT ![d] = "failed"] /\ UNCHANGED indexed
      BY <2>2, <3>1, <3>3 DEF Lifecycle!GiveUp, Lifecycle!Move
    <3>4. CASE /\ ~MetadataMoved(d) /\ status' = [status EXCEPT ![d] = "ready"]
               /\ indexed' = [indexed EXCEPT ![d] = worker.generation]
      <4>1. worker.generation = generation[d] /\ status[d] = "indexing"
        BY <2>1, <2>5, <3>4 DEF MetadataMoved, LifeInv, WorkerShows
      <4> QED  BY <3>1, <3>4, <4>1 DEF Lifecycle!Publish, Lifecycle!Move
    <3> QED  BY <2>5, <3>2, <3>3, <3>4 DEF FinishIndexing
  <2>6. CASE FinishIndexed(d) \/ FinishFailed(d)
    BY <2>2, <2>5, <2>6 DEF FinishIndexed, FinishFailed, WorkerAt
  <2> QED  BY <1>7, <2>3, <2>4, <2>6 DEF WorkerStep
<1>8. CASE Start
  <2>1. /\ jobs' = QueuedJobs \cup {Recovered(j) : j \in RunningJobs \ Exhausted}
        /\ status' = [d \in Docs |->
             IF \E j \in jobs' : j.doc = d THEN "queued"
             ELSE IF \E j \in Exhausted : j.doc = d THEN "failed"
             ELSE status[d]]
        /\ UNCHANGED <<generation, indexed>>
    BY <1>8 DEF Start, RecoverRunningJobs
  <2>2. \A j \in RunningJobs : Recovered(j).doc = j.doc /\ j \in jobs
    BY DEF Recovered, RunningJobs, LifeInv, KeepInv, Inv, TypeInv, TypeOK, Job
  <2>3. \A j \in QueuedJobs : status[j.doc] = "queued"
    BY DEF LifeInv, JobsShow
  <2>4. \A j \in RunningJobs : status[j.doc] \in {"queued", "indexing"}
    BY <2>2 DEF LifeInv, JobsShow
  <2>5. \A d \in Docs : (\E j \in jobs' : j.doc = d) => status[d] \in {"queued", "indexing"}
    BY <2>1, <2>2, <2>3, <2>4
  <2>6. \A d \in Docs : (\E j \in Exhausted : j.doc = d) => status[d] \in {"queued", "indexing"}
    BY <2>4 DEF Exhausted
  <2>7. \A d \in Docs : \/ status'[d] = status[d]
                        \/ status[d] = "indexing" /\ status'[d] = "queued"
                        \/ status[d] \in {"queued", "indexing"} /\ status'[d] = "failed"
    BY <2>1, <2>5, <2>6
  <2>8. status' \in [Docs -> {"absent", "queued", "indexing", "ready", "failed"}]
    BY <1>0, <2>1
  <2> QED  BY <2>1, <2>7, <2>8 DEF Lifecycle!Recover, Lifecycle!Next
<1>9. CASE ClaimNextJob \/ Crash \/ UNCHANGED vars
  BY <1>1, <1>9 DEF ClaimNextJob, Crash, vars
<1> QED
  BY <1>2, <1>3, <1>4, <1>5, <1>6, <1>7, <1>8, <1>9 DEF Next, Lifecycle!Next

\* As long as clients only upload and update, what they see of a document is the state machine of
\* ADR 0011: the manifest, its jobs, the worker and the restarts implement the lifecycle.
THEOREM LifecycleFollowed == ASSUME OnlyWrites PROVE Spec => FollowsLifecycle
<1>1. Init => Lifecycle!Init
  BY DEF Init, Lifecycle!Init
<1>2. LifeInv /\ [Next]_vars => [Lifecycle!Next]_(Lifecycle!vars)
  BY LifecycleStep
<1> QED  BY <1>1, <1>2, LifeHolds, PTL DEF Spec, FollowsLifecycle, Lifecycle!Spec

-----------------------------------------------------------------------------
(* While clients only upload and update, and RAGLite's errors have a text: *)
(* what a ready document says it holds.                                    *)

ErrorsHaveText == "blank" \notin BackendErrors

\* What RAGLite holds nothing of: documents that are not there, and those of a first insert.
Unindexed ==
  /\ \A d \in Docs : ~Exists(d) => chunks[d] = NoChunks
  /\ \A j \in QueuedJobs : j.operation = "index" => chunks[j.doc] = NoChunks

\* An insert finds nothing of its document, so that RAGLite does not skip it.
WorkerInserts ==
  /\ worker.pc # "blank"
  /\ worker.pc \in {"context", "mark"} /\ worker.operation # "reindex"
       => chunks[worker.doc] = NoChunks
  /\ worker.pc = "insert" => chunks[worker.doc] = NoChunks
  /\ worker.pc = "verify" => chunks[worker.doc] \in {NoChunks, AllChunks(worker.generation)}
  /\ worker.pc = "finish" => chunks[worker.doc] = AllChunks(worker.generation)

\* RAGLite skips what it has, so a ready document holds the chunks of its last run only because
\* every run starts from none of it: a first insert, one after a wipe, one after a crash.
ChunkInv == LifeInv /\ Unindexed /\ WorkerInserts /\ ReadyIsIndexed

\* A step that leaves what RAGLite holds alone, and queues no first insert.
LEMMA QuietChunks ==
  ASSUME ChunkInv, UNCHANGED <<chunks, generation>>, worker' = worker \/ worker'.pc = "idle",
         \A j \in QueuedJobs' : j.operation = "index" => chunks[j.doc] = NoChunks,
         \A e \in Docs : Exists(e) => status'[e] # "absent",
         \A e \in Docs : status'[e] = "ready" => status[e] = "ready"
  PROVE  Unindexed' /\ WorkerInserts' /\ ReadyIsIndexed'
<1>1. Unindexed'
  BY DEF ChunkInv, Unindexed, Exists
<1>2. WorkerInserts'
  BY DEF ChunkInv, WorkerInserts
<1>3. ReadyIsIndexed'
  BY DEF ChunkInv, ReadyIsIndexed
<1> QED  BY <1>1, <1>2, <1>3

\* The first job of a document that was not there inserts it from nothing.
LEMMA CreateChunks ==
  ASSUME ChunkInv, NEW d \in Docs, NEW payload, CreateQueuedDocument(d, payload),
         worker' = worker, chunks' = chunks
  PROVE  Unindexed' /\ WorkerInserts' /\ ReadyIsIndexed'
<1>1. /\ status \in [Docs -> {"absent", "queued", "indexing", "ready", "failed"}]
      /\ generation \in [Docs -> Generations]
  BY DEF ChunkInv, LifeInv, KeepInv, Inv, TypeInv, TypeOK
<1>2. /\ ~Exists(d) /\ status' = [status EXCEPT ![d] = "queued"]
      /\ generation' = [generation EXCEPT ![d] = 1] /\ chunks[d] = NoChunks
  BY DEF CreateQueuedDocument, CanCreateDocument, ChunkInv, Unindexed
<1>3. PICK id \in JobIds :
        jobs' = jobs \cup {[id |-> id, doc |-> d, operation |-> "index",
                            status |-> "queued", attempts |-> 0]}
  BY DEF CreateQueuedDocument, InsertJob
<1>4. Unindexed'
  BY <1>1, <1>2, <1>3 DEF ChunkInv, Unindexed, QueuedJobs, Exists
<1>5. WorkerInserts'
  BY DEF ChunkInv, WorkerInserts
<1>6. ReadyIsIndexed'
  BY <1>1, <1>2 DEF ChunkInv, ReadyIsIndexed
<1> QED  BY <1>4, <1>5, <1>6

\* An update leaves its document queued, behind a reindex or the job that is active already.
LEMMA UpdateChunks ==
  ASSUME ChunkInv, NEW d \in Docs, UpdateDocument(d)
  PROVE  Unindexed' /\ WorkerInserts' /\ ReadyIsIndexed'
<1>1. /\ status \in [Docs -> {"absent", "queued", "indexing", "ready", "failed"}]
      /\ generation \in [Docs -> Generations]
  BY DEF ChunkInv, LifeInv, KeepInv, Inv, TypeInv, TypeOK
<1>2. /\ status' = [status EXCEPT ![d] = "queued"] /\ worker' = worker /\ chunks' = chunks
      /\ generation' = [generation EXCEPT ![d] = @ + 1] /\ Exists(d)
  BY DEF UpdateDocument, KeepProcess
<1>3. \A j \in QueuedJobs' : j.operation = "index" => j \in QueuedJobs
  <2>1. CASE ActiveJobs(d) = {}
    BY <2>1 DEF UpdateDocument, InsertJob, QueuedJobs
  <2>2. CASE ActiveJobs(d) # {}
    BY <2>2 DEF UpdateDocument, QueuedJobs
  <2> QED  BY <2>1, <2>2
<1>4. Unindexed'
  BY <1>1, <1>2, <1>3 DEF ChunkInv, Unindexed, Exists
<1>5. WorkerInserts'
  BY <1>2 DEF ChunkInv, WorkerInserts
<1>6. ReadyIsIndexed'
  BY <1>1, <1>2 DEF ChunkInv, ReadyIsIndexed
<1> QED  BY <1>4, <1>5, <1>6

\* The worker's document is the only one whose chunks it changes, and that one is not ready.
LEMMA WorkerChunks ==
  ASSUME ErrorsHaveText, ChunkInv, NEW d \in Docs, WorkerStep(d)
  PROVE  Unindexed' /\ WorkerInserts' /\ ReadyIsIndexed'
<1> USE DEF KeepOutside, manifest, documents
<1>1. /\ worker.doc = d /\ worker.pc # "idle"
  BY DEF WorkerStep, ReadIndexingContext, MarkIndexing, WipeChunks,
     InsertChunks, VerifyChunks, FinishIndexed, FinishFailed, WorkerAt
<1>2. /\ Exists(d) /\ HeldJob(d) # {} /\ ~FinishRaises(d) /\ LifeInv
      /\ status \in [Docs -> {"absent", "queued", "indexing", "ready", "failed"}]
      /\ chunks \in [Docs -> [generation : Generations, whole : BOOLEAN]]
      /\ worker \in WorkerState /\ \A j \in jobs : j.doc \in Docs
      /\ BackendErrors \subseteq {"fail"}
  BY <1>1, HeldRow, ConstantsAssumption
     DEF ChunkInv, LifeInv, KeepInv, Inv, TypeInv, TypeOK, Job, ErrorsHaveText
<1>3. ActiveJobs(d) = HeldJob(d) /\ HeldJob(d) \cap QueuedJobs = {}
  BY <1>2 DEF LifeInv, KeepInv, Inv, OneActiveJob, ActiveJobs, HeldJob, RunningJobs, QueuedJobs
<1>4. status[d] \in {"queued", "indexing"} /\ \A j \in QueuedJobs : j.doc \in Docs \ {d}
  BY <1>2, <1>3 DEF LifeInv, JobsShow, HeldJob, RunningJobs, QueuedJobs, ActiveJobs
<1>5. ASSUME UNCHANGED manifest, \A e \in Docs \ {d} : chunks'[e] = chunks[e], WorkerInserts'
      PROVE  Unindexed' /\ WorkerInserts' /\ ReadyIsIndexed'
  <2>1. Unindexed'
    BY <1>2, <1>4, <1>5 DEF ChunkInv, Unindexed, QueuedJobs, Exists
  <2>2. ReadyIsIndexed'
    BY <1>4, <1>5 DEF ChunkInv, ReadyIsIndexed
  <2> QED  BY <1>5, <2>1, <2>2
<1>6. CASE ReadIndexingContext(d)
  <2>1. /\ worker' = [worker EXCEPT !.pc = "mark", !.generation = generation[d]]
        /\ UNCHANGED <<manifest, chunks>> /\ worker.pc = "context"
    BY <1>2, <1>6 DEF ReadIndexingContext, WorkerAt
  <2>2. worker'.pc = "mark" /\ worker'.doc = d /\ worker'.operation = worker.operation
    BY <1>1, <1>2, <2>1 DEF WorkerState
  <2>3. WorkerInserts'
    BY <1>1, <2>1, <2>2 DEF ChunkInv, WorkerInserts
  <2> QED  BY <1>5, <2>1, <2>3
<1>7. CASE MarkIndexing(d)
  <2>1. /\ status' = [status EXCEPT ![d] = "indexing"] /\ UNCHANGED <<generation, indexed, jobs, chunks>>
        /\ worker.pc = "mark" /\ WorkerGoto(IF worker.operation = "reindex" THEN "wipe" ELSE "insert")
    BY <1>2, <1>7 DEF MarkIndexing, SetDocumentStatus, WorkerAt
  <2>2. /\ worker'.doc = d /\ worker'.pc \in {"wipe", "insert"}
        /\ worker'.pc = "insert" => worker.operation # "reindex"
    BY <1>1, <1>2, <2>1 DEF WorkerGoto, WorkerState
  <2>3. WorkerInserts'
    BY <1>1, <2>1, <2>2 DEF ChunkInv, WorkerInserts
  <2>4. Unindexed'
    BY <1>2, <2>1 DEF ChunkInv, Unindexed, QueuedJobs, Exists
  <2>5. ReadyIsIndexed'
    BY <1>2, <2>1 DEF ChunkInv, ReadyIsIndexed
  <2> QED  BY <2>3, <2>4, <2>5
<1>8. CASE WipeChunks(d)
  <2>1. /\ \A e \in Docs \ {d} : chunks'[e] = chunks[e]
        /\ \/ chunks'[d] = NoChunks /\ WorkerGoto("insert")
           \/ WorkerGoto("fail")
    BY <1>2, <1>8 DEF WipeChunks, BackendDelete, BackendDeleteFails
  <2>2. worker'.doc = d /\ ((worker'.pc = "insert" /\ chunks'[d] = NoChunks) \/ worker'.pc = "fail")
    BY <1>1, <1>2, <2>1 DEF WorkerGoto, WorkerState
  <2>3. WorkerInserts'
    BY <2>2 DEF WorkerInserts
  <2> QED  BY <1>5, <1>8, <2>1, <2>3 DEF WipeChunks
<1>9. CASE InsertChunks(d)
  <2>1. /\ \A e \in Docs \ {d} : chunks'[e] = chunks[e]
        /\ \/ chunks'[d] \in {chunks[d], AllChunks(worker.generation)} /\ WorkerGoto("verify")
           \/ WorkerGoto("fail")
        /\ worker.pc = "insert"
    BY <1>2, <1>9 DEF InsertChunks, BackendIndex, BackendIndexFails, WorkerAt
  <2>2. /\ worker'.doc = d /\ worker'.generation = worker.generation
        /\ \/ worker'.pc = "verify" /\ chunks'[d] \in {chunks[d], AllChunks(worker.generation)}
           \/ worker'.pc = "fail"
    BY <1>1, <1>2, <2>1 DEF WorkerGoto, WorkerState
  <2>3. WorkerInserts'
    BY <1>1, <2>1, <2>2 DEF ChunkInv, WorkerInserts
  <2> QED  BY <1>5, <1>9, <2>1, <2>3 DEF InsertChunks
<1>10. CASE VerifyChunks(d)
  <2>1. /\ UNCHANGED <<manifest, chunks>> /\ worker.pc = "verify"
        /\ \/ WorkerGoto(IF chunks[d] = NoChunks THEN "fail" ELSE "finish")
           \/ WorkerGoto("fail")
    BY <1>2, <1>10 DEF VerifyChunks, WorkerAt
  <2>2. /\ worker'.doc = d /\ worker'.generation = worker.generation
        /\ \/ worker'.pc = "finish" /\ chunks[d] # NoChunks
           \/ worker'.pc = "fail"
    BY <1>1, <1>2, <2>1 DEF WorkerGoto, WorkerState
  <2>3. WorkerInserts'
    BY <1>1, <2>1, <2>2 DEF ChunkInv, WorkerInserts
  <2> QED  BY <1>5, <2>1, <2>3
<1>11. ASSUME NEW error, FinishIndexing(d, error), chunks' = chunks,
              error \/ chunks[d] = AllChunks(worker.generation)
       PROVE  Unindexed' /\ WorkerInserts' /\ ReadyIsIndexed'
  <2>1. worker'.pc = "idle" /\ generation' = generation
    BY <1>11 DEF FinishIndexing, IdleWorker
  <2>2. /\ \A e \in Docs \ {d} : status'[e] = status[e]
        /\ status'[d] \in {"queued", "failed", "ready"}
        /\ status'[d] = "ready" => chunks[d] = AllChunks(generation[d])
    BY <1>2, <1>11 DEF FinishIndexing, MetadataMoved
  <2>3. \A j \in QueuedJobs' : j.operation = "index" => j \in QueuedJobs
    BY <1>11 DEF FinishIndexing, InsertJob, QueuedJobs
  <2>4. Unindexed'
    BY <1>11, <2>2, <2>3 DEF ChunkInv, Unindexed, Exists
  <2>5. WorkerInserts'
    BY <2>1 DEF WorkerInserts
  <2>6. ReadyIsIndexed'
    BY <1>11, <2>1, <2>2 DEF ChunkInv, ReadyIsIndexed
  <2> QED  BY <2>4, <2>5, <2>6
<1>12. CASE FinishIndexed(d)
  <2>1. FinishIndexing(d, FALSE) /\ chunks' = chunks /\ worker.pc = "finish"
    BY <1>2, <1>12 DEF FinishIndexed, WorkerAt
  <2>2. chunks[d] = AllChunks(worker.generation)
    BY <1>1, <2>1 DEF ChunkInv, WorkerInserts
  <2> QED  BY <1>11, <2>1, <2>2
<1>13. CASE FinishFailed(d)
  <2>1. FinishIndexing(d, worker.pc = "fail") /\ chunks' = chunks /\ worker.pc \in {"fail", "blank"}
    BY <1>2, <1>13 DEF FinishFailed, WorkerAt
  <2>2. worker.pc = "fail"
    BY <2>1 DEF ChunkInv, WorkerInserts
  <2> QED  BY <1>11, <2>1, <2>2
<1> QED  BY <1>6, <1>7, <1>8, <1>9, <1>10, <1>12, <1>13 DEF WorkerStep

\* A claimed job keeps its kind, and its document holds nothing if that is a first insert.
LEMMA ClaimChunks ==
  ASSUME ChunkInv, ClaimNextJob
  PROVE  Unindexed' /\ WorkerInserts' /\ ReadyIsIndexed'
<1>1. PICK j \in QueuedJobs :
        /\ jobs' = (jobs \ {j}) \cup {[j EXCEPT !.status = "running", !.attempts = @ + 1]}
        /\ worker' = [pc |-> "context", job |-> j.id, doc |-> j.doc,
                      operation |-> j.operation, generation |-> 0]
  BY DEF ClaimNextJob
<1> DEFINE claimed == [j EXCEPT !.status = "running", !.attempts = @ + 1]
<1>2. claimed.status = "running" /\ j.operation \in {"index", "reindex"}
  BY DEF QueuedJobs, ChunkInv, LifeInv, KeepInv, Inv, TypeInv, TypeOK, Job
<1> HIDE DEF claimed
<1>3. /\ jobs' = (jobs \ {j}) \cup {claimed} /\ UNCHANGED <<status, generation, chunks>>
      /\ worker'.pc = "context" /\ worker'.doc = j.doc /\ worker'.operation = j.operation
  BY <1>1 DEF ClaimNextJob, KeepOutside, documents, claimed
<1>4. Unindexed'
  BY <1>2, <1>3 DEF ChunkInv, Unindexed, QueuedJobs, Exists
<1>5. WorkerInserts'
  BY <1>2, <1>3 DEF ChunkInv, Unindexed, WorkerInserts
<1>6. ReadyIsIndexed'
  BY <1>3 DEF ChunkInv, ReadyIsIndexed
<1> QED  BY <1>4, <1>5, <1>6

\* A crash may leave some chunks behind, of the document whose job will be recovered.
LEMMA CrashChunks ==
  ASSUME ChunkInv, Crash
  PROVE  Unindexed' /\ WorkerInserts' /\ ReadyIsIndexed'
<1>1. UNCHANGED <<status, generation, jobs>> /\ worker'.pc = "idle"
  BY DEF Crash, manifest, documents, IdleWorker
<1>2. CASE UNCHANGED chunks
  <2>1. \A j \in QueuedJobs' : j.operation = "index" => chunks[j.doc] = NoChunks
    BY <1>1 DEF ChunkInv, Unindexed, QueuedJobs
  <2> QED  BY <1>1, <1>2, <2>1, QuietChunks DEF Exists
<1>3. ASSUME NEW d \in Docs, InterruptedCall(d)
      PROVE  Unindexed' /\ WorkerInserts' /\ ReadyIsIndexed'
  <2>1. worker.doc = d /\ worker.pc \in {"insert", "wipe"} /\ \A e \in Docs \ {d} : chunks'[e] = chunks[e]
    <3>1. \A t \in Threads : ~At(t, "purge", d)
      BY DEF ChunkInv, LifeInv, Uploading, At
    <3>2. chunks \in [Docs -> [generation : Generations, whole : BOOLEAN]]
      BY DEF ChunkInv, LifeInv, KeepInv, Inv, TypeInv, TypeOK
    <3> QED  BY <1>3, <3>1, <3>2 DEF InterruptedCall, BackendIndexFails, BackendDeleteFails
  <2>2. Exists(d) /\ HeldJob(d) # {}
    BY <2>1, HeldRow DEF ChunkInv, LifeInv
  <2>3. ActiveJobs(d) = HeldJob(d) /\ HeldJob(d) \cap QueuedJobs = {}
    BY <2>2 DEF ChunkInv, LifeInv, KeepInv, Inv, OneActiveJob, ActiveJobs, HeldJob, RunningJobs,
                QueuedJobs
  <2>4. status[d] \in {"queued", "indexing"} /\ \A j \in QueuedJobs : j.doc \in Docs \ {d}
    <3>1. \A j \in jobs : j.doc \in Docs
      BY DEF ChunkInv, LifeInv, KeepInv, Inv, TypeInv, TypeOK, Job
    <3> QED  BY <2>2, <2>3, <3>1 DEF ChunkInv, LifeInv, JobsShow, HeldJob, RunningJobs, QueuedJobs,
                                     ActiveJobs
  <2>5. Unindexed'
    BY <1>1, <2>1, <2>2, <2>4 DEF ChunkInv, Unindexed, QueuedJobs, Exists
  <2>6. ReadyIsIndexed'
    BY <1>1, <2>1, <2>4 DEF ChunkInv, ReadyIsIndexed
  <2>7. WorkerInserts'
    BY <1>1 DEF WorkerInserts
  <2> QED  BY <2>5, <2>6, <2>7
<1> QED  BY <1>2, <1>3 DEF Crash

\* A restart queues what ran as a reindex.
LEMMA StartChunks ==
  ASSUME ChunkInv, Start
  PROVE  Unindexed' /\ WorkerInserts' /\ ReadyIsIndexed'
<1>1. /\ jobs' = QueuedJobs \cup {Recovered(j) : j \in RunningJobs \ Exhausted}
      /\ status' = [d \in Docs |->
           IF \E j \in jobs' : j.doc = d THEN "queued"
           ELSE IF \E j \in Exhausted : j.doc = d THEN "failed"
           ELSE status[d]]
      /\ UNCHANGED <<generation, chunks, worker>>
  BY DEF Start, RecoverRunningJobs
<1>2. \A j \in RunningJobs : Recovered(j).operation = "reindex"
  BY DEF Recovered, RunningJobs, ChunkInv, LifeInv, KeepInv, Inv, TypeInv, TypeOK, Job
<1>3. \A j \in QueuedJobs' : j.operation = "index" => j \in QueuedJobs
  BY <1>1, <1>2 DEF QueuedJobs
<1>4. /\ \A e \in Docs : Exists(e) => status'[e] # "absent"
      /\ \A e \in Docs : status'[e] = "ready" => status[e] = "ready"
  BY <1>1 DEF Exists
<1> QED  BY <1>1, <1>3, <1>4, QuietChunks DEF ChunkInv, Unindexed

LEMMA ChunkStep ==
  ASSUME OnlyWrites, ErrorsHaveText, ChunkInv, [Next]_vars
  PROVE  ChunkInv'
<1> USE DEF manifest, documents, KeepProcess
<1>0. TypeInv /\ LifeInv /\ LifeInv'
  BY LifeStep DEF ChunkInv, LifeInv, KeepInv, Inv
<1>1. ASSUME UNCHANGED <<status, generation, jobs, chunks, worker>> PROVE ChunkInv'
  <2>1. \A j \in QueuedJobs' : j.operation = "index" => chunks[j.doc] = NoChunks
    BY <1>1 DEF ChunkInv, Unindexed, QueuedJobs
  <2> QED  BY <1>0, <1>1, <2>1, QuietChunks DEF ChunkInv, Exists
<1>2. ASSUME NEW c \in Collections, CreateCollection(c) \/ DeleteCollection(c) PROVE ChunkInv'
  BY <1>1, <1>2 DEF CreateCollection, DeleteCollection
<1>3. ASSUME NEW d \in Docs, UpdateDocument(d) PROVE ChunkInv'
  BY <1>0, <1>3, UpdateChunks DEF ChunkInv
<1>4. ASSUME NEW t \in Threads, NEW d \in Docs, Request(t, d) PROVE ChunkInv'
  <2>1. PICK payload \in Payloads : Upload(t, d, payload)
    BY <1>0, <1>4, RequestMoves DEF OnlyWrites
  <2> QED  BY <1>1, <2>1 DEF Upload, KeepRows
<1>5. ASSUME NEW t \in Threads, NEW d \in Docs, HandlerStep(t, d) PROVE ChunkInv'
  <2>1. worker' = worker
    BY <1>0, <1>5, WriterRows
  <2>2. chunks' = chunks
    BY <1>5 DEF HandlerStep, SaveOriginal, CreateUploaded, UndoSave, ReconcileUpload,
       CreateReconciled, ReadActiveForStart, SubmitJob, Requeue, ReadActiveForStop, CancelForStop,
       ReadActiveForDelete, CancelForDelete, DeleteChunks, UnlinkOriginal, DeleteRecord, KeepRows,
       At, ChunkInv, LifeInv, Uploading
  <2>3. CASE UNCHANGED <<status, generation, indexed, digest, jobs>>
    BY <1>1, <2>1, <2>2, <2>3
  <2>4. CASE CreateQueuedDocument(d, thread[t].payload)
    BY <1>0, <2>1, <2>2, <2>4, CreateChunks DEF ChunkInv
  <2> QED  BY <1>0, <1>5, <2>3, <2>4, WriterRows
<1>6. ASSUME NEW d \in Docs, RepairQueuedDocument(d) PROVE FALSE
  BY <1>0, <1>6 DEF RepairQueuedDocument, NeedsRepair, LifeInv, JobsShow
<1>7. ASSUME NEW d \in Docs, WorkerStep(d) PROVE ChunkInv'
  BY <1>0, <1>7, WorkerChunks DEF ChunkInv
<1>8. CASE ClaimNextJob \/ Crash \/ Start
  BY <1>0, <1>8, ClaimChunks, CrashChunks, StartChunks DEF ChunkInv
<1>9. CASE UNCHANGED vars
  BY <1>1, <1>9 DEF vars
<1> QED  BY <1>2, <1>3, <1>4, <1>5, <1>6, <1>7, <1>8, <1>9 DEF Next

LEMMA ChunksHold == ASSUME OnlyWrites, ErrorsHaveText PROVE Spec => []ChunkInv
<1>1. Init /\ LifeInv => ChunkInv
  BY DEF Init, ChunkInv, Unindexed, WorkerInserts, ReadyIsIndexed, QueuedJobs, Exists, IdleWorker
<1>2. ChunkInv /\ [Next]_vars => ChunkInv'
  BY ChunkStep
<1> QED  BY <1>1, <1>2, LifeHolds, PTL DEF Spec

\* As long as clients only upload and update, and every error of RAGLite has a text, a ready
\* document is in RAGLite completely, under its current metadata: no insert is ever skipped in
\* favour of what an earlier run, or one that failed or crashed, has left there.  (With an empty
\* error text a failed insert ends in ready.)
THEOREM ReadyIsSearchable ==
  ASSUME OnlyWrites, ErrorsHaveText PROVE Spec => []ReadyIsIndexed
<1>1. ChunkInv => ReadyIsIndexed
  BY DEF ChunkInv
<1> QED  BY <1>1, ChunksHold, PTL

-----------------------------------------------------------------------------
(* While nobody deletes, and clients repeat an upload only with the same   *)
(* file and once the last one has been answered: the originals.            *)

Uploads == {"save", "create", "undo", "reconcile", "recreate"}

UploadsOneByOne ==
  \A t, u \in Threads :
    /\ thread[t].pc \in Uploads /\ thread[u].pc \in Uploads
    /\ thread[t].doc = thread[u].doc
    => t = u

UploadsRepeat ==
  \A t \in Threads : thread[t].pc = "save" => original[thread[t].doc] \in {None, thread[t].payload}

Patiently == UploadsOneByOne /\ UploadsRepeat

UploadHolds(t) ==
  /\ thread[t].pc \in Uploads => thread[t].doc \in Docs /\ thread[t].payload \in Payloads
  /\ thread[t].pc \in {"create", "undo"} => ~Exists(thread[t].doc)
  /\ thread[t].pc \in {"create", "reconcile", "recreate"}
       => original[thread[t].doc] = thread[t].payload

RowsHaveOriginals == \A d \in Docs : Exists(d) => original[d] = digest[d] /\ digest[d] # None

\* The undo of a save is where an original could go from under a row: it may only be reached by
\* an upload that placed the original itself, while no row came in between.
OriginalInv == RowsHaveOriginals /\ \A t \in Threads : UploadHolds(t)

\* A step that leaves originals and rows alone, and takes up no upload.
LEMMA QuietUploads ==
  ASSUME OriginalInv, UNCHANGED <<original, digest>>, \A e \in Docs : Exists(e)' <=> Exists(e),
         \A u \in Threads : thread'[u] = thread[u] \/ thread'[u].pc \notin Uploads
  PROVE  OriginalInv'
<1>1. RowsHaveOriginals'
  BY DEF OriginalInv, RowsHaveOriginals
<1>2. ASSUME NEW u \in Threads PROVE UploadHolds(u)'
  <2>1. CASE thread'[u] = thread[u]
    BY <2>1 DEF OriginalInv, UploadHolds, Uploads
  <2>2. CASE thread'[u].pc \notin Uploads
    BY <2>2 DEF UploadHolds, Uploads
  <2> QED  BY <2>1, <2>2
<1> QED  BY <1>1, <1>2 DEF OriginalInv

\* A step of the only upload of its document: the others hold what they held.
LEMMA OneUpload ==
  ASSUME OriginalInv, UploadsOneByOne, NEW t \in Threads, NEW d \in Docs,
         thread[t].pc \in Uploads, thread[t].doc = d,
         \A u \in Threads \ {t} : thread'[u] = thread[u],
         \A e \in Docs \ {d} : original'[e] = original[e] /\ digest'[e] = digest[e]
                               /\ (Exists(e)' <=> Exists(e)),
         UploadHolds(t)', Exists(d)' => original'[d] = digest'[d] /\ digest'[d] # None
  PROVE  OriginalInv'
<1>1. RowsHaveOriginals'
  BY DEF OriginalInv, RowsHaveOriginals
<1>2. ASSUME NEW u \in Threads \ {t} PROVE UploadHolds(u)'
  <2>1. thread'[u] = thread[u]
    OBVIOUS
  <2>2. CASE thread[u].pc \in Uploads
    <3>1. thread[u].doc \in Docs \ {d}
      BY <2>2 DEF OriginalInv, UploadHolds, UploadsOneByOne
    <3> QED  BY <2>1, <3>1 DEF OriginalInv, UploadHolds
  <2>3. CASE thread[u].pc \notin Uploads
    BY <2>1, <2>3 DEF UploadHolds, Uploads
  <2> QED  BY <2>2, <2>3
<1> QED  BY <1>1, <1>2 DEF OriginalInv

\* The row comes where the original is what the upload holds.
LEMMA CreateOriginal ==
  ASSUME TypeInv, OriginalInv, UploadsOneByOne, NEW t \in Threads, NEW d \in Docs,
         thread[t].pc \in {"create", "recreate"}, thread[t].doc = d,
         CreateQueuedDocument(d, thread[t].payload), Return(t), original' = original
  PROVE  OriginalInv'
<1>1. /\ status \in [Docs -> {"absent", "queued", "indexing", "ready", "failed"}]
      /\ digest \in [Docs -> Payloads \cup {None}] /\ thread \in [Threads -> ThreadState]
      /\ None \notin Payloads
  BY ConstantsAssumption DEF TypeInv, TypeOK
<1>2. /\ status' = [status EXCEPT ![d] = "queued"] /\ digest' = [digest EXCEPT ![d] = thread[t].payload]
  BY DEF CreateQueuedDocument
<1>3. /\ thread'[t].pc = "idle" /\ \A u \in Threads \ {t} : thread'[u] = thread[u]
  BY <1>1 DEF Return, IdleThread
<1>4. thread[t].payload \in Payloads /\ original[d] = thread[t].payload
  BY DEF OriginalInv, UploadHolds, Uploads
<1>5. UploadHolds(t)'
  BY <1>3 DEF UploadHolds, Uploads
<1>6. thread[t].pc \in Uploads
  BY DEF Uploads
<1>7. \A e \in Docs \ {d} : original'[e] = original[e] /\ digest'[e] = digest[e]
                            /\ (Exists(e)' <=> Exists(e))
  BY <1>1, <1>2 DEF Exists
<1>8. original'[d] = digest'[d] /\ digest'[d] # None
  BY <1>1, <1>2, <1>4
<1> QED  BY <1>3, <1>5, <1>6, <1>7, <1>8, OneUpload

\* A step of an upload that leaves originals and rows alone, and knows what it goes on with.
LEMMA GoOnUploading ==
  ASSUME TypeInv, OriginalInv, UploadsOneByOne, NEW t \in Threads, NEW d \in Docs,
         thread[t].pc \in Uploads, thread[t].doc = d, NEW pc \in Uploads, Goto(t, pc),
         UNCHANGED <<original, status, digest>>,
         pc \in {"create", "undo"} => ~Exists(d),
         pc \in {"create", "reconcile", "recreate"} => original[d] = thread[t].payload
  PROVE  OriginalInv'
<1>1. thread \in [Threads -> ThreadState]
  BY DEF TypeInv, TypeOK
<1>2. /\ thread'[t].pc = pc /\ thread'[t].doc = d /\ thread'[t].payload = thread[t].payload
      /\ \A u \in Threads \ {t} : thread'[u] = thread[u]
  BY <1>1 DEF Goto, ThreadState
<1>3. thread[t].payload \in Payloads
  BY DEF OriginalInv, UploadHolds
<1>4. UploadHolds(t)'
  BY <1>2, <1>3 DEF UploadHolds, Exists
<1>5. /\ Exists(d)' => original'[d] = digest'[d] /\ digest'[d] # None
      /\ \A e \in Docs \ {d} : original'[e] = original[e] /\ digest'[e] = digest[e]
                               /\ (Exists(e)' <=> Exists(e))
  BY DEF OriginalInv, RowsHaveOriginals, Exists
<1> QED  BY <1>2, <1>4, <1>5, OneUpload

\* The calls of an upload.
LEMMA UploadOriginal ==
  ASSUME TypeInv, OriginalInv, Patiently, NEW t \in Threads, NEW d \in Docs,
         \/ SaveOriginal(t, d) \/ CreateUploaded(t, d) \/ UndoSave(t, d)
         \/ ReconcileUpload(t, d) \/ CreateReconciled(t, d)
  PROVE  OriginalInv'
<1> USE DEF KeepRows, KeepProcess, manifest, documents
<1>1. /\ original \in [Docs -> Payloads \cup {None}] /\ thread \in [Threads -> ThreadState]
      /\ None \notin Payloads /\ UploadsOneByOne
  BY ConstantsAssumption DEF TypeInv, TypeOK, Patiently
<1>2. /\ thread[t].doc = d /\ thread[t].pc \in Uploads /\ thread[t].payload \in Payloads
  BY DEF SaveOriginal, CreateUploaded, UndoSave, ReconcileUpload, CreateReconciled, At, Uploads,
         OriginalInv, UploadHolds
<1>3. ASSUME Return(t), UNCHANGED <<original, status, digest>> PROVE OriginalInv'
  <2>1. \A u \in Threads : thread'[u] = thread[u] \/ thread'[u].pc \notin Uploads
    BY <1>1, <1>3 DEF Return, IdleThread, Uploads
  <2> QED  BY <1>3, <2>1, QuietUploads DEF Exists
<1>4. CASE SaveOriginal(t, d)
  <2>1. CASE original[d] = None /\ original' = [original EXCEPT ![d] = thread[t].payload] /\ Goto(t, "create")
    <3>1. /\ ~Exists(d) /\ UNCHANGED <<status, digest>>
      BY <1>4, <2>1 DEF SaveOriginal, OriginalInv, RowsHaveOriginals
    <3>2. /\ thread'[t].pc = "create" /\ thread'[t].doc = d /\ thread'[t].payload = thread[t].payload
          /\ \A u \in Threads \ {t} : thread'[u] = thread[u]
      BY <1>1, <1>2, <2>1 DEF Goto, ThreadState
    <3>3. original'[d] = thread[t].payload /\ \A e \in Docs \ {d} : original'[e] = original[e]
      BY <1>1, <2>1
    <3>4. UploadHolds(t)'
      BY <1>2, <3>1, <3>2, <3>3 DEF UploadHolds, Uploads, Exists
    <3> QED  BY <1>1, <1>2, <3>1, <3>2, <3>3, <3>4, OneUpload DEF Exists
  <2>4. CASE original[d] = None /\ original' = [original EXCEPT ![d] = thread[t].payload] /\ Return(t)
    <3>1. /\ ~Exists(d) /\ UNCHANGED <<status, digest>>
      BY <1>4, <2>4 DEF SaveOriginal, OriginalInv, RowsHaveOriginals
    <3>2. /\ thread'[t].pc = "idle" /\ \A u \in Threads \ {t} : thread'[u] = thread[u]
      BY <1>1, <2>4 DEF Return, IdleThread
    <3>3. \A e \in Docs \ {d} : original'[e] = original[e]
      BY <1>1, <2>4
    <3>4. UploadHolds(t)'
      BY <3>2 DEF UploadHolds, Uploads
    <3> QED  BY <1>1, <1>2, <3>1, <3>2, <3>3, <3>4, OneUpload DEF Exists
  <2>2. CASE original[d] # None /\ Goto(t, "reconcile") /\ UNCHANGED original
    <3>1. thread[t].pc = "save"
      BY <1>4 DEF SaveOriginal, At
    <3>2. original[d] = thread[t].payload
      BY <1>2, <2>2, <3>1 DEF Patiently, UploadsRepeat
    <3> QED  BY <1>1, <1>2, <1>4, <2>2, <3>2, GoOnUploading DEF SaveOriginal, Uploads
  <2>3. CASE Return(t) /\ UNCHANGED original
    BY <1>3, <1>4, <2>3 DEF SaveOriginal
  <2> QED  BY <1>4, <2>1, <2>2, <2>3, <2>4 DEF SaveOriginal
<1>5. CASE CreateUploaded(t, d)
  <2>1. thread[t].pc = "create" /\ ~Exists(d)
    BY <1>2, <1>5 DEF CreateUploaded, At, OriginalInv, UploadHolds
  <2>2. CASE CreateQueuedDocument(d, thread[t].payload) /\ Return(t)
    BY <1>1, <1>2, <1>5, <2>1, <2>2, CreateOriginal DEF CreateUploaded
  <2>3. CASE Goto(t, "undo") /\ UNCHANGED manifest
    BY <1>1, <1>2, <1>5, <2>1, <2>3, GoOnUploading DEF CreateUploaded, Uploads
  <2> QED  BY <1>5, <2>2, <2>3 DEF CreateUploaded
<1>6. CASE UndoSave(t, d)
  <2>1. thread[t].pc = "undo" /\ ~Exists(d) /\ UNCHANGED <<status, digest>>
    BY <1>2, <1>6 DEF UndoSave, At, OriginalInv, UploadHolds
  <2>2. \A e \in Docs \ {d} : original'[e] = original[e]
    BY <1>1, <1>6 DEF UndoSave
  <2>3. thread'[t].pc = "idle" /\ \A u \in Threads \ {t} : thread'[u] = thread[u]
    BY <1>1, <1>6 DEF UndoSave, Return, IdleThread
  <2>4. UploadHolds(t)'
    BY <2>3 DEF UploadHolds, Uploads
  <2> QED  BY <1>1, <1>2, <2>1, <2>2, <2>3, <2>4, OneUpload DEF Exists
<1>7. CASE ReconcileUpload(t, d)
  <2>1. thread[t].pc = "reconcile" /\ original[d] = thread[t].payload
    BY <1>2, <1>7 DEF ReconcileUpload, At, OriginalInv, UploadHolds
  <2>2. CASE Return(t)
    BY <1>3, <1>7, <2>2 DEF ReconcileUpload
  <2>3. CASE Goto(t, "recreate")
    BY <1>1, <1>2, <1>7, <2>1, <2>3, GoOnUploading DEF ReconcileUpload, Uploads
  <2> QED  BY <1>7, <2>2, <2>3 DEF ReconcileUpload
<1>8. CASE CreateReconciled(t, d)
  <2>1. CASE CreateQueuedDocument(d, thread[t].payload)
    BY <1>1, <1>2, <1>8, <2>1, CreateOriginal DEF CreateReconciled, At
  <2>2. CASE UNCHANGED manifest
    BY <1>3, <1>8, <2>2 DEF CreateReconciled
  <2> QED  BY <1>8, <2>1, <2>2 DEF CreateReconciled
<1> QED  BY <1>4, <1>5, <1>6, <1>7, <1>8

\* The other handlers, as far as they delete nothing.
LEMMA HandlerOriginal ==
  ASSUME TypeInv, OriginalInv, NEW t \in Threads, NEW d \in Docs, thread[t].pc \in Keeping,
         \/ ReadActiveForStart(t, d) \/ SubmitJob(t, d) \/ Requeue(t, d)
         \/ ReadActiveForStop(t, d) \/ CancelForStop(t, d)
         \/ ReadActiveForDelete(t, d) \/ CancelForDelete(t, d) \/ DeleteChunks(t, d)
         \/ UnlinkOriginal(t, d) \/ DeleteRecord(t, d)
  PROVE  OriginalInv'
<1> USE DEF KeepRows, KeepProcess, manifest, documents
<1>1. thread \in [Threads -> ThreadState]
      /\ status \in [Docs -> {"absent", "queued", "indexing", "ready", "failed"}]
  BY DEF TypeInv, TypeOK
<1>2. /\ ~ReadActiveForDelete(t, d) /\ ~CancelForDelete(t, d) /\ ~DeleteChunks(t, d)
      /\ ~UnlinkOriginal(t, d) /\ ~DeleteRecord(t, d)
  BY DEF ReadActiveForDelete, CancelForDelete, DeleteChunks, UnlinkOriginal, DeleteRecord, At, Keeping
<1>3. Return(t) \/ \E pc \in {"submit", "requeue", "cancel"} : Goto(t, pc)
  BY <1>2 DEF ReadActiveForStart, SubmitJob, Requeue, ReadActiveForStop, CancelForStop
<1>4. \A u \in Threads : thread'[u] = thread[u] \/ thread'[u].pc \notin Uploads
  <2>1. CASE Return(t)
    BY <1>1, <2>1 DEF Return, IdleThread, Uploads
  <2>2. ASSUME NEW pc \in {"submit", "requeue", "cancel"}, Goto(t, pc)
        PROVE  \A u \in Threads : thread'[u] = thread[u] \/ thread'[u].pc \notin Uploads
    BY <1>1, <2>2 DEF Goto, ThreadState, Uploads
  <2> QED  BY <1>3, <2>1, <2>2
<1>5. UNCHANGED <<original, digest>> /\ \A e \in Docs : Exists(e)' <=> Exists(e)
  BY <1>1, <1>2 DEF ReadActiveForStart, SubmitJob, Requeue, ReadActiveForStop, CancelForStop,
                    SetDocumentStatus, Exists
<1> QED  BY <1>4, <1>5, QuietUploads

\* A request: only an upload takes up an upload.
LEMMA RequestOriginal ==
  ASSUME TypeInv, OriginalInv, NEW t \in Threads, NEW d \in Docs, Request(t, d)
  PROVE  OriginalInv'
<1> USE DEF KeepRows, KeepProcess, manifest, documents
<1>1. thread \in [Threads -> ThreadState] /\ UNCHANGED <<original, status, digest>>
  BY DEF TypeInv, TypeOK, Request, Upload, RetryIndexing, StartIndexing, StopIndexing, DeleteDocument
<1>2. ASSUME NEW state, thread' = [thread EXCEPT ![t] = state], state.pc \notin Uploads
      PROVE  OriginalInv'
  BY <1>1, <1>2, QuietUploads DEF Exists
<1>3. ASSUME NEW payload \in Payloads, Upload(t, d, payload) PROVE OriginalInv'
  <2> DEFINE state == [Handling("save", d) EXCEPT !.payload = payload]
  <2>1. state.pc = "save" /\ state.doc = d /\ state.payload = payload
    BY DEF Handling
  <2> HIDE DEF state
  <2>2. thread'[t] = state /\ \A u \in Threads \ {t} : thread'[u] = thread[u]
    BY <1>1, <1>3 DEF Upload, Begin, state
  <2>3. UploadHolds(t)'
    BY <2>1, <2>2 DEF UploadHolds
  <2>4. ASSUME NEW u \in Threads \ {t} PROVE UploadHolds(u)'
    BY <1>1, <2>2 DEF OriginalInv, UploadHolds, Exists
  <2>5. RowsHaveOriginals'
    BY <1>1 DEF OriginalInv, RowsHaveOriginals, Exists
  <2> QED  BY <2>3, <2>4, <2>5 DEF OriginalInv
<1>4. CASE RetryIndexing(t, d)
  <2>1. [Handling("submit", d) EXCEPT !.operation = "reindex"].pc \notin Uploads
    BY DEF Handling, Uploads
  <2> QED  BY <1>2, <1>4, <2>1 DEF RetryIndexing, Begin
<1>5. CASE StartIndexing(t, d)
  <2> DEFINE op == IF status[d] \in {"ready", "failed"} THEN "reindex" ELSE "index"
  <2>1. [Handling("start", d) EXCEPT !.operation = op].pc \notin Uploads
    BY DEF Handling, Uploads
  <2> QED  BY <1>2, <1>5, <2>1 DEF StartIndexing, Begin
<1>6. CASE StopIndexing(t, d) \/ DeleteDocument(t, d)
  <2>1. Handling("stop", d).pc \notin Uploads /\ Handling("delete", d).pc \notin Uploads
    BY DEF Handling, Uploads
  <2> QED  BY <1>2, <1>6, <2>1 DEF StopIndexing, DeleteDocument, Begin
<1> QED  BY <1>3, <1>4, <1>5, <1>6 DEF Request

\* What is not a handler: rows and originals stay, whatever becomes of the status.
LEMMA ServiceOriginal ==
  ASSUME Inv, OriginalInv,
         \/ \E d \in Docs : UpdateDocument(d) \/ RepairQueuedDocument(d) \/ WorkerStep(d)
         \/ ClaimNextJob \/ Crash \/ Start
  PROVE  OriginalInv'
<1> USE DEF KeepProcess, KeepOutside, manifest, documents
<1>1. /\ status \in [Docs -> {"absent", "queued", "indexing", "ready", "failed"}]
      /\ \A j \in jobs : j.doc \in Docs /\ Exists(j.doc)
  BY DEF Inv, TypeInv, TypeOK, Job, JobHasDocument
<1>2. ASSUME UNCHANGED <<original, digest, thread>>, \A e \in Docs : Exists(e)' <=> Exists(e)
      PROVE  OriginalInv'
  BY <1>2, QuietUploads
<1>3. ASSUME NEW d \in Docs, UpdateDocument(d) \/ RepairQueuedDocument(d) PROVE OriginalInv'
  BY <1>1, <1>2, <1>3 DEF UpdateDocument, RepairQueuedDocument, Exists
<1>4. ASSUME NEW d \in Docs, WorkerStep(d) PROVE OriginalInv'
  <2>1. UNCHANGED <<original, digest, thread>>
    BY <1>4 DEF WorkerStep, ReadIndexingContext, MarkIndexing, WipeChunks, InsertChunks, VerifyChunks,
                FinishIndexed, FinishFailed, FinishIndexing, SetDocumentStatus
  <2>2. ASSUME NEW error, FinishIndexing(d, error) PROVE \A e \in Docs : Exists(e)' <=> Exists(e)
    BY <1>1, <2>2 DEF FinishIndexing, FinishRaises, Exists
  <2>3. \A e \in Docs : Exists(e)' <=> Exists(e)
    BY <1>1, <1>4, <2>2 DEF WorkerStep, ReadIndexingContext, MarkIndexing, WipeChunks, InsertChunks,
       VerifyChunks, FinishIndexed, FinishFailed, SetDocumentStatus, Exists
  <2> QED  BY <1>2, <2>1, <2>3
<1>5. CASE ClaimNextJob
  BY <1>2, <1>5 DEF ClaimNextJob, Exists
<1>6. CASE Crash
  <2>1. \A u \in Threads : thread'[u].pc \notin Uploads
    BY <1>6 DEF Crash, IdleThread, Uploads
  <2> QED  BY <1>6, <2>1, QuietUploads DEF Crash, Exists
<1>7. CASE Start
  <2>1. \A j \in jobs' : \E k \in jobs : k.doc = j.doc
    <3>1. \A j \in RunningJobs : j \in jobs /\ Recovered(j).doc = j.doc
      BY DEF Recovered, RunningJobs, Inv, TypeInv, TypeOK, Job
    <3>2. jobs' = QueuedJobs \cup {Recovered(j) : j \in RunningJobs \ Exhausted}
      BY <1>7 DEF Start, RecoverRunningJobs
    <3> QED  BY <3>1, <3>2 DEF QueuedJobs
  <2>2. \A j \in Exhausted : j \in jobs
    BY DEF Exhausted, RunningJobs
  <2>3. \A e \in Docs : Exists(e)' <=> Exists(e)
    BY <1>1, <1>7, <2>1, <2>2 DEF Start, RecoverRunningJobs, Exists
  <2> QED  BY <1>2, <1>7, <2>3 DEF Start, RecoverRunningJobs
<1> QED  BY <1>3, <1>4, <1>5, <1>6, <1>7

LEMMA OriginalStep ==
  ASSUME KeepInv, OriginalInv, Patiently, [Next]_vars
  PROVE  OriginalInv'
<1>1. Inv /\ TypeInv
  BY DEF KeepInv, Inv
<1>2. ASSUME NEW c \in Collections, CreateCollection(c) \/ DeleteCollection(c) PROVE OriginalInv'
  BY <1>2, QuietUploads DEF CreateCollection, DeleteCollection, documents, Exists
<1>3. ASSUME NEW t \in Threads, NEW d \in Docs, HandlerStep(t, d) PROVE OriginalInv'
  <2>1. thread[t].pc \in Keeping
    BY DEF KeepInv
  <2> QED  BY <1>1, <1>3, <2>1, UploadOriginal, HandlerOriginal DEF HandlerStep
<1>4. CASE UNCHANGED vars
  BY <1>4, QuietUploads DEF vars, Exists
<1> QED  BY <1>1, <1>2, <1>3, <1>4, RequestOriginal, ServiceOriginal DEF Next

\* As long as nobody deletes, and clients repeat an upload only with the same file and once the last
\* one has been answered, a document has the original whose digest it shows: whatever updates,
\* retries, failures and crashes come in between, no undo takes an original from a row, and no
\* repetition records a file that is not the one on disk.  (Two deliveries of one upload at once
\* may leave a row without its original.)
THEOREM OriginalsMatch ==
  ASSUME NoDeletes PROVE Spec /\ []Patiently => []OriginalMatchesDigest
<1>1. Init => OriginalInv
  BY DEF Init, OriginalInv, RowsHaveOriginals, UploadHolds, Uploads, IdleThread, Exists
<1>2. KeepInv /\ OriginalInv /\ Patiently /\ [Next]_vars => OriginalInv'
  BY OriginalStep
<1>3. OriginalInv => OriginalMatchesDigest
  BY DEF OriginalInv, RowsHaveOriginals, OriginalMatchesDigest
<1> QED  BY <1>1, <1>2, <1>3, KeepHolds, PTL DEF Spec

=============================================================================
