--------------------------- MODULE KnowledgeIndex ---------------------------
(***************************************************************************)
(* The document side of the RAGLite knowledge provider: the service and    *)
(* its indexing worker (service.py), the SQLite manifest (repository.py)   *)
(* and the store of uploaded originals (original_store.py).                *)
(*                                                                         *)
(* FastAPI runs every synchronous handler on a thread of its own, so       *)
(* several handlers run at once, beside one worker thread.  A repository   *)
(* method is atomic (the process lock and one SQLite transaction); a       *)
(* service method calls several of them, and everything else may happen    *)
(* between two calls.  An action below is one such call.  The process may  *)
(* stop between any two calls; what the manifest, the originals and the    *)
(* RAGLite database hold then survives, and everything else is lost.       *)
(*                                                                         *)
(* RAGLite itself is external: it is modelled by what the service relies   *)
(* on, including that an insert of a document it already has is skipped    *)
(* and that an insert or a delete that is cut short may leave part of the  *)
(* document's chunks behind.                                               *)
(*                                                                         *)
(* Left out: the search itself, scopes and folders, names and tags (a      *)
(* metadata generation stands for what the service and tags columns hold   *)
(* at that generation), and uploads of one document under two file names.  *)
(*                                                                         *)
(* A definition whose comment begins with "Fault" is no part of the model: *)
(* it is what a definition below it would be with a bug in the code, and   *)
(* shows that a property notices.                                          *)
(***************************************************************************)
EXTENDS Naturals, FiniteSets

CONSTANTS
  Docs,                 \* document ids, derived by the Control Plane
  Collections,          \* collection ids
  CollectionOf,         \* the collection a document id was derived from
  Payloads,             \* what an uploaded file may hold
  Threads,              \* handler threads
  Operations,           \* the operations the clients of this instance call
  BackendErrors,        \* "fail": RAGLite's errors have a text; "blank": one may have none
  MaxRecoveryAttempts,  \* _MAX_RECOVERY_ATTEMPTS of repository.py
  MaxJobs,              \* bound: how far job ids run before the queue drains
  MaxGeneration,        \* bound: metadata updates of one document
  MaxCrashes,           \* bound: process crashes
  None                  \* no document, no file

JobIds == 1 .. MaxJobs
Generations == 0 .. MaxGeneration

ASSUME ConstantsAssumption ==
  /\ CollectionOf \in [Docs -> Collections]
  /\ None \notin Docs
  /\ None \notin Payloads
  /\ BackendErrors \in SUBSET {"fail", "blank"}
  /\ MaxRecoveryAttempts \in Nat \ {0}
  /\ MaxJobs \in Nat
  /\ MaxGeneration \in Nat \ {0}
  /\ MaxCrashes \in Nat

VARIABLES
  collections,   \* rows of the collections table
  status,        \* documents.status, "absent" where there is no row
  generation,    \* documents.metadata_generation
  indexed,       \* documents.indexed_generation
  digest,        \* documents.sha256, as the payload it is the digest of
  jobs,          \* the active rows of the jobs table: a finished row is never read again
  original,      \* the file under originals/, None where there is none
  chunks,        \* what RAGLite holds of a document
  thread,        \* the handler threads
  worker,        \* the thread "raglite-writer"
  running,       \* whether the process serves requests
  crashes        \* how often it stopped

documents == <<status, generation, indexed, digest>>
manifest == <<collections, documents, jobs>>
vars == <<collections, status, generation, indexed, digest, jobs, original,
          chunks, thread, worker, running, crashes>>

-----------------------------------------------------------------------------
(* Rows, threads and chunks.                                               *)

Job == [id : JobIds, doc : Docs, operation : {"index", "reindex"},
        status : {"queued", "running"}, attempts : 0 .. MaxRecoveryAttempts]

ThreadPC ==
  {"idle", "save", "create", "undo", "reconcile", "recreate",
   "start", "submit", "requeue", "stop", "cancel",
   "delete", "withdraw", "purge", "unlink", "erase"}

ThreadState == [pc : ThreadPC, doc : Docs \cup {None}, payload : Payloads \cup {None},
                operation : {"index", "reindex", None}]

\* "fail" and "blank": an exception was caught, and str() of it is a text or is empty.
WorkerPC == {"idle", "context", "mark", "wipe", "insert", "verify", "finish", "fail", "blank", "dead"}

WorkerState == [pc : WorkerPC, job : 0 .. MaxJobs, doc : Docs \cup {None},
                operation : {"index", "reindex", None}, generation : Generations]

IdleThread == [pc |-> "idle", doc |-> None, payload |-> None, operation |-> None]
IdleWorker == [pc |-> "idle", job |-> 0, doc |-> None, operation |-> None, generation |-> 0]
DeadWorker == [IdleWorker EXCEPT !.pc = "dead"]

\* The chunks of a document carry the metadata it had when they were inserted.
NoChunks == [generation |-> 0, whole |-> FALSE]
AllChunks(g) == [generation |-> g, whole |-> TRUE]
SomeChunks(g) == [generation |-> g, whole |-> FALSE]

Exists(d) == status[d] # "absent"
ActiveJobs(d) == {j \in jobs : j.doc = d}
QueuedJobs == {j \in jobs : j.status = "queued"}
RunningJobs == {j \in jobs : j.status = "running"}

-----------------------------------------------------------------------------
(* RAGLite, as backend.py uses it.                                         *)

BackendDelete(d) == chunks' = [chunks EXCEPT ![d] = NoChunks]

\* A delete that raises or is cut short may have removed some of the chunks.
BackendDeleteFails(d) ==
  \/ UNCHANGED chunks
  \/ chunks[d] # NoChunks /\ chunks' = [chunks EXCEPT ![d] = SomeChunks(@.generation)]

\* An insert skips a document that is there already; an empty text yields no chunk.
BackendIndex(d) ==
  \/ chunks[d] = NoChunks /\ chunks' = [chunks EXCEPT ![d] = AllChunks(worker.generation)]
  \/ UNCHANGED chunks

\* An insert that raises or is cut short may have stored some of the chunks.
BackendIndexFails(d) ==
  \/ UNCHANGED chunks
  \/ chunks[d] = NoChunks /\ chunks' = [chunks EXCEPT ![d] = SomeChunks(worker.generation)]

-----------------------------------------------------------------------------
(* Calls of the repository.                                                *)

\* A row's id is a fresh uuid and its creation time orders it behind every other
\* active row: the least number above every id in use stands for both.
Fresh(id) ==
  /\ worker.job < id
  /\ \A j \in jobs : j.id < id
  /\ id = 1 \/ worker.job = id - 1 \/ \E j \in jobs : j.id = id - 1

\* The active rows once a job for d is queued beside `others`.
InsertJob(d, op, others) ==
  \E id \in JobIds :
    /\ Fresh(id)
    /\ jobs' = others \cup {[id |-> id, doc |-> d, operation |-> op,
                             status |-> "queued", attempts |-> 0]}

\* create_queued_document: the row and its first job, in one transaction.
CanCreateDocument(d) == CollectionOf[d] \in collections /\ ~Exists(d)

CreateQueuedDocument(d, payload) ==
  /\ CanCreateDocument(d)
  /\ status' = [status EXCEPT ![d] = "queued"]
  /\ generation' = [generation EXCEPT ![d] = 1]
  /\ indexed' = [indexed EXCEPT ![d] = 0]
  /\ digest' = [digest EXCEPT ![d] = payload]
  /\ InsertJob(d, "index", jobs)
  /\ UNCHANGED collections

\* set_document_status: whatever the row says, if there is one.
SetDocumentStatus(d, s) ==
  /\ status' = IF Exists(d) THEN [status EXCEPT ![d] = s] ELSE status
  /\ UNCHANGED <<generation, indexed, digest>>

\* get_active_job returns the newest active row.
NewestJobIs(d, s) ==
  \E j \in ActiveJobs(d) : j.status = s /\ \A k \in ActiveJobs(d) : k.id <= j.id

\* cancel_queued_job: the queued rows of a document leave the table of active rows.
CancelQueuedJob(d) == jobs' = jobs \ (ActiveJobs(d) \cap QueuedJobs)

-----------------------------------------------------------------------------
(* Request handlers.  A handler thread is idle between two requests.       *)

At(t, pc, d) == running /\ thread[t].pc = pc /\ thread[t].doc = d
Goto(t, pc) == thread' = [thread EXCEPT ![t].pc = pc]
Return(t) == thread' = [thread EXCEPT ![t] = IdleThread]

Handling(pc, d) == [pc |-> pc, doc |-> d, payload |-> None, operation |-> None]

\* A request arrives whose first read lets it past: the thread works on from there.
Begin(t, op, state) ==
  /\ running
  /\ op \in Operations
  /\ thread[t] = IdleThread
  /\ thread' = [thread EXCEPT ![t] = state]

KeepRows == UNCHANGED <<manifest, original, chunks>>
KeepProcess == UNCHANGED <<worker, running, crashes>>

\* create_collection and delete_collection are one repository call each.  Deleting is
\* refused by the foreign key of documents while a row refers to the collection.
CreateCollection(c) ==
  /\ running /\ "collections" \in Operations
  /\ collections' = collections \cup {c}
  /\ UNCHANGED <<documents, jobs, original, chunks, thread>> /\ KeepProcess

DeleteCollection(c) ==
  /\ running /\ "collections" \in Operations
  /\ \A d \in Docs : CollectionOf[d] = c => ~Exists(d)
  /\ collections' = collections \ {c}
  /\ UNCHANGED <<documents, jobs, original, chunks, thread>> /\ KeepProcess

(***************************************************************************)
(* upload_document.  The original is renamed into place first; then the    *)
(* row and its job are created, and if that fails the original is removed. *)
(* Where the original is there already, the upload is a repetition: the    *)
(* row is looked up, and created without an undo when it is missing.       *)
(***************************************************************************)
Upload(t, d, payload) ==
  /\ CollectionOf[d] \in collections
  /\ Begin(t, "upload", [Handling("save", d) EXCEPT !.payload = payload])
  /\ KeepRows /\ KeepProcess

\* Fault: an original that is there already is taken for the one just saved.
SaveTrustingly(t, d) ==
  /\ At(t, "save", d)
  /\ original' = IF original[d] = None THEN [original EXCEPT ![d] = thread[t].payload]
                 ELSE original
  /\ Goto(t, "create")
  /\ UNCHANGED <<manifest, chunks>> /\ KeepProcess

\* The save is refused when the file is too large, or fails where the disk does.  The tags are
\* looked at once the file is in place, and outside the try that would take it away again.
SaveOriginal(t, d) ==
  /\ At(t, "save", d)
  /\ \/ /\ original[d] = None
        /\ original' = [original EXCEPT ![d] = thread[t].payload]
        /\ Goto(t, "create") \/ Return(t)
     \/ /\ original[d] # None
        /\ Goto(t, "reconcile")
        /\ UNCHANGED original
     \/ Return(t) /\ UNCHANGED original
  /\ UNCHANGED <<manifest, chunks>> /\ KeepProcess

CreateUploaded(t, d) ==
  /\ At(t, "create", d)
  /\ \/ CreateQueuedDocument(d, thread[t].payload) /\ Return(t)
     \/ ~CanCreateDocument(d) /\ Goto(t, "undo") /\ UNCHANGED manifest
  /\ UNCHANGED <<original, chunks>> /\ KeepProcess

UndoSave(t, d) ==
  /\ At(t, "undo", d)
  /\ original' = [original EXCEPT ![d] = None]
  /\ Return(t)
  /\ UNCHANGED <<manifest, chunks>> /\ KeepProcess

ReconcileUpload(t, d) ==
  /\ At(t, "reconcile", d)
  /\ IF Exists(d) THEN Return(t) ELSE Goto(t, "recreate")
  /\ KeepRows /\ KeepProcess

CreateReconciled(t, d) ==
  /\ At(t, "recreate", d)
  /\ Return(t)
  /\ \/ CreateQueuedDocument(d, thread[t].payload)
     \/ ~CanCreateDocument(d) /\ UNCHANGED manifest
  /\ UNCHANGED <<original, chunks>> /\ KeepProcess

\* Fault: the row is marked queued, and no job is.
UpdateQuietly(d) ==
  /\ running /\ "update" \in Operations
  /\ Exists(d) /\ generation[d] < MaxGeneration
  /\ status' = [status EXCEPT ![d] = "queued"]
  /\ generation' = [generation EXCEPT ![d] = @ + 1]
  /\ UNCHANGED <<collections, indexed, digest, jobs, original, chunks, thread>> /\ KeepProcess

\* Fault: the update puts a job of its own in the place of the active one.
UpdateReplacingJob(d) ==
  /\ running /\ "update" \in Operations
  /\ Exists(d) /\ generation[d] < MaxGeneration
  /\ status' = [status EXCEPT ![d] = "queued"]
  /\ generation' = [generation EXCEPT ![d] = @ + 1]
  /\ InsertJob(d, "reindex", jobs \ ActiveJobs(d))
  /\ UNCHANGED <<collections, indexed, digest, original, chunks, thread>> /\ KeepProcess

(***************************************************************************)
(* update_document: one transaction marks the row queued at its next       *)
(* generation and queues a reindex unless a job is active already.         *)
(***************************************************************************)
UpdateDocument(d) ==
  /\ running /\ "update" \in Operations
  /\ Exists(d) /\ generation[d] < MaxGeneration
  /\ status' = [status EXCEPT ![d] = "queued"]
  /\ generation' = [generation EXCEPT ![d] = @ + 1]
  /\ IF ActiveJobs(d) = {} THEN InsertJob(d, "reindex", jobs) ELSE UNCHANGED jobs
  /\ UNCHANGED <<collections, indexed, digest, original, chunks, thread>> /\ KeepProcess

\* Fault: the handler does not say what kind of job it queues.
RetryUnspecified(t, d) ==
  /\ status[d] = "failed"
  /\ Begin(t, "retry", Handling("submit", d))
  /\ KeepRows /\ KeepProcess

(***************************************************************************)
(* retry_indexing and start_indexing queue a job and then, in a call of    *)
(* their own, mark the row queued; what kind of job start_indexing queues  *)
(* is settled by the status it read first.                                 *)
(***************************************************************************)
RetryIndexing(t, d) ==
  /\ status[d] = "failed"
  /\ Begin(t, "retry", [Handling("submit", d) EXCEPT !.operation = "reindex"])
  /\ KeepRows /\ KeepProcess

StartIndexing(t, d) ==
  /\ Exists(d)
  /\ LET op == IF status[d] \in {"ready", "failed"} THEN "reindex" ELSE "index"
     IN  Begin(t, "start", [Handling("start", d) EXCEPT !.operation = op])
  /\ KeepRows /\ KeepProcess

ReadActiveForStart(t, d) ==
  /\ At(t, "start", d)
  /\ IF ActiveJobs(d) = {} THEN Goto(t, "submit") ELSE Return(t)
  /\ KeepRows /\ KeepProcess

\* Fault: only a queued job counts as active.
SubmitBesideRunning(t, d) ==
  /\ At(t, "submit", d)
  /\ IF ActiveJobs(d) \cap QueuedJobs = {} /\ Exists(d)
       THEN InsertJob(d, thread[t].operation, jobs) /\ Goto(t, "requeue")
       ELSE Return(t) /\ UNCHANGED jobs
  /\ UNCHANGED <<collections, documents, original, chunks>> /\ KeepProcess

\* create_job: refused while a job of the document is active, or when the row is gone.
SubmitJob(t, d) ==
  /\ At(t, "submit", d)
  /\ IF ActiveJobs(d) = {} /\ Exists(d)
       THEN InsertJob(d, thread[t].operation, jobs) /\ Goto(t, "requeue")
       ELSE Return(t) /\ UNCHANGED jobs
  /\ UNCHANGED <<collections, documents, original, chunks>> /\ KeepProcess

Requeue(t, d) ==
  /\ At(t, "requeue", d)
  /\ SetDocumentStatus(d, "queued")
  /\ Return(t)
  /\ UNCHANGED <<collections, jobs, original, chunks>> /\ KeepProcess

(***************************************************************************)
(* stop_indexing cancels a job that has not started and marks the row      *)
(* queued.                                                                 *)
(***************************************************************************)
StopIndexing(t, d) ==
  /\ Exists(d)
  /\ Begin(t, "stop", Handling("stop", d))
  /\ KeepRows /\ KeepProcess

ReadActiveForStop(t, d) ==
  /\ At(t, "stop", d)
  /\ IF NewestJobIs(d, "queued") THEN Goto(t, "cancel") ELSE Return(t)
  /\ KeepRows /\ KeepProcess

CancelForStop(t, d) ==
  /\ At(t, "cancel", d)
  /\ CancelQueuedJob(d)
  /\ IF Cardinality(ActiveJobs(d) \cap QueuedJobs) = 1 THEN Goto(t, "requeue") ELSE Return(t)
  /\ UNCHANGED <<collections, documents, original, chunks>> /\ KeepProcess

(***************************************************************************)
(* delete_document: refuse while a job runs, withdraw a queued one, then   *)
(* remove the chunks, the original and the row.  The row takes its jobs    *)
(* along (ON DELETE CASCADE).                                              *)
(***************************************************************************)
DeleteDocument(t, d) ==
  /\ Exists(d)
  /\ Begin(t, "delete", Handling("delete", d))
  /\ KeepRows /\ KeepProcess

ReadActiveForDelete(t, d) ==
  /\ At(t, "delete", d)
  /\ \/ NewestJobIs(d, "running") /\ Return(t)
     \/ NewestJobIs(d, "queued") /\ Goto(t, "withdraw")
     \/ ActiveJobs(d) = {} /\ Goto(t, "purge")
  /\ KeepRows /\ KeepProcess

CancelForDelete(t, d) ==
  /\ At(t, "withdraw", d)
  /\ CancelQueuedJob(d)
  /\ IF Cardinality(ActiveJobs(d) \cap QueuedJobs) = 1 THEN Goto(t, "purge") ELSE Return(t)
  /\ UNCHANGED <<collections, documents, original, chunks>> /\ KeepProcess

DeleteChunks(t, d) ==
  /\ At(t, "purge", d)
  /\ \/ BackendDelete(d) /\ Goto(t, "unlink")
     \/ BackendDeleteFails(d) /\ Return(t)
  /\ UNCHANGED <<manifest, original>> /\ KeepProcess

UnlinkOriginal(t, d) ==
  /\ At(t, "unlink", d)
  /\ original' = [original EXCEPT ![d] = None]
  /\ Goto(t, "erase")
  /\ UNCHANGED <<manifest, chunks>> /\ KeepProcess

DeleteRecord(t, d) ==
  /\ At(t, "erase", d)
  /\ status' = [status EXCEPT ![d] = "absent"]
  /\ generation' = [generation EXCEPT ![d] = 0]
  /\ indexed' = [indexed EXCEPT ![d] = 0]
  /\ digest' = [digest EXCEPT ![d] = None]
  /\ jobs' = jobs \ ActiveJobs(d)
  /\ Return(t)
  /\ UNCHANGED <<collections, original, chunks>> /\ KeepProcess

-----------------------------------------------------------------------------
(* The worker: run_once, one call at a time.  An exception anywhere leads  *)
(* to a second finish_indexing, with the error; if that raises as well the *)
(* exception leaves _run and the thread ends.                              *)

WorkerAt(pc, d) == running /\ worker.pc = pc /\ worker.doc = d
WorkerGoto(pc) == worker' = [worker EXCEPT !.pc = pc]
KeepOutside == UNCHANGED <<original, thread, running, crashes>>

\* claim_next_job: the oldest queued row.
ClaimNextJob ==
  /\ running /\ worker = IdleWorker
  /\ \E j \in QueuedJobs :
       /\ \A k \in QueuedJobs : j.id <= k.id
       /\ jobs' = (jobs \ {j}) \cup {[j EXCEPT !.status = "running", !.attempts = @ + 1]}
       /\ worker' = [pc |-> "context", job |-> j.id, doc |-> j.doc,
                     operation |-> j.operation, generation |-> 0]
  /\ UNCHANGED <<collections, documents, chunks>> /\ KeepOutside

\* get_indexing_context: the row and its generation, in one read.
ReadIndexingContext(d) ==
  /\ WorkerAt("context", d)
  /\ IF Exists(d)
       THEN worker' = [worker EXCEPT !.pc = "mark", !.generation = generation[d]]
       ELSE WorkerGoto("fail")
  /\ UNCHANGED <<manifest, chunks>> /\ KeepOutside

MarkIndexing(d) ==
  /\ WorkerAt("mark", d)
  /\ SetDocumentStatus(d, "indexing")
  /\ WorkerGoto(IF ~Exists(d) THEN "fail"
                ELSE IF worker.operation = "reindex" THEN "wipe" ELSE "insert")
  /\ UNCHANGED <<collections, jobs, chunks>> /\ KeepOutside

WipeChunks(d) ==
  /\ WorkerAt("wipe", d)
  /\ \/ BackendDelete(d) /\ WorkerGoto("insert")
     \/ BackendDeleteFails(d) /\ \E pc \in BackendErrors : WorkerGoto(pc)
  /\ UNCHANGED manifest /\ KeepOutside

InsertChunks(d) ==
  /\ WorkerAt("insert", d)
  /\ \/ original[d] # None /\ BackendIndex(d) /\ WorkerGoto("verify")
     \/ BackendIndexFails(d) /\ \E pc \in BackendErrors : WorkerGoto(pc)
  /\ UNCHANGED manifest /\ KeepOutside

\* list_chunks after indexing may raise; no chunk at all is an error of its own.
VerifyChunks(d) ==
  /\ WorkerAt("verify", d)
  /\ \/ WorkerGoto(IF chunks[d] = NoChunks THEN "fail" ELSE "finish")
     \/ \E pc \in BackendErrors : WorkerGoto(pc)
  /\ UNCHANGED <<manifest, chunks>> /\ KeepOutside

(***************************************************************************)
(* finish_indexing, with or without an error.  It raises when the job the  *)
(* worker claimed is no longer a running row; otherwise it compares the    *)
(* generation read at the start with the row's, and queues the document    *)
(* again when the metadata has moved on in the meantime.                   *)
(***************************************************************************)
\* Fault: the generation is not looked at again.
MetadataNotCompared(d) == FALSE

HeldJob(d) == {j \in RunningJobs : j.id = worker.job /\ j.doc = d}
FinishRaises(d) == HeldJob(d) = {} \/ ~Exists(d)
MetadataMoved(d) == generation[d] # worker.generation

FinishIndexing(d, error) ==
  /\ ~FinishRaises(d)
  /\ \/ /\ MetadataMoved(d)
        /\ InsertJob(d, "reindex", jobs \ HeldJob(d))
        /\ status' = [status EXCEPT ![d] = "queued"]
        /\ UNCHANGED indexed
     \/ /\ ~MetadataMoved(d) /\ error
        /\ jobs' = jobs \ HeldJob(d)
        /\ status' = [status EXCEPT ![d] = "failed"]
        /\ UNCHANGED indexed
     \/ /\ ~MetadataMoved(d) /\ ~error
        /\ jobs' = jobs \ HeldJob(d)
        /\ status' = [status EXCEPT ![d] = "ready"]
        /\ indexed' = [indexed EXCEPT ![d] = worker.generation]
  /\ worker' = IdleWorker
  /\ UNCHANGED <<collections, generation, digest>>

FinishIndexed(d) ==
  /\ WorkerAt("finish", d)
  /\ \/ FinishIndexing(d, FALSE)
     \/ FinishRaises(d) /\ WorkerGoto("fail") /\ UNCHANGED manifest
  /\ UNCHANGED chunks /\ KeepOutside

\* The error is passed on as a text, and finish_indexing asks whether it is empty.
FinishFailed(d) ==
  /\ WorkerAt("fail", d) \/ WorkerAt("blank", d)
  /\ \/ FinishIndexing(d, worker.pc = "fail")
     \/ FinishRaises(d) /\ worker' = DeadWorker /\ UNCHANGED manifest
  /\ UNCHANGED chunks /\ KeepOutside

-----------------------------------------------------------------------------
(* The process stops and starts.  Opening the repository repairs queued    *)
(* documents without a job, start() recovers the running jobs, and only    *)
(* then do the worker and the handlers run.                                *)

\* What a backend call in progress leaves behind when the process stops.
InterruptedCall(d) ==
  \/ worker.doc = d /\ worker.pc = "insert" /\ BackendIndexFails(d)
  \/ worker.doc = d /\ worker.pc = "wipe" /\ BackendDeleteFails(d)
  \/ (\E t \in Threads : At(t, "purge", d)) /\ BackendDeleteFails(d)

Crash ==
  /\ running /\ crashes < MaxCrashes
  /\ running' = FALSE
  /\ crashes' = crashes + 1
  /\ thread' = [t \in Threads |-> IdleThread]
  /\ worker' = IdleWorker
  /\ \/ \E d \in Docs : InterruptedCall(d)
     \/ UNCHANGED chunks
  /\ UNCHANGED <<manifest, original>>

\* _repair_queued_documents, one row of its transaction at a time.
NeedsRepair(d) == status[d] = "queued" /\ ActiveJobs(d) = {}

RepairQueuedDocument(d) ==
  /\ ~running /\ NeedsRepair(d)
  /\ InsertJob(d, IF indexed[d] > 0 THEN "reindex" ELSE "index", jobs)
  /\ UNCHANGED <<collections, documents, original, chunks, thread>> /\ KeepProcess

\* Fault: the limit is one too high.
ExhaustedLate == {j \in RunningJobs : j.attempts > MaxRecoveryAttempts}

\* Fault: a job left running by an insert is queued as an insert.
RecoveredAsItWas(j) == [j EXCEPT !.status = "queued"]

\* Fault: start() does not recover the jobs left running.
RecoverNothing == UNCHANGED <<jobs, documents>>

\* recover_running_jobs: a job left running is queued again as a reindex, unless it was
\* claimed too often; then every document with a queued job is marked queued.
Exhausted == {j \in RunningJobs : j.attempts >= MaxRecoveryAttempts}
Recovered(j) == [j EXCEPT !.status = "queued", !.operation = "reindex"]

\* Fault: the jobs are queued again, and the documents still say indexing.
RecoverJobsOnly ==
  /\ jobs' = QueuedJobs \cup {Recovered(j) : j \in RunningJobs \ Exhausted}
  /\ UNCHANGED documents

RecoverRunningJobs ==
  /\ jobs' = QueuedJobs \cup {Recovered(j) : j \in RunningJobs \ Exhausted}
  /\ status' = [d \in Docs |->
       IF \E j \in jobs' : j.doc = d THEN "queued"
       ELSE IF \E j \in Exhausted : j.doc = d THEN "failed"
       ELSE status[d]]
  /\ UNCHANGED <<generation, indexed, digest>>

Start ==
  /\ ~running /\ \A d \in Docs : ~NeedsRepair(d)
  /\ RecoverRunningJobs
  /\ running' = TRUE
  /\ UNCHANGED <<collections, original, chunks, thread, worker, crashes>>

-----------------------------------------------------------------------------
(* The specification.                                                      *)

Init ==
  /\ collections = {}
  /\ status = [d \in Docs |-> "absent"]
  /\ generation = [d \in Docs |-> 0]
  /\ indexed = [d \in Docs |-> 0]
  /\ digest = [d \in Docs |-> None]
  /\ jobs = {}
  /\ original = [d \in Docs |-> None]
  /\ chunks = [d \in Docs |-> NoChunks]
  /\ thread = [t \in Threads |-> IdleThread]
  /\ worker = IdleWorker
  /\ running = FALSE
  /\ crashes = 0

\* A request that arrives.
Request(t, d) ==
  \/ \E payload \in Payloads : Upload(t, d, payload)
  \/ RetryIndexing(t, d)
  \/ StartIndexing(t, d)
  \/ StopIndexing(t, d)
  \/ DeleteDocument(t, d)

\* A handler at work.
HandlerStep(t, d) ==
  \/ SaveOriginal(t, d)
  \/ CreateUploaded(t, d)
  \/ UndoSave(t, d)
  \/ ReconcileUpload(t, d)
  \/ CreateReconciled(t, d)
  \/ ReadActiveForStart(t, d)
  \/ SubmitJob(t, d)
  \/ Requeue(t, d)
  \/ ReadActiveForStop(t, d)
  \/ CancelForStop(t, d)
  \/ ReadActiveForDelete(t, d)
  \/ CancelForDelete(t, d)
  \/ DeleteChunks(t, d)
  \/ UnlinkOriginal(t, d)
  \/ DeleteRecord(t, d)

WorkerStep(d) ==
  \/ ReadIndexingContext(d)
  \/ MarkIndexing(d)
  \/ WipeChunks(d)
  \/ InsertChunks(d)
  \/ VerifyChunks(d)
  \/ FinishIndexed(d)
  \/ FinishFailed(d)

Next ==
  \/ \E c \in Collections : CreateCollection(c) \/ DeleteCollection(c)
  \/ \E d \in Docs : UpdateDocument(d)
  \/ \E t \in Threads, d \in Docs : Request(t, d) \/ HandlerStep(t, d)
  \/ ClaimNextJob
  \/ \E d \in Docs : WorkerStep(d)
  \/ Crash
  \/ \E d \in Docs : RepairQueuedDocument(d)
  \/ Start

Spec == Init /\ [][Next]_vars

\* The worker loop polls forever, a handler that has begun runs on, and the supervisor
\* starts the process again; nobody has to send a request, and nothing has to crash.
Fairness ==
  /\ WF_vars(ClaimNextJob)
  /\ WF_vars(\E d \in Docs : WorkerStep(d))
  /\ \A t \in Threads : WF_vars(\E d \in Docs : HandlerStep(t, d))
  /\ WF_vars(\E d \in Docs : RepairQueuedDocument(d))
  /\ WF_vars(Start)

FairSpec == Spec /\ Fairness

-----------------------------------------------------------------------------
(* Properties.                                                             *)

\* Every variable holds rows, files, chunks and thread states of the declared kinds.
TypeOK ==
  /\ collections \in SUBSET Collections
  /\ status \in [Docs -> {"absent", "queued", "indexing", "ready", "failed"}]
  /\ generation \in [Docs -> Generations]
  /\ indexed \in [Docs -> Generations]
  /\ digest \in [Docs -> Payloads \cup {None}]
  /\ jobs \in SUBSET Job
  /\ original \in [Docs -> Payloads \cup {None}]
  /\ chunks \in [Docs -> [generation : Generations, whole : BOOLEAN]]
  /\ thread \in [Threads -> ThreadState]
  /\ worker \in WorkerState
  /\ running \in BOOLEAN
  /\ crashes \in 0 .. MaxCrashes

\* However requests, the worker's own requeueing and a restart interleave, a document
\* never has two active jobs: create_job, update_document_metadata, finish_indexing and
\* the repair at start each insert one without a uniqueness constraint to stop them.
OneActiveJob == \A j, k \in jobs : j.doc = k.doc => j = k

\* No job outlives its document: every path that inserts a job does so while the row is
\* there, and the row takes its jobs along, even where a delete overtakes an update.
JobHasDocument == \A j \in jobs : Exists(j.doc)

\* However requests, requeueing, crashes and deletions interleave, the active jobs are at most
\* one for each document, and each for a document that is there.
JobsFitDocuments == OneActiveJob /\ JobHasDocument

\* A running row is the one the live worker holds: no row is left running by a worker
\* that has gone on to something else, which only a restart would ever pick up again.
RunningJobIsHeld ==
  running => \A j \in RunningJobs : /\ worker.job = j.id
                                    /\ worker.doc = j.doc
                                    /\ worker.pc \notin {"idle", "dead"}

\* A document is only ever ready at the newest metadata: an indexing run that read older
\* metadata never ends in ready, nor does a stale status write bring ready back.
ReadyIsCurrent == \A d \in Docs : status[d] = "ready" => indexed[d] = generation[d]

\* Restart recovery gives up: no job waits for one claim more than the limit allows.
RecoveryGivesUp == \A j \in QueuedJobs : j.attempts < MaxRecoveryAttempts

\* While the process runs, a queued document has a job that will index it.
QueuedHasJob == running => \A d \in Docs : status[d] = "queued" => ActiveJobs(d) # {}

\* A document shown as indexing is being indexed, or was when the process stopped.
IndexingHasRunningJob ==
  \A d \in Docs : status[d] = "indexing" => \E j \in RunningJobs : j.doc = d

\* A document in a state that somebody must end has the job that will end it: what an update
\* queues, a failed attempt requeues and a restart recovers is never left waiting for nobody.
StatusHasJob == QueuedHasJob /\ IndexingHasRunningJob

\* A ready document is in RAGLite completely, with the metadata the manifest shows: a
\* search finds it, and finds it under its current service and tags.
ReadyIsIndexed == \A d \in Docs : status[d] = "ready" => chunks[d] = AllChunks(generation[d])

\* A document in the manifest has its original on disk, the file whose digest is shown.
OriginalMatchesDigest == \A d \in Docs : Exists(d) => original[d] = digest[d]

\* No failure of a job ends the worker thread.
WorkerSurvives == worker # DeadWorker

\* An uploaded or updated document does not stay queued: it becomes ready, fails, or goes.
QueuedIsSettled ==
  \A d \in Docs : status[d] = "queued" ~> status[d] \in {"ready", "failed", "absent"}

\* What a client sees is the state machine of ADR 0011.
Lifecycle == INSTANCE KnowledgeLifecycle WITH wanted <- generation, shown <- indexed
FollowsLifecycle == Lifecycle!Spec

=============================================================================
