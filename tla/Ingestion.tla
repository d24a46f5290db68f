----------------------------- MODULE Ingestion -----------------------------
(***************************************************************************)
(* The ingestion core of Argus RAG Studio: the tables rag_documents,       *)
(* rag_ingestion_jobs, rag_chunks and rag_collections, the polling workers *)
(* that run the parse/chunk/embed/index pipeline, and the HTTP handlers    *)
(* that create, move, reindex and delete what the workers are working on.  *)
(*                                                                         *)
(* One step of the model is one committed transaction (PostgreSQL, READ    *)
(* COMMITTED) of one worker or one handler.  What a coroutine keeps        *)
(* between two commits is its local state: sessions are opened with        *)
(* expire_on_commit=False, so a row read at the start of the pipeline is   *)
(* never read again.                                                       *)
(*                                                                         *)
(* Simplifications:                                                        *)
(*  - rows are inserted and deleted by whole batches (one index            *)
(*    transaction inserts the chunks of one job), so a batch is named by   *)
(*    its job; a configuration decides how many chunks a document gives;   *)
(*  - a handler that reads a row and commits a change of that same row in  *)
(*    its next statement is one step; a handler that looks at OTHER rows   *)
(*    first (the content_hash check) is two;                               *)
(*  - two overlapping DELETEs of the chunks of one document may commit in  *)
(*    either order (the row locks only fix which DELETE ran first);        *)
(*  - the vector store is pgvector: its vectors are the chunk rows.        *)
(***************************************************************************)
EXTENDS Naturals, FiniteSets

CONSTANTS
    Workers,      \* ingestion_worker_loop coroutines, one per process
    Clients,      \* HTTP requests in flight at the same time
    Documents,    \* primary keys of rag_documents, never reused
    Collections,  \* primary keys of rag_collections
    Hashes,       \* values of content_hash
    NoHash,       \* content_hash IS NULL
    None,         \* no row, no local value
    MaxJobs,      \* bound: rows ever inserted into rag_ingestion_jobs
    MaxOps,       \* bound: requests ever sent
    MaxCfg,       \* bound: changes of a collection's indexing settings
    MaxFaults,    \* bound: crashes and failures of storage or database
    Ops,          \* the handlers clients call in this instance
    Faults,       \* the failures that may happen in this instance
    Pieces        \* Pieces[v]: chunks a document gives under settings v

Jobs == 1..MaxJobs
Cfgs == 0..MaxCfg

AllOps == {"upload_and_ingest", "register_document", "create_document",
           "reindex_document", "reindex_collection", "update_document",
           "delete_document", "update_collection", "delete_collection",
           "resolve_decision"}
AllFaults == {"worker_crash", "request_crash", "record_lost", "put_fails"}

ASSUME BoundsAssumption ==
    /\ MaxJobs \in Nat /\ MaxOps \in Nat
    /\ MaxCfg \in Nat /\ MaxFaults \in Nat
ASSUME PiecesAssumption == Pieces \in [Cfgs -> Nat \ {0}]
ASSUME NoneAssumption ==
    /\ None \notin Documents /\ None \notin Collections
    /\ NoHash \notin Hashes
ASSUME OpsAssumption == Ops \subseteq AllOps /\ Faults \subseteq AllFaults

VARIABLES
    \* rag_collections
    collStatus,   \* active, archived or deleted
    collCfg,      \* the indexing settings (parser, chunking, embedding)
    \* rag_documents
    docStatus,    \* registered, processing, indexed, failed; none, deleted
    docColl,      \* collection_id
    docSrc,       \* source_uri IS NOT NULL
    docHash,      \* content_hash
    docCount,     \* chunk_count
    \* rag_ingestion_jobs
    jobStatus,    \* queued, running, succeeded, failed; none, deleted
    jobStage,     \* stage (progress is a function of it)
    jobDoc,       \* document_id
    jobColl,      \* collection_id (no foreign key)
    nextJob,      \* the next primary key; created_at grows with it
    \* rag_chunks: the batches present, and the settings they were made with
    chunks,
    chunkCfg,
    \* local state of a worker
    wpc, wjob,
    wcfg,         \* the collection row it read when it began
    wcount,       \* the document's chunk_count it read when it began
    wsnap,        \* the batches its DELETE sees
    \* local state of a request
    rpc,
    rtodo,        \* documents it still has to enqueue
    rcoll, rhash,
    \* bounds and history
    ops, faults,
    lost,         \* jobs whose worker died, or could not record the failure
    orphans       \* documents left in an unsettled status with no job to
                  \* settle it: the request ended early, or set it by hand

collVars   == <<collStatus, collCfg>>
docVars    == <<docStatus, docColl, docSrc, docHash, docCount>>
jobVars    == <<jobStatus, jobStage, jobDoc, jobColl, nextJob>>
chunkVars  == <<chunks, chunkCfg>>
workerVars == <<wpc, wjob, wcfg, wcount, wsnap>>
clientVars == <<rpc, rtodo, rcoll, rhash>>
vars == <<collVars, docVars, jobVars, chunkVars, workerVars, clientVars,
          ops, faults, lost, orphans>>

DocStatus == {"registered", "processing", "indexed", "failed"}
JobStatus == {"queued", "running", "succeeded", "failed"}
Stages    == {"parse", "chunk", "embed", "index"}
\* Where a worker stands: "load" is reached by the commit of "processing",
\* a stage by the commit of its _set_progress, "insert" by the DELETE of the
\* index transaction, "failing" by the except clause.
Pipeline == {"load", "parse", "chunk", "embed", "index", "insert"}
WorkerPc == {"idle", "claiming", "claimed", "failing"} \cup Pipeline
ClientPc == {"idle", "create_upload", "create_register", "put", "reassign",
             "enqueue"}

CollTypeOK ==
    /\ collStatus \in [Collections -> {"active", "archived", "deleted"}]
    /\ collCfg \in [Collections -> Cfgs]
DocTypeOK ==
    /\ docStatus \in [Documents -> DocStatus \cup {"none", "deleted"}]
    /\ docColl \in [Documents -> Collections \cup {None}]
    /\ docSrc \in [Documents -> BOOLEAN]
    /\ docHash \in [Documents -> Hashes \cup {NoHash}]
    /\ docCount \in [Documents -> Nat]
JobTypeOK ==
    /\ jobStatus \in [Jobs -> JobStatus \cup {"none", "deleted"}]
    /\ jobStage \in [Jobs -> Stages \cup {"none"}]
    /\ jobDoc \in [Jobs -> Documents \cup {None}]
    /\ jobColl \in [Jobs -> Collections \cup {None}]
    /\ nextJob \in 1..(MaxJobs + 1)
ChunkTypeOK ==
    /\ chunks \in SUBSET Jobs
    /\ chunkCfg \in [Jobs -> Cfgs]
WorkerTypeOK ==
    /\ wpc \in [Workers -> WorkerPc]
    /\ wjob \in [Workers -> Jobs \cup {0}]
    /\ wcfg \in [Workers -> Cfgs]
    /\ wcount \in [Workers -> Nat]
    /\ wsnap \in [Workers -> SUBSET Jobs]
ClientTypeOK ==
    /\ rpc \in [Clients -> ClientPc]
    /\ rtodo \in [Clients -> SUBSET Documents]
    /\ rcoll \in [Clients -> Collections \cup {None}]
    /\ rhash \in [Clients -> Hashes \cup {NoHash}]
HistoryTypeOK ==
    /\ ops \in 0..MaxOps
    /\ faults \in 0..MaxFaults
    /\ lost \in SUBSET Jobs
    /\ orphans \in SUBSET Documents

\* Every column and every local variable has its type.
TypeOK ==
    /\ CollTypeOK /\ DocTypeOK /\ JobTypeOK /\ ChunkTypeOK
    /\ WorkerTypeOK /\ ClientTypeOK /\ HistoryTypeOK

\* A freshly installed system with its collections created and no document.
Init ==
    /\ collStatus = [c \in Collections |-> "active"]
    /\ collCfg = [c \in Collections |-> 0]
    /\ docStatus = [d \in Documents |-> "none"]
    /\ docColl = [d \in Documents |-> None]
    /\ docSrc = [d \in Documents |-> FALSE]
    /\ docHash = [d \in Documents |-> NoHash]
    /\ docCount = [d \in Documents |-> 0]
    /\ jobStatus = [j \in Jobs |-> "none"]
    /\ jobStage = [j \in Jobs |-> "none"]
    /\ jobDoc = [j \in Jobs |-> None]
    /\ jobColl = [j \in Jobs |-> None]
    /\ nextJob = 1
    /\ chunks = {}
    /\ chunkCfg = [j \in Jobs |-> 0]
    /\ wpc = [w \in Workers |-> "idle"]
    /\ wjob = [w \in Workers |-> 0]
    /\ wcfg = [w \in Workers |-> 0]
    /\ wcount = [w \in Workers |-> 0]
    /\ wsnap = [w \in Workers |-> {}]
    /\ rpc = [r \in Clients |-> "idle"]
    /\ rtodo = [r \in Clients |-> {}]
    /\ rcoll = [r \in Clients |-> None]
    /\ rhash = [r \in Clients |-> NoHash]
    /\ ops = 0
    /\ faults = 0
    /\ lost = {}
    /\ orphans = {}

(***************************************************************************)
(* Rows.                                                                   *)
(***************************************************************************)
DocExists(d)  == docStatus[d] \in DocStatus
CollExists(c) == collStatus[c] # "deleted"
JobExists(j)  == jobStatus[j] \in JobStatus

\* The batches of chunks of document d.
ChunksOf(d) == {j \in chunks : jobDoc[j] = d}

find_document_by_hash(c, h) ==
    {d \in Documents : DocExists(d) /\ docColl[d] = c /\ docHash[d] = h}

(***************************************************************************)
(* Workers.                                                                *)
(***************************************************************************)
\* The rows another session's SELECT ... FOR UPDATE holds.
Locked(j) == \E v \in Workers : wpc[v] = "claiming" /\ wjob[v] = j

\* Mutant: the claim without FOR UPDATE SKIP LOCKED.
ClaimableNoLock == {j \in Jobs : jobStatus[j] = "queued"}

\* What claim_next_job may take: queued, and not locked by another claim
\* (SKIP LOCKED).
Claimable == {j \in Jobs : jobStatus[j] = "queued" /\ ~Locked(j)}

\* The worker goes back to polling and forgets its local state.
GoIdle(w) ==
    /\ wpc' = [wpc EXCEPT ![w] = "idle"]
    /\ wjob' = [wjob EXCEPT ![w] = 0]
    /\ wcfg' = [wcfg EXCEPT ![w] = 0]
    /\ wcount' = [wcount EXCEPT ![w] = 0]
    /\ wsnap' = [wsnap EXCEPT ![w] = {}]

Goto(w, pc) ==
    /\ wpc' = [wpc EXCEPT ![w] = pc]
    /\ UNCHANGED <<wjob, wcfg, wcount, wsnap>>

\* The exception handler: rollback, local row locks and snapshot are gone.
GoFailing(w) ==
    /\ wpc' = [wpc EXCEPT ![w] = "failing"]
    /\ wsnap' = [wsnap EXCEPT ![w] = {}]
    /\ UNCHANGED <<wjob, wcfg, wcount>>

\* Mutant: ORDER BY created_at DESC.
claim_next_job_newest(w) ==
    /\ wpc[w] = "idle"
    /\ \E j \in Claimable :
        /\ \A k \in Claimable : j >= k
        /\ wpc' = [wpc EXCEPT ![w] = "claiming"]
        /\ wjob' = [wjob EXCEPT ![w] = j]
    /\ UNCHANGED <<collVars, docVars, jobVars, chunkVars, wcfg, wcount,
                   wsnap, clientVars, ops, faults, lost, orphans>>

\* SELECT the oldest queued job FOR UPDATE SKIP LOCKED LIMIT 1.
claim_next_job(w) ==
    /\ wpc[w] = "idle"
    /\ \E j \in Claimable :
        /\ \A k \in Claimable : j <= k
        /\ wpc' = [wpc EXCEPT ![w] = "claiming"]
        /\ wjob' = [wjob EXCEPT ![w] = j]
    /\ UNCHANGED <<collVars, docVars, jobVars, chunkVars, wcfg, wcount,
                   wsnap, clientVars, ops, faults, lost, orphans>>

\* The commit of the claim.
claim_next_job_commit(w) ==
    /\ wpc[w] = "claiming"
    /\ jobStatus' = [jobStatus EXCEPT ![wjob[w]] = "running"]
    /\ jobStage' = [jobStage EXCEPT ![wjob[w]] = "parse"]
    /\ Goto(w, "claimed")
    /\ UNCHANGED <<collVars, docVars, jobDoc, jobColl, nextJob, chunkVars,
                   clientVars, ops, faults, lost, orphans>>

\* The head of run_pipeline in its own session: the job was deleted with its
\* document; its collection is gone (the job fails, the document is left as
\* it is); or both rows are read and the document becomes "processing".
\* The source_uri read here decides whether there is anything to load.
run_pipeline_gone(w) ==
    /\ wpc[w] = "claimed"
    /\ ~JobExists(wjob[w])
    /\ GoIdle(w)
    /\ UNCHANGED <<collVars, docVars, jobVars, chunkVars, clientVars, ops,
                   faults, lost, orphans>>

\* Mutant: the early return forgets to fail the job.
run_pipeline_no_collection_silent(w) ==
    /\ wpc[w] = "claimed"
    /\ JobExists(wjob[w])
    /\ ~CollExists(jobColl[wjob[w]])
    /\ GoIdle(w)
    /\ UNCHANGED <<collVars, docVars, jobVars, chunkVars, clientVars, ops,
                   faults, lost, orphans>>

run_pipeline_no_collection(w) ==
    /\ wpc[w] = "claimed"
    /\ JobExists(wjob[w])
    /\ ~CollExists(jobColl[wjob[w]])
    /\ jobStatus' = [jobStatus EXCEPT ![wjob[w]] = "failed"]
    /\ GoIdle(w)
    /\ UNCHANGED <<collVars, docVars, jobStage, jobDoc, jobColl, nextJob,
                   chunkVars, clientVars, ops, faults, lost, orphans>>

run_pipeline(w) ==
    LET j == wjob[w]
        d == jobDoc[j]
        c == jobColl[j]
    IN  /\ wpc[w] = "claimed"
        /\ JobExists(j)
        /\ CollExists(c)
        /\ docStatus' = [docStatus EXCEPT ![d] = "processing"]
        /\ wpc' = [wpc EXCEPT ![w] = IF docSrc[d] THEN "load" ELSE "failing"]
        /\ wcfg' = [wcfg EXCEPT ![w] = collCfg[c]]
        /\ wcount' = [wcount EXCEPT ![w] = docCount[d]]
        /\ UNCHANGED <<collVars, docColl, docSrc, docHash, docCount, jobVars,
                       chunkVars, wjob, wsnap, clientVars, ops, faults, lost,
                       orphans>>

\* Mutant: the stage name is written into the status column.
set_progress_wrong_column(w, from, stage) ==
    /\ wpc[w] = from
    /\ JobExists(wjob[w])
    /\ jobStatus' = [jobStatus EXCEPT ![wjob[w]] = stage]
    /\ Goto(w, stage)
    /\ UNCHANGED <<collVars, docVars, jobStage, jobDoc, jobColl, nextJob,
                   chunkVars, clientVars, ops, faults, lost, orphans>>

\* The work of one stage went well; _set_progress commits the next stage.
\* The UPDATE matches no row (StaleDataError) when the job was deleted.
set_progress(w, from, stage) ==
    /\ wpc[w] = from
    /\ IF JobExists(wjob[w])
       THEN /\ jobStage' = [jobStage EXCEPT ![wjob[w]] = stage]
            /\ Goto(w, stage)
       ELSE GoFailing(w) /\ UNCHANGED jobStage
    /\ UNCHANGED <<collVars, docVars, jobStatus, jobDoc, jobColl, nextJob,
                   chunkVars, clientVars, ops, faults, lost, orphans>>

run_pipeline_load(w)  == set_progress(w, "load", "parse")
run_pipeline_parse(w) == set_progress(w, "parse", "chunk")
run_pipeline_chunk(w) == set_progress(w, "chunk", "embed")
run_pipeline_embed(w) == set_progress(w, "embed", "index")

\* Mutant: the index transaction inserts without deleting.
run_pipeline_delete_nothing(w) ==
    /\ wpc[w] = "index"
    /\ Goto(w, "insert")
    /\ UNCHANGED <<collVars, docVars, jobVars, chunkVars, clientVars, ops,
                   faults, lost, orphans>>

\* First statement of the index transaction: DELETE the document's chunks.
\* READ COMMITTED: it sees the batches committed so far and no other.
run_pipeline_delete(w) ==
    /\ wpc[w] = "index"
    /\ wpc' = [wpc EXCEPT ![w] = "insert"]
    /\ wsnap' = [wsnap EXCEPT ![w] = ChunksOf(jobDoc[wjob[w]])]
    /\ UNCHANGED <<collVars, docVars, jobVars, chunkVars, wjob, wcfg, wcount,
                   clientVars, ops, faults, lost, orphans>>

\* The rest of the index transaction and its commit: the new chunks, the
\* document indexed, the job succeeded.  The chunks' foreign keys need the
\* document and the collection; the ORM writes chunk_count only when it
\* differs from the value read when the pipeline began.
run_pipeline_commit(w) ==
    LET j == wjob[w]
        d == jobDoc[j]
        n == Pieces[wcfg[w]]
    IN  /\ wpc[w] = "insert"
        /\ JobExists(j)
        /\ CollExists(jobColl[j])
        /\ chunks' = (chunks \ wsnap[w]) \cup {j}
        /\ chunkCfg' = [chunkCfg EXCEPT ![j] = wcfg[w]]
        /\ docStatus' = [docStatus EXCEPT ![d] = "indexed"]
        /\ docCount' = IF wcount[w] = n THEN docCount
                       ELSE [docCount EXCEPT ![d] = n]
        /\ jobStatus' = [jobStatus EXCEPT ![j] = "succeeded"]
        /\ GoIdle(w)
        /\ UNCHANGED <<collVars, docColl, docSrc, docHash, jobStage, jobDoc,
                       jobColl, nextJob, clientVars, ops, faults, lost,
                       orphans>>

\* Any exception inside the try block: storage, parser, nothing to chunk,
\* embedding server, foreign key of a deleted row.
run_pipeline_error(w) ==
    /\ wpc[w] \in Pipeline
    /\ GoFailing(w)
    /\ UNCHANGED <<collVars, docVars, jobVars, chunkVars, clientVars, ops,
                   faults, lost, orphans>>

\* UPDATE by primary key: a row that was deleted meanwhile is simply missed.
UpdateJob(j, s) == IF JobExists(j) THEN [jobStatus EXCEPT ![j] = s]
                   ELSE jobStatus
UpdateDoc(d, s) == IF DocExists(d) THEN [docStatus EXCEPT ![d] = s]
                   ELSE docStatus

\* Mutant: the failure is recorded in the job only.
run_pipeline_record_job_only(w) ==
    /\ wpc[w] = "failing"
    /\ jobStatus' = UpdateJob(wjob[w], "failed")
    /\ GoIdle(w)
    /\ UNCHANGED <<collVars, docVars, jobStage, jobDoc, jobColl, nextJob,
                   chunkVars, clientVars, ops, faults, lost, orphans>>

\* Mutant: a failed job goes back to the queue.
run_pipeline_record_requeue(w) ==
    /\ wpc[w] = "failing"
    /\ jobStatus' = UpdateJob(wjob[w], "queued")
    /\ docStatus' = UpdateDoc(jobDoc[wjob[w]], "failed")
    /\ GoIdle(w)
    /\ UNCHANGED <<collVars, docColl, docSrc, docHash, docCount, jobStage,
                   jobDoc, jobColl, nextJob, chunkVars, clientVars, ops,
                   faults, lost, orphans>>

\* The failure is recorded in a transaction of its own.
run_pipeline_record_failure(w) ==
    /\ wpc[w] = "failing"
    /\ jobStatus' = UpdateJob(wjob[w], "failed")
    /\ docStatus' = UpdateDoc(jobDoc[wjob[w]], "failed")
    /\ GoIdle(w)
    /\ UNCHANGED <<collVars, docColl, docSrc, docHash, docCount, jobStage,
                   jobDoc, jobColl, nextJob, chunkVars, clientVars, ops,
                   faults, lost, orphans>>

\* A failure that bites at most MaxFaults times.
Fault(f) ==
    /\ f \in Faults
    /\ faults < MaxFaults
    /\ faults' = faults + 1

\* The database refuses that transaction too: the error is logged, the
\* worker goes on polling, and no one looks at the job again.
run_pipeline_record_lost(w) ==
    /\ Fault("record_lost")
    /\ wpc[w] = "failing"
    /\ lost' = lost \cup {wjob[w]}
    /\ GoIdle(w)
    /\ UNCHANGED <<collVars, docVars, jobVars, chunkVars, clientVars, ops,
                   orphans>>

\* The process is killed, or the lifespan cancels the coroutine: an open
\* transaction is rolled back.  Nothing requeues a running job at startup.
worker_crash(w) ==
    /\ Fault("worker_crash")
    /\ wpc[w] # "idle"
    /\ lost' = IF wpc[w] = "claiming" THEN lost ELSE lost \cup {wjob[w]}
    /\ GoIdle(w)
    /\ UNCHANGED <<collVars, docVars, jobVars, chunkVars, clientVars, ops,
                   orphans>>

Worker(w) ==
    \/ claim_next_job(w) \/ claim_next_job_commit(w)
    \/ run_pipeline_gone(w) \/ run_pipeline_no_collection(w)
    \/ run_pipeline(w) \/ run_pipeline_load(w) \/ run_pipeline_parse(w)
    \/ run_pipeline_chunk(w) \/ run_pipeline_embed(w)
    \/ run_pipeline_delete(w) \/ run_pipeline_commit(w)
    \/ run_pipeline_error(w) \/ run_pipeline_record_failure(w)

(***************************************************************************)
(* Requests.                                                               *)
(***************************************************************************)
\* A new request is taken by an idle slot, at most MaxOps times.
Request(op) ==
    /\ op \in Ops
    /\ ops < MaxOps
    /\ ops' = ops + 1

\* The request r goes on with its next transaction.
Continue(r, pc, todo, c, h) ==
    /\ rpc' = [rpc EXCEPT ![r] = pc]
    /\ rtodo' = [rtodo EXCEPT ![r] = todo]
    /\ rcoll' = [rcoll EXCEPT ![r] = c]
    /\ rhash' = [rhash EXCEPT ![r] = h]

\* The request r is answered, or ends with an exception.
Answer(r) == Continue(r, "idle", {}, None, NoHash)

\* The request ends before it enqueued the documents it has committed.
Abandon(r) ==
    /\ Answer(r)
    /\ orphans' = IF rpc[r] = "reassign" THEN orphans
                  ELSE orphans \cup rtodo[r]

\* INSERT a document in status "registered".
create_pending_document(d, c, src, h) ==
    /\ docStatus[d] = "none"
    /\ docStatus' = [docStatus EXCEPT ![d] = "registered"]
    /\ docColl' = [docColl EXCEPT ![d] = c]
    /\ docSrc' = [docSrc EXCEPT ![d] = src]
    /\ docHash' = [docHash EXCEPT ![d] = h]
    /\ UNCHANGED docCount

\* Upload: collection and content_hash are checked first ...
upload_and_ingest(r, c, h) ==
    /\ Request("upload_and_ingest")
    /\ rpc[r] = "idle"
    /\ CollExists(c)
    /\ find_document_by_hash(c, h) = {}
    /\ Continue(r, "create_upload", {}, c, h)
    /\ UNCHANGED <<collVars, docVars, jobVars, chunkVars, workerVars, faults,
                   lost, orphans>>

\* ... then the row is inserted with no source_uri ...
upload_and_ingest_create(r) ==
    /\ rpc[r] = "create_upload"
    /\ IF CollExists(rcoll[r])
       THEN \E d \in Documents :
              /\ create_pending_document(d, rcoll[r], FALSE, rhash[r])
              /\ Continue(r, "put", {d}, rcoll[r], NoHash)
       ELSE Answer(r) /\ UNCHANGED docVars
    /\ UNCHANGED <<collVars, jobVars, chunkVars, workerVars, ops, faults,
                   lost, orphans>>

\* ... then the file goes to object storage and source_uri is committed.
upload_and_ingest_put(r) ==
    /\ rpc[r] = "put"
    /\ \E d \in rtodo[r] :
         IF DocExists(d)
         THEN /\ docSrc' = [docSrc EXCEPT ![d] = TRUE]
              /\ Continue(r, "enqueue", rtodo[r], rcoll[r], NoHash)
         ELSE Answer(r) /\ UNCHANGED docSrc
    /\ UNCHANGED <<collVars, docStatus, docColl, docHash, docCount, jobVars,
                   chunkVars, workerVars, ops, faults, lost, orphans>>

\* put_object raises: the row stays, without source_uri and without a job.
upload_and_ingest_put_fails(r) ==
    /\ Fault("put_fails")
    /\ rpc[r] = "put"
    /\ Abandon(r)
    /\ UNCHANGED <<collVars, docVars, jobVars, chunkVars, workerVars, ops,
                   lost>>

\* The request's next INSERT INTO rag_ingestion_jobs.  Its foreign key needs
\* the document: the exception ends a reindex_collection half way.
enqueue_job(r) ==
    /\ rpc[r] = "enqueue"
    /\ \E d \in rtodo[r] :
         IF DocExists(d)
         THEN /\ nextJob <= MaxJobs
              /\ jobStatus' = [jobStatus EXCEPT ![nextJob] = "queued"]
              /\ jobDoc' = [jobDoc EXCEPT ![nextJob] = d]
              /\ jobColl' = [jobColl EXCEPT ![nextJob] = rcoll[r]]
              /\ nextJob' = nextJob + 1
              /\ orphans' = IF docColl[d] = rcoll[r] THEN orphans \ {d}
                            ELSE orphans
              /\ IF rtodo[r] = {d} THEN Answer(r)
                 ELSE Continue(r, "enqueue", rtodo[r] \ {d}, rcoll[r], NoHash)
         ELSE Abandon(r) /\ UNCHANGED <<jobStatus, jobDoc, jobColl, nextJob>>
    /\ UNCHANGED <<collVars, docVars, jobStage, chunkVars, workerVars, ops,
                   faults, lost>>

\* Registration of an object already in storage: a document with the same
\* content_hash is registered again, otherwise a new one is inserted.
register_document(r, c, h) ==
    /\ Request("register_document")
    /\ rpc[r] = "idle"
    /\ CollExists(c)
    /\ IF h = NoHash \/ find_document_by_hash(c, h) = {}
       THEN Continue(r, "create_register", {}, c, h) /\ UNCHANGED docVars
       ELSE \E d \in find_document_by_hash(c, h) :
              /\ docSrc' = [docSrc EXCEPT ![d] = TRUE]
              /\ docStatus' = [docStatus EXCEPT ![d] = "registered"]
              /\ Continue(r, "enqueue", {d}, c, NoHash)
              /\ UNCHANGED <<docColl, docHash, docCount>>
    /\ UNCHANGED <<collVars, jobVars, chunkVars, workerVars, faults, lost,
                   orphans>>

register_document_create(r) ==
    /\ rpc[r] = "create_register"
    /\ IF CollExists(rcoll[r])
       THEN \E d \in Documents :
              /\ create_pending_document(d, rcoll[r], TRUE, rhash[r])
              /\ Continue(r, "enqueue", {d}, rcoll[r], NoHash)
       ELSE Answer(r) /\ UNCHANGED docVars
    /\ UNCHANGED <<collVars, jobVars, chunkVars, workerVars, ops, faults,
                   lost, orphans>>

\* Metadata registration: a row and no job.
create_document(d, c, src, h) ==
    /\ Request("create_document")
    /\ CollExists(c)
    /\ create_pending_document(d, c, src, h)
    /\ orphans' = orphans \cup {d}
    /\ UNCHANGED <<collVars, jobVars, chunkVars, workerVars, clientVars,
                   faults, lost>>

reindex_document(r, d) ==
    /\ Request("reindex_document")
    /\ rpc[r] = "idle"
    /\ DocExists(d)
    /\ docStatus' = [docStatus EXCEPT ![d] = "registered"]
    /\ Continue(r, "enqueue", {d}, docColl[d], NoHash)
    /\ UNCHANGED <<collVars, docColl, docSrc, docHash, docCount, jobVars,
                   chunkVars, workerVars, faults, lost, orphans>>

\* One commit changes the settings and puts every document that has a
\* source back to "registered"; the jobs follow one by one.
reindex_collection(r, c, v) ==
    LET todo == {d \in Documents :
                   DocExists(d) /\ docColl[d] = c /\ docSrc[d]}
    IN  /\ Request("reindex_collection")
        /\ rpc[r] = "idle"
        /\ CollExists(c)
        /\ v \in {collCfg[c], collCfg[c] + 1} \cap Cfgs
        /\ collCfg' = [collCfg EXCEPT ![c] = v]
        /\ docStatus' = [d \in Documents |->
                           IF d \in todo THEN "registered" ELSE docStatus[d]]
        /\ IF todo = {} THEN Answer(r)
           ELSE Continue(r, "enqueue", todo, c, NoHash)
        /\ UNCHANGED <<collStatus, docColl, docSrc, docHash, docCount,
                       jobVars, chunkVars, workerVars, faults, lost, orphans>>

\* PUT of a document: the caller may write any status.
update_document(d, s) ==
    /\ Request("update_document")
    /\ DocExists(d)
    /\ docStatus' = [docStatus EXCEPT ![d] = s]
    /\ orphans' = IF s \in {"registered", "processing"}
                  THEN orphans \cup {d} ELSE orphans
    /\ UNCHANGED <<collVars, docColl, docSrc, docHash, docCount, jobVars,
                   chunkVars, workerVars, clientVars, faults, lost>>

\* DELETE of documents: jobs and chunks go with them (ON DELETE CASCADE).
\* The cascade waits for a claim that holds one of the job rows.
DeleteDocs(D) ==
    /\ \A j \in Jobs : jobDoc[j] \in D => ~Locked(j)
    /\ docStatus' = [d \in Documents |->
                       IF d \in D THEN "deleted" ELSE docStatus[d]]
    /\ jobStatus' = [j \in Jobs |->
                       IF jobDoc[j] \in D THEN "deleted" ELSE jobStatus[j]]
    /\ UNCHANGED <<docColl, docSrc, docHash, docCount, jobStage, jobDoc,
                   jobColl, nextJob>>

delete_document(d) ==
    /\ Request("delete_document")
    /\ DocExists(d)
    /\ DeleteDocs({d})
    /\ chunks' = {j \in chunks : jobDoc[j] # d}
    /\ UNCHANGED <<collVars, chunkCfg, workerVars, clientVars, faults, lost,
                   orphans>>

\* The chunks of a collection go with it, whatever document they belong to.
delete_collection(c) ==
    LET D == {d \in Documents : DocExists(d) /\ docColl[d] = c}
    IN  /\ Request("delete_collection")
        /\ CollExists(c)
        /\ collStatus' = [collStatus EXCEPT ![c] = "deleted"]
        /\ DeleteDocs(D)
        /\ chunks' = {j \in chunks : jobDoc[j] \notin D /\ jobColl[j] # c}
        /\ UNCHANGED <<collCfg, chunkCfg, workerVars, clientVars, faults,
                       lost, orphans>>

update_collection(c, s) ==
    /\ Request("update_collection")
    /\ CollExists(c)
    /\ collStatus' = [collStatus EXCEPT ![c] = s]
    /\ UNCHANGED <<collCfg, docVars, jobVars, chunkVars, workerVars,
                   clientVars, faults, lost, orphans>>

\* Mutant: the reassignment does not look for the same content in the target.
resolve_decision_unchecked(r, d, c) ==
    /\ Request("resolve_decision")
    /\ rpc[r] = "idle"
    /\ DocExists(d)
    /\ docColl[d] # c
    /\ collStatus[c] = "active"
    /\ Continue(r, "reassign", {d}, c, NoHash)
    /\ UNCHANGED <<collVars, docVars, jobVars, chunkVars, workerVars, faults,
                   lost, orphans>>

\* Review of a routing decision, reassignment branch: target and
\* content_hash are checked, then the document is moved, then enqueued.
resolve_decision(r, d, c) ==
    /\ Request("resolve_decision")
    /\ rpc[r] = "idle"
    /\ DocExists(d)
    /\ docColl[d] # c
    /\ collStatus[c] = "active"
    /\ docHash[d] # NoHash => find_document_by_hash(c, docHash[d]) = {}
    /\ Continue(r, "reassign", {d}, c, NoHash)
    /\ UNCHANGED <<collVars, docVars, jobVars, chunkVars, workerVars, faults,
                   lost, orphans>>

\* The commit of the move.  The ORM leaves status out of the UPDATE if it was
\* already "registered" when loaded; a worker that settles the document in
\* between then keeps its verdict until the job enqueued next is claimed.
resolve_decision_commit(r) ==
    /\ rpc[r] = "reassign"
    /\ \E d \in rtodo[r] :
         IF DocExists(d) /\ CollExists(rcoll[r])
         THEN /\ docColl' = [docColl EXCEPT ![d] = rcoll[r]]
              /\ docStatus' = [docStatus EXCEPT ![d] = "registered"]
              /\ Continue(r, "enqueue", rtodo[r], rcoll[r], NoHash)
         ELSE Answer(r) /\ UNCHANGED <<docColl, docStatus>>
    /\ UNCHANGED <<collVars, docSrc, docHash, docCount, jobVars, chunkVars,
                   workerVars, ops, faults, lost, orphans>>

\* The process that serves the request dies between two commits.
request_crash(r) ==
    /\ Fault("request_crash")
    /\ rpc[r] # "idle"
    /\ Abandon(r)
    /\ UNCHANGED <<collVars, docVars, jobVars, chunkVars, workerVars, ops,
                   lost>>

\* The transactions that finish a request in flight.
Serve(r) ==
    \/ upload_and_ingest_create(r) \/ upload_and_ingest_put(r)
    \/ register_document_create(r) \/ resolve_decision_commit(r)
    \/ enqueue_job(r)

\* A client sends a request.
Call(r) ==
    \/ \E c \in Collections, h \in Hashes : upload_and_ingest(r, c, h)
    \/ \E c \in Collections, h \in Hashes \cup {NoHash} :
         register_document(r, c, h)
    \/ \E d \in Documents : reindex_document(r, d)
    \/ \E c \in Collections, v \in Cfgs : reindex_collection(r, c, v)
    \/ \E d \in Documents, c \in Collections : resolve_decision(r, d, c)

\* Requests that are one transaction.
CallAtomic ==
    \/ \E d \in Documents, c \in Collections, src \in BOOLEAN,
          h \in Hashes \cup {NoHash} : create_document(d, c, src, h)
    \/ \E d \in Documents, s \in DocStatus : update_document(d, s)
    \/ \E d \in Documents : delete_document(d)
    \/ \E c \in Collections : delete_collection(c)
    \/ \E c \in Collections, s \in {"active", "archived"} :
         update_collection(c, s)

Failure ==
    \/ \E w \in Workers : worker_crash(w) \/ run_pipeline_record_lost(w)
    \/ \E r \in Clients : request_crash(r) \/ upload_and_ingest_put_fails(r)

Next ==
    \/ \E w \in Workers : Worker(w)
    \/ \E r \in Clients : Serve(r) \/ Call(r)
    \/ CallAtomic
    \/ Failure

Spec == Init /\ [][Next]_vars

\* The event loop runs every coroutine that can go on; clients need not call.
Fairness ==
    /\ \A w \in Workers : WF_vars(Worker(w))
    /\ \A r \in Clients : WF_vars(Serve(r))

FairSpec == Spec /\ Fairness

(***************************************************************************)
(* Properties.                                                             *)
(***************************************************************************)
\* A worker that holds a job it has claimed.
Holds(w, j) == wpc[w] \notin {"idle", "claiming"} /\ wjob[w] = j

\* claim_next_job gives a job to one worker only: no two workers ever claim
\* or run the same job, and a job a worker runs is running (or was deleted
\* under it) -- never queued again, never already settled.
JobOwnedOnce ==
    /\ \A v, w \in Workers :
         v # w /\ wpc[v] # "idle" /\ wpc[w] # "idle" => wjob[v] # wjob[w]
    /\ \A w \in Workers :
         wpc[w] \notin {"idle", "claiming"}
           => jobStatus[wjob[w]] \in {"running", "deleted"}

\* Every way out of run_pipeline settles the job: a running job is held by
\* a worker unless that worker crashed or could not record the failure.
RunningAccounted ==
    \A j \in Jobs : jobStatus[j] = "running"
                      => j \in lost \/ \E w \in Workers : Holds(w, j)

\* A job that will settle document d in the collection it is in now.
Pending(d) ==
    \/ \E j \in Jobs :
         /\ jobDoc[j] = d /\ jobColl[j] = docColl[d]
         /\ \/ jobStatus[j] = "queued"
            \/ \E w \in Workers : wpc[w] = "claimed" /\ wjob[w] = j
    \/ \E r \in Clients : /\ rpc[r] \in {"put", "enqueue"}
                           /\ d \in rtodo[r] /\ rcoll[r] = docColl[d]

\* A worker whose pipeline will write a final status into document d.
WorkingOn(d) ==
    \E w \in Workers : /\ wpc[w] \in Pipeline \cup {"failing"}
                       /\ jobDoc[wjob[w]] = d

\* No document is forgotten: one that is registered or processing has a job
\* queued, a request about to enqueue one or a worker at work, whatever is
\* moved, reindexed or deleted meanwhile; the exceptions are the documents
\* a crash, a storage failure or a manual status left behind.
NoDocumentForgotten ==
    \A d \in Documents :
        docStatus[d] \in {"registered", "processing"} =>
            \/ Pending(d) \/ WorkingOn(d)
            \/ d \in orphans
            \/ \E j \in lost : jobDoc[j] = d

\* Reprocessing is idempotent: a document has the chunks of one job, and
\* chunk_count is their number.
ChunkCountExact ==
    \A j \in chunks :
        /\ \A k \in chunks : jobDoc[k] = jobDoc[j] => k = j
        /\ docCount[jobDoc[j]] = Pieces[chunkCfg[j]]

\* A collection never holds two documents with the same content_hash: the
\* upload, the registration and the move of a document look for one first
\* (create_document takes the caller's hash as it is).
NoDuplicateHash ==
    \A d, e \in Documents :
        /\ DocExists(d) /\ DocExists(e)
        /\ docColl[d] = docColl[e]
        /\ docHash[d] = docHash[e] /\ docHash[d] # NoHash
        => d = e

\* Nothing is under way for document d.
Quiet(d) ==
    /\ \A j \in Jobs : jobDoc[j] = d => jobStatus[j] \notin {"queued", "running"}
    /\ \A r \in Clients : d \notin rtodo[r]

\* What search reads of document d are chunks in the document's own
\* collection, made with the settings the collection has now.
Fresh(d) ==
    /\ ChunksOf(d) # {}
    /\ \A j \in ChunksOf(d) : /\ jobColl[j] = docColl[d]
                             /\ chunkCfg[j] = collCfg[docColl[d]]

\* Once the jobs of an indexed document are done its index is fresh, however
\* its jobs, moves and changes of settings were interleaved; only a request
\* that ended before it enqueued the document's job leaves an old index.
FreshIndex ==
    \A d \in Documents :
        docStatus[d] = "indexed" /\ Quiet(d) /\ d \notin orphans => Fresh(d)

\* The jobs table implements the abstract queue: a claim hands a job to one
\* worker, and only that worker settles it.
JQ == INSTANCE JobQueue WITH
        status <- jobStatus,
        held <- {p \in Workers \X Jobs : Holds(p[1], p[2])}
ImplementsJobQueue == JQ!Spec

(***************************************************************************)
(* The inductive invariant behind the theorems of IngestionProofs.         *)
(***************************************************************************)
\* Job rows are numbered in the order of creation, and a row keeps its
\* document and collection.
JobRows ==
    \A j \in Jobs :
        /\ j < nextJob <=> jobStatus[j] # "none"
        /\ j < nextJob => jobDoc[j] \in Documents /\ jobColl[j] \in Collections
        /\ j >= nextJob => jobDoc[j] = None

\* The foreign keys of documents, jobs and chunks.
ForeignKeys ==
    /\ \A d \in Documents : DocExists(d) => /\ docColl[d] \in Collections
                                           /\ CollExists(docColl[d])
    /\ \A j \in Jobs :
         /\ JobExists(j) => DocExists(jobDoc[j])
         /\ jobStatus[j] = "deleted" => docStatus[jobDoc[j]] = "deleted"
    /\ \A j \in chunks : JobExists(j) /\ CollExists(jobColl[j])

\* What a worker knows of the job it has taken.
WorkerJobs ==
    \A w \in Workers :
        /\ wpc[w] # "idle" => wjob[w] \in Jobs
        /\ wpc[w] = "claiming" => jobStatus[wjob[w]] = "queued"
        /\ wpc[w] \notin {"idle", "claiming"}
             => jobStatus[wjob[w]] \in {"running", "deleted"}

\* No two workers have taken the same job.
DistinctJobs ==
    \A v, w \in Workers :
        v # w /\ wpc[v] # "idle" /\ wpc[w] # "idle" => wjob[v] # wjob[w]

\* What a request in flight still refers to.
ClientRefs ==
    \A r \in Clients :
        /\ rpc[r] # "idle" => rcoll[r] \in Collections
        /\ \A d \in rtodo[r] : docStatus[d] # "none"
        /\ rpc[r] \in {"put", "reassign"}
             => \A d, e \in rtodo[r] : d = e

IInv ==
    /\ TypeOK /\ JobRows /\ ForeignKeys /\ WorkerJobs /\ DistinctJobs
    /\ ClientRefs /\ RunningAccounted /\ NoDocumentForgotten

\* With one worker: no batch appears behind the back of the pipeline.
SingleWorker == \A v, w \in Workers : v = w

OneWriter ==
    \A w \in Workers :
        /\ wpc[w] \in Pipeline /\ JobExists(wjob[w])
             => wcount[w] = docCount[jobDoc[wjob[w]]]
        /\ wpc[w] = "insert" => ChunksOf(jobDoc[wjob[w]]) \subseteq wsnap[w]

SingleInv == IInv /\ OneWriter /\ ChunkCountExact

\* The stage column follows the worker that runs the job.
JobStages ==
    /\ \A j \in Jobs : jobStatus[j] \in {"none", "queued"} => jobStage[j] = "none"
    /\ \A w \in Workers :
         /\ wpc[w] \in {"claimed", "load"} => jobStage[wjob[w]] = "parse"
         /\ wpc[w] \in Stages => jobStage[wjob[w]] = wpc[w]

StageRank == [s \in Stages \cup {"none"} |->
                CASE s = "none" -> 0 [] s = "parse" -> 1 [] s = "chunk" -> 2
                  [] s = "embed" -> 3 [] s = "index" -> 4]

\* What polling clients see of a job only moves forward: a settled job keeps
\* its verdict, a running job is never queued again, the stage never goes
\* back and the job never changes its document or collection.
JobMovesForward ==
    [][\A j \in Jobs :
         /\ jobStatus[j] \in {"succeeded", "failed"}
              => jobStatus'[j] \in {jobStatus[j], "deleted"}
         /\ jobStatus[j] = "running" => jobStatus'[j] # "queued"
         /\ StageRank[jobStage[j]] <= StageRank[jobStage'[j]]
         /\ jobStatus[j] # "none" => /\ jobDoc'[j] = jobDoc[j]
                                     /\ jobColl'[j] = jobColl[j]]_vars

\* Without crashes every queued job comes to an end.
QueuedJobSettles ==
    \A j \in Jobs :
        jobStatus[j] \in {"queued", "running"}
          ~> jobStatus[j] \in {"succeeded", "failed", "deleted"}

\* Without crashes every document that is registered for ingestion ends
\* indexed or failed, or is deleted.
DocumentSettles ==
    \A d \in Documents :
        docStatus[d] \in {"registered", "processing"}
          ~> docStatus[d] \in {"indexed", "failed", "deleted"}
=============================================================================
