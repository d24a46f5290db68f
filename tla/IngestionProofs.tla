--------------------------- MODULE IngestionProofs ---------------------------
(***************************************************************************)
(* Theorems about Ingestion, for any number of workers, requests,          *)
(* documents and collections.                                              *)
(***************************************************************************)
EXTENDS Ingestion, TLAPS

\* The bounds are naturals and every configuration gives some chunks.
LEMMA ConstantsType ==
    /\ MaxJobs \in Nat /\ MaxOps \in Nat /\ MaxCfg \in Nat /\ MaxFaults \in Nat
    /\ Pieces \in [Cfgs -> Nat \ {0}]
    /\ None \notin Documents /\ None \notin Collections /\ NoHash \notin Hashes
BY BoundsAssumption, PiecesAssumption, NoneAssumption

\* A configuration is a natural number, 0 is one of them, and 0 is no job.
LEMMA CfgsJobs == 0 \in Cfgs /\ 0 \notin Jobs /\ Jobs \subseteq Nat
BY ConstantsType DEF Cfgs, Jobs

\* A group of variables that a step leaves alone keeps its type.
LEMMA TypeFrame ==
    /\ CollTypeOK /\ UNCHANGED collVars => CollTypeOK'
    /\ DocTypeOK /\ UNCHANGED docVars => DocTypeOK'
    /\ JobTypeOK /\ UNCHANGED jobVars => JobTypeOK'
    /\ ChunkTypeOK /\ UNCHANGED chunkVars => ChunkTypeOK'
    /\ WorkerTypeOK /\ UNCHANGED workerVars => WorkerTypeOK'
    /\ ClientTypeOK /\ UNCHANGED clientVars => ClientTypeOK'
    /\ HistoryTypeOK /\ UNCHANGED <<ops, faults, lost, orphans>>
         => HistoryTypeOK'
<1>1. CollTypeOK /\ UNCHANGED collVars => CollTypeOK'
  BY DEF CollTypeOK, collVars
<1>2. DocTypeOK /\ UNCHANGED docVars => DocTypeOK'
  BY DEF DocTypeOK, docVars
<1>3. JobTypeOK /\ UNCHANGED jobVars => JobTypeOK'
  BY DEF JobTypeOK, jobVars
<1>4. ChunkTypeOK /\ UNCHANGED chunkVars => ChunkTypeOK'
  BY DEF ChunkTypeOK, chunkVars
<1>5. WorkerTypeOK /\ UNCHANGED workerVars => WorkerTypeOK'
  BY DEF WorkerTypeOK, workerVars
<1>6. ClientTypeOK /\ UNCHANGED clientVars => ClientTypeOK'
  BY DEF ClientTypeOK, clientVars
<1>7. HistoryTypeOK /\ UNCHANGED <<ops, faults, lost, orphans>>
        => HistoryTypeOK'
  BY DEF HistoryTypeOK
<1> QED
  BY <1>1, <1>2, <1>3, <1>4, <1>5, <1>6, <1>7

\* The three ways a worker moves on keep the worker's type.
LEMMA WorkerMoves ==
    ASSUME WorkerTypeOK, NEW w \in Workers
    PROVE  /\ GoIdle(w) => WorkerTypeOK'
           /\ GoFailing(w) => WorkerTypeOK'
           /\ \A pc \in WorkerPc : Goto(w, pc) => WorkerTypeOK'
<1>1. GoIdle(w) => WorkerTypeOK'
  BY CfgsJobs DEF WorkerTypeOK, GoIdle, WorkerPc
<1>2. GoFailing(w) => WorkerTypeOK'
  BY DEF WorkerTypeOK, GoFailing, WorkerPc
<1>3. ASSUME NEW pc \in WorkerPc, Goto(w, pc) PROVE WorkerTypeOK'
  BY <1>3 DEF WorkerTypeOK, Goto
<1> QED
  BY <1>1, <1>2, <1>3

\* The ways a request moves on keep the request's type.
LEMMA ClientMoves ==
    ASSUME ClientTypeOK, NEW r \in Clients
    PROVE  /\ Answer(r) => ClientTypeOK'
           /\ \A pc \in ClientPc, todo \in SUBSET Documents,
                 c \in Collections, h \in Hashes \cup {NoHash} :
                 Continue(r, pc, todo, c, h) => ClientTypeOK'
<1>1. ASSUME NEW pc \in ClientPc, NEW todo \in SUBSET Documents,
             NEW c \in Collections \cup {None},
             NEW h \in Hashes \cup {NoHash},
             Continue(r, pc, todo, c, h)
      PROVE  ClientTypeOK'
  BY <1>1 DEF ClientTypeOK, Continue
<1>2. Answer(r) => ClientTypeOK'
  <2>1. "idle" \in ClientPc /\ {} \in SUBSET Documents
    BY DEF ClientPc
  <2> QED
    BY <1>1, <2>1 DEF Answer
<1> QED
  BY <1>1, <1>2
------------------------------------------------------------------------------
(***************************************************************************)
(* Type correctness, action by action.                                     *)
(***************************************************************************)
LEMMA InitTypeOK == Init => TypeOK
<1> SUFFICES ASSUME Init PROVE TypeOK
  OBVIOUS
<1> USE ConstantsType, CfgsJobs DEF Init
<1>1. CollTypeOK /\ DocTypeOK
  BY DEF CollTypeOK, DocTypeOK
<1>2. JobTypeOK /\ ChunkTypeOK
  BY DEF JobTypeOK, ChunkTypeOK
<1>3. WorkerTypeOK /\ ClientTypeOK
  BY DEF WorkerTypeOK, ClientTypeOK, WorkerPc, ClientPc
<1>4. HistoryTypeOK
  BY DEF HistoryTypeOK
<1> QED
  BY <1>1, <1>2, <1>3, <1>4 DEF TypeOK

\* The rows a worker refers to once it has taken a job.
LEMMA WorkerRefs ==
    ASSUME TypeOK, JobRows, WorkerJobs, NEW w \in Workers, wpc[w] # "idle"
    PROVE  /\ wjob[w] \in Jobs
           /\ jobDoc[wjob[w]] \in Documents
           /\ jobColl[wjob[w]] \in Collections
<1>1. wjob[w] \in Jobs /\ jobStatus[wjob[w]] # "none"
  BY DEF WorkerJobs, TypeOK, WorkerTypeOK, WorkerPc
<1> QED
  BY <1>1 DEF JobRows

LEMMA WorkerTypeStep ==
    ASSUME TypeOK, JobRows, WorkerJobs, NEW w \in Workers, Worker(w)
    PROVE  TypeOK'
<1> USE DEF TypeOK
<1>0. wpc[w] # "idle" => /\ wjob[w] \in Jobs
                         /\ jobDoc[wjob[w]] \in Documents
                         /\ jobColl[wjob[w]] \in Collections
  BY WorkerRefs
<1>1. CASE claim_next_job(w)
  <2>1. WorkerTypeOK'
    BY <1>1, <1>0 DEF claim_next_job, WorkerTypeOK, WorkerPc, Claimable
  <2> QED
    BY <1>1, <2>1, TypeFrame DEF claim_next_job, TypeOK
<1>2. CASE claim_next_job_commit(w)
  <2>1. JobTypeOK'
    BY <1>2, <1>0 DEF claim_next_job_commit, JobTypeOK, JobStatus, Stages
  <2>2. WorkerTypeOK'
    BY <1>2, <1>0, WorkerMoves DEF claim_next_job_commit, WorkerPc
  <2> QED
    BY <1>2, <2>1, <2>2, TypeFrame DEF claim_next_job_commit, TypeOK
<1>3. CASE run_pipeline_gone(w)
  <2>1. WorkerTypeOK'
    BY <1>3, <1>0, WorkerMoves DEF run_pipeline_gone
  <2> QED
    BY <1>3, <2>1, TypeFrame DEF run_pipeline_gone, TypeOK
<1>4. CASE run_pipeline_no_collection(w)
  <2>1. JobTypeOK'
    BY <1>4, <1>0 DEF run_pipeline_no_collection, JobTypeOK, JobStatus, jobVars
  <2>2. WorkerTypeOK'
    BY <1>4, <1>0, WorkerMoves DEF run_pipeline_no_collection
  <2> QED
    BY <1>4, <2>1, <2>2, TypeFrame DEF run_pipeline_no_collection, TypeOK
<1>5. CASE run_pipeline(w)
  <2>1. DocTypeOK'
    BY <1>5, <1>0 DEF run_pipeline, DocTypeOK, DocStatus
  <2>2. WorkerTypeOK'
    BY <1>5, <1>0 DEF run_pipeline, WorkerTypeOK, WorkerPc, Pipeline, CollTypeOK, DocTypeOK
  <2> QED
    BY <1>5, <2>1, <2>2, TypeFrame DEF run_pipeline, TypeOK
<1>6. CASE run_pipeline_delete(w)
  <2>1. WorkerTypeOK'
    BY <1>6, <1>0 DEF run_pipeline_delete, WorkerTypeOK, WorkerPc, Pipeline, ChunksOf, ChunkTypeOK
  <2> QED
    BY <1>6, <2>1, TypeFrame DEF run_pipeline_delete, TypeOK
<1>7. CASE run_pipeline_commit(w)
  <2>1. DocTypeOK'
    BY <1>7, <1>0, ConstantsType DEF run_pipeline_commit, DocTypeOK, DocStatus, WorkerTypeOK
  <2>2. JobTypeOK'
    BY <1>7, <1>0 DEF run_pipeline_commit, JobTypeOK, JobStatus
  <2>3. ChunkTypeOK'
    BY <1>7, <1>0 DEF run_pipeline_commit, ChunkTypeOK, WorkerTypeOK
  <2>4. WorkerTypeOK'
    BY <1>7, <1>0, WorkerMoves DEF run_pipeline_commit
  <2> QED
    BY <1>7, <2>1, <2>2, <2>3, <2>4, TypeFrame DEF run_pipeline_commit, TypeOK
<1>8. CASE run_pipeline_error(w)
  <2>1. WorkerTypeOK'
    BY <1>8, <1>0, WorkerMoves DEF run_pipeline_error
  <2> QED
    BY <1>8, <2>1, TypeFrame DEF run_pipeline_error, TypeOK
<1>9. CASE run_pipeline_record_failure(w)
  <2>1. DocTypeOK'
    BY <1>9, <1>0 DEF run_pipeline_record_failure, DocTypeOK, DocStatus, UpdateDoc
  <2>2. JobTypeOK'
    BY <1>9, <1>0 DEF run_pipeline_record_failure, JobTypeOK, JobStatus, UpdateJob
  <2>3. WorkerTypeOK'
    BY <1>9, <1>0, WorkerMoves DEF run_pipeline_record_failure
  <2> QED
    BY <1>9, <2>1, <2>2, <2>3, TypeFrame DEF run_pipeline_record_failure, TypeOK
<1>10. ASSUME NEW from, NEW stage \in Stages, set_progress(w, from, stage)
      PROVE  TypeOK'
  <2>1. stage \in WorkerPc
    BY DEF Stages, WorkerPc, Pipeline
  <2>2. JobTypeOK'
    BY <1>10 DEF set_progress, JobTypeOK
  <2>3. WorkerTypeOK'
    BY <1>10, <2>1, WorkerMoves DEF set_progress
  <2> QED
    BY <1>10, <2>2, <2>3, TypeFrame DEF set_progress
<1>11. CASE run_pipeline_load(w) \/ run_pipeline_parse(w)
            \/ run_pipeline_chunk(w) \/ run_pipeline_embed(w)
  BY <1>10, <1>11 DEF run_pipeline_load, run_pipeline_parse,
     run_pipeline_chunk, run_pipeline_embed, Stages
<1> QED
  BY <1>1, <1>2, <1>3, <1>4, <1>5, <1>6, <1>7, <1>8, <1>9, <1>11 DEF Worker

LEMMA ClientTypeStep ==
    ASSUME TypeOK, ClientRefs, ForeignKeys, NEW r \in Clients,
           Serve(r) \/ Call(r)
    PROVE  TypeOK'
<1> USE DEF TypeOK
<1>0. rtodo[r] \subseteq Documents /\ (rpc[r] # "idle" => rcoll[r] \in Collections)
        /\ rhash[r] \in Hashes \cup {NoHash} /\ rpc[r] \in ClientPc
  BY DEF ClientTypeOK, ClientRefs
<1>1. CASE upload_and_ingest_create(r)
  <2>1. DocTypeOK'
    BY <1>0, <1>1 DEF upload_and_ingest_create, create_pending_document,
       DocTypeOK, docVars, DocStatus
  <2>2. ClientTypeOK'
    BY <1>0, <1>1, ClientMoves DEF upload_and_ingest_create, ClientPc
  <2> QED
    BY <1>1, <2>1, <2>2, TypeFrame DEF upload_and_ingest_create
<1>2. CASE upload_and_ingest_put(r)
  <2>1. DocTypeOK'
    BY <1>0, <1>2 DEF upload_and_ingest_put, DocTypeOK
  <2>2. ClientTypeOK'
    BY <1>0, <1>2, ClientMoves DEF upload_and_ingest_put, ClientPc
  <2> QED
    BY <1>2, <2>1, <2>2, TypeFrame DEF upload_and_ingest_put
<1>3. CASE register_document_create(r)
  <2>1. DocTypeOK'
    BY <1>0, <1>3 DEF register_document_create, create_pending_document,
       DocTypeOK, docVars, DocStatus
  <2>2. ClientTypeOK'
    BY <1>0, <1>3, ClientMoves DEF register_document_create, ClientPc
  <2> QED
    BY <1>3, <2>1, <2>2, TypeFrame DEF register_document_create
<1>4. CASE resolve_decision_commit(r)
  <2>1. DocTypeOK'
    BY <1>0, <1>4 DEF resolve_decision_commit, DocTypeOK, DocStatus
  <2>2. ClientTypeOK'
    BY <1>0, <1>4, ClientMoves DEF resolve_decision_commit, ClientPc
  <2> QED
    BY <1>4, <2>1, <2>2, TypeFrame DEF resolve_decision_commit
<1>5. CASE enqueue_job(r)
  <2>1. JobTypeOK'
    <3>1. PICK d \in rtodo[r] :
            \/ /\ nextJob <= MaxJobs
               /\ jobStatus' = [jobStatus EXCEPT ![nextJob] = "queued"]
               /\ jobDoc' = [jobDoc EXCEPT ![nextJob] = d]
               /\ jobColl' = [jobColl EXCEPT ![nextJob] = rcoll[r]]
               /\ nextJob' = nextJob + 1
            \/ UNCHANGED <<jobStatus, jobDoc, jobColl, nextJob>>
      BY <1>5 DEF enqueue_job
    <3>2. d \in Documents /\ rcoll[r] \in Collections /\ UNCHANGED jobStage
      BY <1>0, <1>5 DEF enqueue_job
    <3>3. nextJob \in 1..(MaxJobs + 1)
      BY DEF JobTypeOK
    <3>4. CASE UNCHANGED <<jobStatus, jobDoc, jobColl, nextJob>>
      BY <3>2, <3>4 DEF JobTypeOK
    <3>5. CASE /\ nextJob <= MaxJobs
               /\ jobStatus' = [jobStatus EXCEPT ![nextJob] = "queued"]
               /\ jobDoc' = [jobDoc EXCEPT ![nextJob] = d]
               /\ jobColl' = [jobColl EXCEPT ![nextJob] = rcoll[r]]
               /\ nextJob' = nextJob + 1
      <4>1. nextJob' \in 1..(MaxJobs + 1)
        BY <3>3, <3>5, ConstantsType
      <4>2. "queued" \in JobStatus \cup {"none", "deleted"}
        BY DEF JobStatus
      <4> QED
        BY <3>2, <3>5, <4>1, <4>2 DEF JobTypeOK
    <3> QED
      BY <3>1, <3>4, <3>5
  <2>2. ClientTypeOK'
    BY <1>0, <1>5, ClientMoves DEF enqueue_job, Abandon, ClientPc
  <2>3. HistoryTypeOK'
    BY <1>0, <1>5 DEF enqueue_job, Abandon, HistoryTypeOK
  <2> QED
    BY <1>5, <2>1, <2>2, <2>3, TypeFrame DEF enqueue_job
<1>6. ASSUME NEW c \in Collections, NEW h \in Hashes,
             upload_and_ingest(r, c, h)
      PROVE  TypeOK'
  <2>1. ClientTypeOK'
    BY <1>6, ClientMoves DEF upload_and_ingest, ClientPc
  <2>2. HistoryTypeOK'
    BY <1>6, ConstantsType DEF upload_and_ingest, Request, HistoryTypeOK
  <2> QED
    BY <1>6, <2>1, <2>2, TypeFrame DEF upload_and_ingest
<1>7. ASSUME NEW c \in Collections, NEW h \in Hashes \cup {NoHash},
             register_document(r, c, h)
      PROVE  TypeOK'
  <2>1. DocTypeOK'
    BY <1>7 DEF register_document, DocTypeOK, docVars, DocStatus
  <2>2. ClientTypeOK'
    BY <1>7, ClientMoves
       DEF register_document, ClientPc, find_document_by_hash
  <2>3. HistoryTypeOK'
    BY <1>7, ConstantsType DEF register_document, Request, HistoryTypeOK
  <2> QED
    BY <1>7, <2>1, <2>2, <2>3, TypeFrame DEF register_document
<1>8. ASSUME NEW d \in Documents, reindex_document(r, d)
      PROVE  TypeOK'
  <2>1. DocTypeOK'
    BY <1>8 DEF reindex_document, DocTypeOK, DocStatus
  <2>2. ClientTypeOK'
    BY <1>8, ClientMoves DEF reindex_document, ClientPc, ForeignKeys
  <2>3. HistoryTypeOK'
    BY <1>8, ConstantsType DEF reindex_document, Request, HistoryTypeOK
  <2> QED
    BY <1>8, <2>1, <2>2, <2>3, TypeFrame DEF reindex_document
<1>9. ASSUME NEW c \in Collections, NEW v \in Cfgs,
             reindex_collection(r, c, v)
      PROVE  TypeOK'
  <2>1. DocTypeOK'
    BY <1>9 DEF reindex_collection, DocTypeOK, DocStatus
  <2>2. ClientTypeOK'
    BY <1>9, ClientMoves DEF reindex_collection, ClientPc
  <2>3. HistoryTypeOK' /\ CollTypeOK'
    BY <1>9, ConstantsType
       DEF reindex_collection, Request, HistoryTypeOK, CollTypeOK
  <2> QED
    BY <1>9, <2>1, <2>2, <2>3, TypeFrame DEF reindex_collection
<1>10. ASSUME NEW d \in Documents, NEW c \in Collections,
              resolve_decision(r, d, c)
       PROVE  TypeOK'
  <2>1. ClientTypeOK'
    BY <1>10, ClientMoves DEF resolve_decision, ClientPc
  <2>2. HistoryTypeOK'
    BY <1>10, ConstantsType DEF resolve_decision, Request, HistoryTypeOK
  <2> QED
    BY <1>10, <2>1, <2>2, TypeFrame DEF resolve_decision
<1> QED
  BY <1>1, <1>2, <1>3, <1>4, <1>5, <1>6, <1>7, <1>8, <1>9, <1>10
     DEF Serve, Call

\* Requests of one transaction.
LEMMA AtomicTypeStep ==
    ASSUME TypeOK, CallAtomic
    PROVE  TypeOK'
<1> USE ConstantsType DEF TypeOK
<1>1. ASSUME NEW d \in Documents, NEW c \in Collections, NEW src \in BOOLEAN,
             NEW h \in Hashes \cup {NoHash}, create_document(d, c, src, h)
      PROVE  TypeOK'
  <2>1. DocTypeOK' /\ HistoryTypeOK'
    BY <1>1 DEF create_document, create_pending_document, Request, DocTypeOK,
       HistoryTypeOK, DocStatus
  <2> QED
    BY <1>1, <2>1, TypeFrame DEF create_document
<1>2. ASSUME NEW d \in Documents, NEW s \in DocStatus, update_document(d, s)
      PROVE  TypeOK'
  <2>1. DocTypeOK' /\ HistoryTypeOK'
    BY <1>2 DEF update_document, Request, DocTypeOK, HistoryTypeOK
  <2> QED
    BY <1>2, <2>1, TypeFrame DEF update_document
<1>3. ASSUME NEW D, DeleteDocs(D) PROVE DocTypeOK' /\ JobTypeOK'
  <2>1. DocTypeOK'
    BY <1>3 DEF DeleteDocs, DocTypeOK
  <2>2. JobTypeOK'
    BY <1>3 DEF DeleteDocs, JobTypeOK
  <2> QED
    BY <2>1, <2>2
<1>4. ASSUME NEW d \in Documents, delete_document(d) PROVE TypeOK'
  <2>1. ChunkTypeOK' /\ HistoryTypeOK'
    BY <1>4 DEF delete_document, Request, ChunkTypeOK, HistoryTypeOK
  <2> QED
    BY <1>3, <1>4, <2>1, TypeFrame DEF delete_document
<1>5. ASSUME NEW c \in Collections, delete_collection(c) PROVE TypeOK'
  <2>1. ChunkTypeOK' /\ HistoryTypeOK' /\ CollTypeOK'
    BY <1>5 DEF delete_collection, Request, ChunkTypeOK, HistoryTypeOK,
       CollTypeOK
  <2> QED
    BY <1>3, <1>5, <2>1, TypeFrame DEF delete_collection
<1>6. ASSUME NEW c \in Collections, NEW s \in {"active", "archived"},
             update_collection(c, s)
      PROVE  TypeOK'
  <2>1. CollTypeOK' /\ HistoryTypeOK'
    BY <1>6 DEF update_collection, Request, CollTypeOK, HistoryTypeOK
  <2> QED
    BY <1>6, <2>1, TypeFrame DEF update_collection
<1> QED
  BY <1>1, <1>2, <1>4, <1>5, <1>6 DEF CallAtomic

LEMMA FailureTypeStep ==
    ASSUME TypeOK, JobRows, WorkerJobs, Failure
    PROVE  TypeOK'
<1> USE ConstantsType DEF TypeOK
<1>1. ASSUME NEW w \in Workers, worker_crash(w) PROVE TypeOK'
  <2>1. wjob[w] \in Jobs
    BY <1>1, WorkerRefs DEF worker_crash
  <2>2. WorkerTypeOK' /\ HistoryTypeOK'
    BY <1>1, <2>1, WorkerMoves DEF worker_crash, Fault, HistoryTypeOK
  <2> QED
    BY <1>1, <2>2, TypeFrame DEF worker_crash
<1>2. ASSUME NEW w \in Workers, run_pipeline_record_lost(w) PROVE TypeOK'
  <2>1. wjob[w] \in Jobs
    BY <1>2, WorkerRefs DEF run_pipeline_record_lost
  <2>2. WorkerTypeOK' /\ HistoryTypeOK'
    BY <1>2, <2>1, WorkerMoves
       DEF run_pipeline_record_lost, Fault, HistoryTypeOK
  <2> QED
    BY <1>2, <2>2, TypeFrame DEF run_pipeline_record_lost
<1>3. ASSUME NEW r \in Clients,
             request_crash(r) \/ upload_and_ingest_put_fails(r)
      PROVE  TypeOK'
  <2>1. ClientTypeOK'
    BY <1>3, ClientMoves
       DEF request_crash, upload_and_ingest_put_fails, Abandon
  <2>2. HistoryTypeOK'
    BY <1>3 DEF request_crash, upload_and_ingest_put_fails, Abandon, Fault,
       HistoryTypeOK, ClientTypeOK
  <2> QED
    BY <1>3, <2>1, <2>2, TypeFrame
       DEF request_crash, upload_and_ingest_put_fails
<1> QED
  BY <1>1, <1>2, <1>3 DEF Failure

LEMMA TypeStep ==
    ASSUME TypeOK, JobRows, WorkerJobs, ClientRefs, ForeignKeys, [Next]_vars
    PROVE  TypeOK'
<1>1. CASE UNCHANGED vars
  BY <1>1, TypeFrame DEF vars, TypeOK, collVars, docVars, jobVars, chunkVars,
     workerVars, clientVars
<1>2. CASE Next
  BY <1>2, WorkerTypeStep, ClientTypeStep, AtomicTypeStep, FailureTypeStep
     DEF Next
<1> QED
  BY <1>1, <1>2

------------------------------------------------------------------------------
(***************************************************************************)
(* The other conjuncts of the inductive invariant.                         *)
(***************************************************************************)
\* What a step does not touch stays true.
LEMMA InvFrame ==
    /\ JobRows /\ UNCHANGED <<jobStatus, jobDoc, jobColl, nextJob>> => JobRows'
    /\ ForeignKeys /\ UNCHANGED <<collStatus, docStatus, docColl, jobStatus,
                                  jobDoc, jobColl, chunks>> => ForeignKeys'
    /\ WorkerJobs /\ UNCHANGED <<wpc, wjob, jobStatus>> => WorkerJobs'
    /\ DistinctJobs /\ UNCHANGED <<wpc, wjob>> => DistinctJobs'
    /\ ClientRefs /\ UNCHANGED <<clientVars, docStatus>> => ClientRefs'
    /\ RunningAccounted /\ UNCHANGED <<wpc, wjob, jobStatus, lost>>
         => RunningAccounted'
    /\ NoDocumentForgotten
         /\ UNCHANGED <<docStatus, docColl, jobStatus, jobDoc, jobColl, wpc,
                        wjob, clientVars, lost, orphans>>
         => NoDocumentForgotten'
<1>1. JobRows /\ UNCHANGED <<jobStatus, jobDoc, jobColl, nextJob>> => JobRows'
  BY DEF JobRows
<1>2. ForeignKeys /\ UNCHANGED <<collStatus, docStatus, docColl, jobStatus,
                                jobDoc, jobColl, chunks>> => ForeignKeys'
  BY DEF ForeignKeys, DocExists, CollExists, JobExists
<1>3. WorkerJobs /\ UNCHANGED <<wpc, wjob, jobStatus>> => WorkerJobs'
  BY DEF WorkerJobs
<1>4. DistinctJobs /\ UNCHANGED <<wpc, wjob>> => DistinctJobs'
  BY DEF DistinctJobs
<1>5. ClientRefs /\ UNCHANGED <<clientVars, docStatus>> => ClientRefs'
  BY DEF ClientRefs, clientVars
<1>6. RunningAccounted /\ UNCHANGED <<wpc, wjob, jobStatus, lost>>
        => RunningAccounted'
  BY DEF RunningAccounted, Holds
<1>7. NoDocumentForgotten
        /\ UNCHANGED <<docStatus, docColl, jobStatus, jobDoc, jobColl, wpc,
                       wjob, clientVars, lost, orphans>>
        => NoDocumentForgotten'
  BY DEF NoDocumentForgotten, Pending, WorkingOn, clientVars
<1> QED
  BY <1>1, <1>2, <1>3, <1>4, <1>5, <1>6, <1>7

\* The conjuncts of IInv other than the type.
Rest == /\ JobRows /\ ForeignKeys /\ WorkerJobs /\ DistinctJobs
        /\ ClientRefs /\ RunningAccounted /\ NoDocumentForgotten

LEMMA WorkerStep ==
    ASSUME TypeOK, Rest, NEW w \in Workers, Worker(w)
    PROVE  Rest'
<1> USE DEF Rest, docVars, jobVars, chunkVars, workerVars, clientVars, collVars
<1>0. /\ wpc[w] # "idle" => /\ wjob[w] \in Jobs
                            /\ jobDoc[wjob[w]] \in Documents
                            /\ jobColl[wjob[w]] \in Collections
      /\ wpc \in [Workers -> WorkerPc] /\ wjob \in [Workers -> Jobs \cup {0}]
      /\ jobStatus \in [Jobs -> JobStatus \cup {"none", "deleted"}]
      /\ docStatus \in [Documents -> DocStatus \cup {"none", "deleted"}]
      /\ rtodo \in [Clients -> SUBSET Documents]
      /\ chunks \subseteq Jobs
  BY WorkerRefs DEF TypeOK, WorkerTypeOK, JobTypeOK, DocTypeOK, ClientTypeOK,
     ChunkTypeOK
<1>1. CASE claim_next_job(w)
  <2>1. WorkerJobs'
    BY <1>0, <1>1 DEF claim_next_job, WorkerJobs, Claimable
  <2>2. DistinctJobs'
    BY <1>0, <1>1 DEF claim_next_job, DistinctJobs, Claimable, Locked,
       WorkerJobs, WorkerPc
  <2>3. RunningAccounted'
    BY <1>0, <1>1 DEF claim_next_job, RunningAccounted, Holds
  <2>4. NoDocumentForgotten'
    BY <1>0, <1>1 DEF claim_next_job, NoDocumentForgotten, Pending,
       WorkingOn, Pipeline, DocStatus, JobStatus
  <2> QED
    BY <1>1, <2>1, <2>2, <2>3, <2>4, InvFrame DEF claim_next_job
<1>2. CASE claim_next_job_commit(w)
  <2>1. JobRows'
    BY <1>0, <1>2 DEF claim_next_job_commit, JobRows, WorkerJobs
  <2>2. ForeignKeys'
    BY <1>0, <1>2 DEF claim_next_job_commit, ForeignKeys, DocExists,
       CollExists, JobExists, JobStatus, WorkerJobs
  <2>3. WorkerJobs'
    BY <1>0, <1>2 DEF claim_next_job_commit, WorkerJobs, DistinctJobs,
       Goto
  <2>4. DistinctJobs'
    BY <1>0, <1>2 DEF claim_next_job_commit, DistinctJobs, Goto
  <2>5. RunningAccounted'
    BY <1>0, <1>2 DEF claim_next_job_commit, RunningAccounted, Holds,
       Goto
  <2>6. NoDocumentForgotten'
    BY <1>0, <1>2 DEF claim_next_job_commit, NoDocumentForgotten,
       Pending, WorkingOn, Pipeline, DocStatus, JobStatus, Goto
  <2> QED
    BY <1>2, <2>1, <2>2, <2>3, <2>4, <2>5, <2>6, InvFrame DEF
       claim_next_job_commit
<1>3. CASE run_pipeline_gone(w)
  <2>1. WorkerJobs'
    BY <1>0, <1>3 DEF run_pipeline_gone, WorkerJobs, GoIdle
  <2>2. DistinctJobs'
    BY <1>0, <1>3 DEF run_pipeline_gone, DistinctJobs, GoIdle
  <2>3. RunningAccounted'
    BY <1>0, <1>3 DEF run_pipeline_gone, RunningAccounted, Holds,
       GoIdle, JobExists, JobStatus
  <2>4. NoDocumentForgotten'
    BY <1>0, <1>3 DEF run_pipeline_gone, NoDocumentForgotten, Pending,
       WorkingOn, Pipeline, DocStatus, JobStatus, GoIdle, ForeignKeys,
       JobExists, WorkerJobs
  <2> QED
    BY <1>3, <2>1, <2>2, <2>3, <2>4, InvFrame DEF run_pipeline_gone
<1>4. CASE run_pipeline_no_collection(w)
  <2>1. JobRows'
    BY <1>0, <1>4 DEF run_pipeline_no_collection, JobRows, WorkerJobs
  <2>2. ForeignKeys'
    BY <1>0, <1>4 DEF run_pipeline_no_collection, ForeignKeys,
       DocExists, CollExists, JobExists, JobStatus, WorkerJobs
  <2>3. WorkerJobs'
    BY <1>0, <1>4 DEF run_pipeline_no_collection, WorkerJobs,
       DistinctJobs, GoIdle
  <2>4. DistinctJobs'
    BY <1>0, <1>4 DEF run_pipeline_no_collection, DistinctJobs, GoIdle
  <2>5. RunningAccounted'
    BY <1>0, <1>4 DEF run_pipeline_no_collection, RunningAccounted,
       Holds, GoIdle
  <2>6. NoDocumentForgotten'
    BY <1>0, <1>4 DEF run_pipeline_no_collection, NoDocumentForgotten,
       Pending, WorkingOn, Pipeline, DocStatus, JobStatus, GoIdle,
       ForeignKeys, DocExists, CollExists, WorkerJobs
  <2> QED
    BY <1>4, <2>1, <2>2, <2>3, <2>4, <2>5, <2>6, InvFrame DEF
       run_pipeline_no_collection
<1>5. CASE run_pipeline(w)
  <2>1. ForeignKeys'
    BY <1>0, <1>5 DEF run_pipeline, ForeignKeys, DocExists, CollExists,
       JobExists, DocStatus
  <2>2. WorkerJobs'
    BY <1>0, <1>5 DEF run_pipeline, WorkerJobs
  <2>3. DistinctJobs'
    BY <1>0, <1>5 DEF run_pipeline, DistinctJobs
  <2>4. ClientRefs'
    BY <1>0, <1>5 DEF run_pipeline, ClientRefs
  <2>5. RunningAccounted'
    BY <1>0, <1>5 DEF run_pipeline, RunningAccounted, Holds
  <2>6. NoDocumentForgotten'
    BY <1>0, <1>5 DEF run_pipeline, NoDocumentForgotten, Pending,
       WorkingOn, Pipeline, DocStatus, JobStatus
  <2> QED
    BY <1>5, <2>1, <2>2, <2>3, <2>4, <2>5, <2>6, InvFrame DEF
       run_pipeline
<1>6. CASE run_pipeline_delete(w)
  <2>1. WorkerJobs'
    BY <1>0, <1>6 DEF run_pipeline_delete, WorkerJobs
  <2>2. DistinctJobs'
    BY <1>0, <1>6 DEF run_pipeline_delete, DistinctJobs
  <2>3. RunningAccounted'
    BY <1>0, <1>6 DEF run_pipeline_delete, RunningAccounted, Holds
  <2>4. NoDocumentForgotten'
    BY <1>0, <1>6 DEF run_pipeline_delete, NoDocumentForgotten, Pending,
       WorkingOn, Pipeline, DocStatus, JobStatus
  <2> QED
    BY <1>6, <2>1, <2>2, <2>3, <2>4, InvFrame DEF run_pipeline_delete
<1>7. CASE run_pipeline_commit(w)
  <2>1. JobRows'
    BY <1>0, <1>7 DEF run_pipeline_commit, JobRows, JobExists, JobStatus
  <2>2. ForeignKeys'
    BY <1>0, <1>7 DEF run_pipeline_commit, ForeignKeys, DocExists,
       CollExists, JobExists, DocStatus, JobStatus
  <2>3. WorkerJobs'
    BY <1>0, <1>7 DEF run_pipeline_commit, WorkerJobs, DistinctJobs,
       GoIdle, JobExists, JobStatus
  <2>4. DistinctJobs'
    BY <1>0, <1>7 DEF run_pipeline_commit, DistinctJobs, GoIdle
  <2>5. ClientRefs'
    BY <1>0, <1>7 DEF run_pipeline_commit, ClientRefs
  <2>6. RunningAccounted'
    BY <1>0, <1>7 DEF run_pipeline_commit, RunningAccounted, Holds,
       GoIdle
  <2>7. NoDocumentForgotten'
    BY <1>0, <1>7 DEF run_pipeline_commit, NoDocumentForgotten, Pending,
       WorkingOn, Pipeline, DocStatus, JobStatus, GoIdle, WorkerJobs
  <2> QED
    BY <1>7, <2>1, <2>2, <2>3, <2>4, <2>5, <2>6, <2>7, InvFrame DEF
       run_pipeline_commit
<1>8. CASE run_pipeline_error(w)
  <2>1. WorkerJobs'
    BY <1>0, <1>8 DEF run_pipeline_error, WorkerJobs, GoFailing,
       Pipeline
  <2>2. DistinctJobs'
    BY <1>0, <1>8 DEF run_pipeline_error, DistinctJobs, GoFailing,
       Pipeline
  <2>3. RunningAccounted'
    BY <1>0, <1>8 DEF run_pipeline_error, RunningAccounted, Holds,
       GoFailing, Pipeline
  <2>4. NoDocumentForgotten'
    BY <1>0, <1>8 DEF run_pipeline_error, NoDocumentForgotten, Pending,
       WorkingOn, Pipeline, DocStatus, JobStatus, GoFailing
  <2> QED
    BY <1>8, <2>1, <2>2, <2>3, <2>4, InvFrame DEF run_pipeline_error
<1>9. CASE run_pipeline_record_failure(w)
  <2>1. JobRows'
    BY <1>0, <1>9 DEF run_pipeline_record_failure, JobRows, UpdateJob,
       JobExists, JobStatus
  <2>2. ForeignKeys'
    BY <1>0, <1>9 DEF run_pipeline_record_failure, ForeignKeys,
       DocExists, CollExists, JobExists, DocStatus, JobStatus,
       UpdateJob, UpdateDoc
  <2>3. WorkerJobs'
    BY <1>0, <1>9 DEF run_pipeline_record_failure, WorkerJobs,
       DistinctJobs, GoIdle, UpdateJob
  <2>4. DistinctJobs'
    BY <1>0, <1>9 DEF run_pipeline_record_failure, DistinctJobs, GoIdle
  <2>5. ClientRefs'
    BY <1>0, <1>9 DEF run_pipeline_record_failure, ClientRefs,
       UpdateDoc, DocExists, DocStatus
  <2>6. RunningAccounted'
    BY <1>0, <1>9 DEF run_pipeline_record_failure, RunningAccounted,
       Holds, GoIdle, UpdateJob, JobExists, JobStatus
  <2>7. NoDocumentForgotten'
    BY <1>0, <1>9 DEF run_pipeline_record_failure, NoDocumentForgotten,
       Pending, WorkingOn, Pipeline, DocStatus, JobStatus, GoIdle,
       UpdateJob, UpdateDoc, DocExists, WorkerJobs
  <2> QED
    BY <1>9, <2>1, <2>2, <2>3, <2>4, <2>5, <2>6, <2>7, InvFrame DEF
       run_pipeline_record_failure
<1>10. ASSUME NEW from \in Pipeline, NEW stage \in Stages,
             set_progress(w, from, stage)
       PROVE  Rest'
  <2>1. /\ wpc[w] \in Pipeline /\ wpc'[w] \in Pipeline \cup {"failing"}
        /\ wpc' = [wpc EXCEPT ![w] = wpc'[w]] /\ wjob' = wjob
        /\ UNCHANGED <<collVars, docVars, jobStatus, jobDoc, jobColl, nextJob,
                       chunkVars, clientVars, lost, orphans>>
    BY <1>0, <1>10 DEF set_progress, Goto, GoFailing, Stages, Pipeline
  <2>2. WorkerJobs'
    BY <1>0, <2>1 DEF WorkerJobs, Pipeline
  <2>3. DistinctJobs'
    BY <1>0, <2>1 DEF DistinctJobs, Pipeline
  <2>4. RunningAccounted'
    BY <1>0, <2>1 DEF RunningAccounted, Holds, Pipeline
  <2>5. NoDocumentForgotten'
    BY <1>0, <2>1 DEF NoDocumentForgotten, Pending, WorkingOn, Pipeline, DocStatus, JobStatus
  <2> QED
    BY <2>1, <2>2, <2>3, <2>4, <2>5, InvFrame
<1>11. CASE run_pipeline_load(w) \/ run_pipeline_parse(w)
             \/ run_pipeline_chunk(w) \/ run_pipeline_embed(w)
  BY <1>10, <1>11 DEF run_pipeline_load, run_pipeline_parse,
     run_pipeline_chunk, run_pipeline_embed, Stages, Pipeline
<1> QED
  BY <1>1, <1>2, <1>3, <1>4, <1>5, <1>6, <1>7, <1>8, <1>9, <1>11 DEF
     Worker

\* A step that keeps the documents there are, and puts new ones or moved ones
\* into a collection that exists, keeps the foreign keys.
LEMMA DocsKeepKeys ==
    ASSUME TypeOK, JobRows, ForeignKeys,
           UNCHANGED <<collStatus, jobStatus, jobDoc, jobColl, chunks>>,
           \A d \in Documents :
             /\ DocExists(d) => DocExists(d)'
             /\ docStatus[d] = "deleted" => docStatus'[d] = "deleted"
             /\ DocExists(d)' => /\ docColl'[d] \in Collections
                                 /\ CollExists(docColl'[d])
    PROVE  ForeignKeys'
<1>1. \A j \in Jobs : jobStatus[j] # "none" => jobDoc[j] \in Documents
  BY DEF JobRows
<1>2. \A d \in Documents : DocExists(d)' => /\ docColl'[d] \in Collections
                                             /\ CollExists(docColl[d])'
  BY DEF CollExists
<1>3. \A j \in Jobs : /\ JobExists(j)' => DocExists(jobDoc[j])'
                      /\ jobStatus'[j] = "deleted"
                           => docStatus'[jobDoc'[j]] = "deleted"
  BY <1>1 DEF ForeignKeys, JobExists, DocExists, JobStatus
<1>4. \A j \in chunks' : JobExists(j)' /\ CollExists(jobColl[j])'
  BY DEF ForeignKeys, JobExists, CollExists
<1> QED
  BY <1>2, <1>3, <1>4 DEF ForeignKeys

LEMMA ClientStep ==
    ASSUME TypeOK, Rest, NEW r \in Clients, Serve(r) \/ Call(r)
    PROVE  Rest'
<1> USE DEF Rest, docVars, jobVars, chunkVars, workerVars, clientVars, collVars
<1>0. /\ rtodo \in [Clients -> SUBSET Documents]
      /\ rcoll \in [Clients -> Collections \cup {None}]
      /\ rpc \in [Clients -> ClientPc]
      /\ docStatus \in [Documents -> DocStatus \cup {"none", "deleted"}]
      /\ docColl \in [Documents -> Collections \cup {None}]
      /\ jobStatus \in [Jobs -> JobStatus \cup {"none", "deleted"}]
      /\ jobDoc \in [Jobs -> Documents \cup {None}]
      /\ jobColl \in [Jobs -> Collections \cup {None}]
      /\ collStatus \in [Collections -> {"active", "archived", "deleted"}]
      /\ chunks \subseteq Jobs /\ None \notin Documents
  BY ConstantsType DEF TypeOK, JobTypeOK, DocTypeOK, ClientTypeOK, CollTypeOK,
     ChunkTypeOK
<1>1. CASE upload_and_ingest_create(r)
  <2>1. ForeignKeys'
    <3>1. \A d \in Documents :
            /\ DocExists(d) => DocExists(d)'
            /\ docStatus[d] = "deleted" => docStatus'[d] = "deleted"
            /\ DocExists(d)' => /\ docColl'[d] \in Collections
                                /\ CollExists(docColl'[d])
      <4>1. CASE UNCHANGED docVars
        BY <4>1 DEF DocExists, ForeignKeys
      <4>2. CASE ~UNCHANGED docVars
        <5>1. PICK e \in Documents : /\ docStatus[e] = "none"
                 /\ docStatus' = [docStatus EXCEPT ![e] = "registered"]
                 /\ docColl' = [docColl EXCEPT ![e] = rcoll[r]]
                 /\ CollExists(rcoll[r])
          BY <1>1, <4>2 DEF upload_and_ingest_create, create_pending_document
        <5>2. rcoll[r] \in Collections
          BY <1>1 DEF upload_and_ingest_create, ClientRefs
        <5> QED
          BY <1>0, <5>1, <5>2 DEF DocExists, DocStatus, ForeignKeys
      <4> QED
        BY <4>1, <4>2
    <3> QED
      BY <1>1, <3>1, DocsKeepKeys DEF upload_and_ingest_create
  <2>2. ClientRefs'
    BY <1>0, <1>1 DEF upload_and_ingest_create, create_pending_document,
       ClientRefs, Continue, Answer, DocStatus
  <2>3. NoDocumentForgotten'
    BY <1>0, <1>1 DEF upload_and_ingest_create, create_pending_document,
       NoDocumentForgotten, Pending, WorkingOn, Continue, Answer, ClientRefs,
       DocStatus
  <2> QED
    BY <1>1, <2>1, <2>2, <2>3, InvFrame DEF upload_and_ingest_create
<1>2. CASE upload_and_ingest_put(r)
  <2>1. ClientRefs'
    BY <1>0, <1>2 DEF upload_and_ingest_put, ClientRefs, Continue, Answer,
       DocStatus
  <2>2. NoDocumentForgotten'
    BY <1>0, <1>2 DEF upload_and_ingest_put, NoDocumentForgotten, Pending,
       WorkingOn, Continue, Answer, ClientRefs, DocStatus, DocExists
  <2> QED
    BY <1>2, <2>1, <2>2, InvFrame DEF upload_and_ingest_put
<1>3. CASE register_document_create(r)
  <2>1. ForeignKeys'
    <3>1. \A d \in Documents :
            /\ DocExists(d) => DocExists(d)'
            /\ docStatus[d] = "deleted" => docStatus'[d] = "deleted"
            /\ DocExists(d)' => /\ docColl'[d] \in Collections
                                /\ CollExists(docColl'[d])
      <4>1. CASE UNCHANGED docVars
        BY <4>1 DEF DocExists, ForeignKeys
      <4>2. CASE ~UNCHANGED docVars
        <5>1. PICK e \in Documents : /\ docStatus[e] = "none"
                 /\ docStatus' = [docStatus EXCEPT ![e] = "registered"]
                 /\ docColl' = [docColl EXCEPT ![e] = rcoll[r]]
                 /\ CollExists(rcoll[r])
          BY <1>3, <4>2 DEF register_document_create, create_pending_document
        <5>2. rcoll[r] \in Collections
          BY <1>3 DEF register_document_create, ClientRefs
        <5> QED
          BY <1>0, <5>1, <5>2 DEF DocExists, DocStatus, ForeignKeys
      <4> QED
        BY <4>1, <4>2
    <3> QED
      BY <1>3, <3>1, DocsKeepKeys DEF register_document_create
  <2>2. ClientRefs'
    BY <1>0, <1>3 DEF register_document_create, create_pending_document,
       ClientRefs, Continue, Answer, DocStatus
  <2>3. NoDocumentForgotten'
    BY <1>0, <1>3 DEF register_document_create, create_pending_document,
       NoDocumentForgotten, Pending, WorkingOn, Continue, Answer, ClientRefs,
       DocStatus
  <2> QED
    BY <1>3, <2>1, <2>2, <2>3, InvFrame DEF register_document_create
<1>4. CASE resolve_decision_commit(r)
  <2>1. ForeignKeys'
    BY <1>0, <1>4, DocsKeepKeys DEF resolve_decision_commit, ForeignKeys,
       DocExists, CollExists, JobExists, DocStatus, ClientRefs
  <2>2. ClientRefs'
    BY <1>0, <1>4 DEF resolve_decision_commit, ClientRefs, Continue, Answer,
       DocStatus, DocExists
  <2>3. NoDocumentForgotten'
    BY <1>0, <1>4 DEF resolve_decision_commit, NoDocumentForgotten, Pending,
       WorkingOn, Continue, Answer, ClientRefs, DocStatus, DocExists
  <2> QED
    BY <1>4, <2>1, <2>2, <2>3, InvFrame DEF resolve_decision_commit
<1>5. CASE enqueue_job(r)
  <2>1. PICK d \in rtodo[r] :
          \/ /\ DocExists(d) /\ nextJob <= MaxJobs
             /\ jobStatus' = [jobStatus EXCEPT ![nextJob] = "queued"]
             /\ jobDoc' = [jobDoc EXCEPT ![nextJob] = d]
             /\ jobColl' = [jobColl EXCEPT ![nextJob] = rcoll[r]]
             /\ nextJob' = nextJob + 1
             /\ orphans' = IF docColl[d] = rcoll[r] THEN orphans \ {d}
                           ELSE orphans
             /\ rtodo' = [rtodo EXCEPT ![r] = rtodo[r] \ {d}]
             /\ \/ rpc' = [rpc EXCEPT ![r] = "idle"] /\ rtodo[r] = {d}
                \/ rpc' = rpc /\ rcoll' = rcoll
             /\ \A s \in Clients \ {r} : rcoll'[s] = rcoll[s]
          \/ /\ ~DocExists(d) /\ Abandon(r)
             /\ UNCHANGED <<jobStatus, jobDoc, jobColl, nextJob>>
    BY <1>0, <1>5 DEF enqueue_job, Answer, Continue
  <2>2. /\ d \in Documents /\ rcoll[r] \in Collections /\ rpc[r] = "enqueue"
        /\ UNCHANGED <<collVars, docVars, jobStage, chunkVars, workerVars, lost>>
    BY <1>0, <1>5 DEF enqueue_job, ClientRefs
  <2>3. CASE ~DocExists(d) /\ Abandon(r)
             /\ UNCHANGED <<jobStatus, jobDoc, jobColl, nextJob>>
    <3>1. ClientRefs'
      BY <1>0, <2>3, <2>2 DEF ClientRefs, Abandon, Answer, Continue
    <3>2. NoDocumentForgotten'
      BY <1>0, <2>3, <2>2
         DEF NoDocumentForgotten, Pending, WorkingOn, Abandon, Answer, Continue
    <3> QED
      BY <2>3, <2>2, <3>1, <3>2, InvFrame
  <2>4. CASE /\ DocExists(d) /\ nextJob <= MaxJobs
             /\ jobStatus' = [jobStatus EXCEPT ![nextJob] = "queued"]
             /\ jobDoc' = [jobDoc EXCEPT ![nextJob] = d]
             /\ jobColl' = [jobColl EXCEPT ![nextJob] = rcoll[r]]
             /\ nextJob' = nextJob + 1
             /\ orphans' = IF docColl[d] = rcoll[r] THEN orphans \ {d}
                           ELSE orphans
             /\ rtodo' = [rtodo EXCEPT ![r] = rtodo[r] \ {d}]
             /\ \/ rpc' = [rpc EXCEPT ![r] = "idle"] /\ rtodo[r] = {d}
                \/ rpc' = rpc /\ rcoll' = rcoll
             /\ \A s \in Clients \ {r} : rcoll'[s] = rcoll[s]
    <3>1. /\ nextJob \in Jobs /\ jobStatus[nextJob] = "none"
          /\ jobDoc[nextJob] = None
      <4>1. nextJob \in Jobs
        BY <2>4, ConstantsType DEF TypeOK, JobTypeOK, Jobs
      <4> QED
        BY <4>1, CfgsJobs DEF JobRows
    <3>2. JobRows'
      <4> SUFFICES ASSUME NEW j \in Jobs
                   PROVE  /\ j < nextJob' <=> jobStatus'[j] # "none"
                          /\ j < nextJob' => /\ jobDoc'[j] \in Documents
                                             /\ jobColl'[j] \in Collections
                          /\ j >= nextJob' => jobDoc'[j] = None
        BY DEF JobRows
      <4>1. nextJob \in Nat /\ j \in Nat
        BY <3>1, CfgsJobs
      <4>2. CASE j = nextJob
        BY <1>0, <2>2, <2>4, <3>1, <4>1, <4>2
      <4>3. CASE j # nextJob
        BY <1>0, <2>2, <2>4, <3>1, <4>1, <4>3 DEF JobRows
      <4> QED
        BY <4>2, <4>3
    <3>3. ForeignKeys'
      BY <1>0, <2>2, <2>4, <3>1
         DEF ForeignKeys, DocExists, CollExists, JobExists, JobStatus
    <3>4. WorkerJobs'
      BY <1>0, <2>2, <2>4, <3>1 DEF WorkerJobs
    <3>5. ClientRefs'
      BY <1>0, <2>2, <2>4 DEF ClientRefs
    <3>6. RunningAccounted'
      BY <1>0, <2>2, <2>4, <3>1 DEF RunningAccounted, Holds
    <3>7. NoDocumentForgotten'
      <4> SUFFICES ASSUME NEW e \in Documents,
                          docStatus[e] \in {"registered", "processing"}
                   PROVE  \/ Pending(e)' \/ WorkingOn(e)' \/ e \in orphans'
                          \/ \E j \in lost' : jobDoc'[j] = e
        BY <2>2 DEF NoDocumentForgotten
      <4>1. \A j \in Jobs : jobDoc[j] = e =>
              /\ j # nextJob /\ jobDoc'[j] = e /\ jobColl'[j] = jobColl[j]
              /\ jobStatus'[j] = jobStatus[j]
        BY <1>0, <2>4, <3>1
      <4>2. WorkingOn(e) => WorkingOn(e)'
        BY <1>0, <2>2, <4>1 DEF WorkingOn, WorkerJobs, Pipeline
      <4>3. (\E j \in lost : jobDoc[j] = e) => \E j \in lost' : jobDoc'[j] = e
        BY <2>2, <4>1 DEF TypeOK, HistoryTypeOK
      <4>4. CASE e = d /\ docColl[d] = rcoll[r]
        <5>1. /\ jobDoc'[nextJob] = d /\ jobColl'[nextJob] = docColl'[d]
              /\ jobStatus'[nextJob] = "queued"
          BY <1>0, <2>2, <2>4, <3>1, <4>4
        <5> QED
          BY <3>1, <4>4, <5>1 DEF Pending
      <4>5. CASE ~(e = d /\ docColl[d] = rcoll[r])
        <5>1. e \in orphans => e \in orphans'
          BY <2>4, <4>5
        <5>2. Pending(e) => Pending(e)'
          BY <1>0, <2>2, <2>4, <4>1, <4>5 DEF Pending
        <5> QED
          BY <4>2, <4>3, <5>1, <5>2 DEF NoDocumentForgotten
      <4> QED
        BY <4>4, <4>5
    <3> QED
      BY <2>2, <2>4, <3>2, <3>3, <3>4, <3>5, <3>6, <3>7, InvFrame
  <2> QED
    BY <2>1, <2>3, <2>4
<1>6. ASSUME NEW c \in Collections, NEW h \in Hashes,
             upload_and_ingest(r, c, h)
      PROVE  Rest'
  <2>1. ClientRefs'
    BY <1>0, <1>6 DEF upload_and_ingest, ClientRefs, Continue, Answer,
       DocStatus
  <2>2. NoDocumentForgotten'
    BY <1>0, <1>6 DEF upload_and_ingest, NoDocumentForgotten, Pending,
       WorkingOn, Continue, Answer, ClientRefs, DocStatus
  <2> QED
    BY <1>6, <2>1, <2>2, InvFrame DEF upload_and_ingest
<1>7. ASSUME NEW c \in Collections, NEW h \in Hashes \cup {NoHash},
             register_document(r, c, h)
      PROVE  Rest'
  <2>1. ForeignKeys'
    <3>1. \A d \in Documents :
            /\ DocExists(d) => DocExists(d)'
            /\ docStatus[d] = "deleted" => docStatus'[d] = "deleted"
            /\ DocExists(d)' => /\ docColl'[d] \in Collections
                                /\ CollExists(docColl'[d])
      <4>1. CASE UNCHANGED docVars
        BY <4>1 DEF DocExists, ForeignKeys
      <4>2. CASE ~UNCHANGED docVars
        <5>1. PICK e \in find_document_by_hash(c, h) :
                 /\ docStatus' = [docStatus EXCEPT ![e] = "registered"]
                 /\ UNCHANGED docColl
          BY <1>7, <4>2 DEF register_document
        <5> QED
          BY <1>0, <5>1
             DEF find_document_by_hash, DocExists, DocStatus, ForeignKeys
      <4> QED
        BY <4>1, <4>2
    <3> QED
      BY <1>7, <3>1, DocsKeepKeys DEF register_document
  <2>2. ClientRefs'
    BY <1>0, <1>7 DEF register_document, find_document_by_hash, ClientRefs,
       Continue, Answer, DocStatus, DocExists
  <2>3. NoDocumentForgotten'
    BY <1>0, <1>7 DEF register_document, find_document_by_hash,
       NoDocumentForgotten, Pending, WorkingOn, Continue, Answer, ClientRefs,
       DocStatus, DocExists
  <2> QED
    BY <1>7, <2>1, <2>2, <2>3, InvFrame DEF register_document
<1>8. ASSUME NEW d \in Documents, reindex_document(r, d)
      PROVE  Rest'
  <2>1. ForeignKeys'
    BY <1>0, <1>8, DocsKeepKeys DEF reindex_document, ForeignKeys, DocExists,
       CollExists, JobExists, DocStatus, ClientRefs
  <2>2. ClientRefs'
    BY <1>0, <1>8 DEF reindex_document, ClientRefs, Continue, Answer,
       DocStatus, DocExists, ForeignKeys
  <2>3. NoDocumentForgotten'
    BY <1>0, <1>8 DEF reindex_document, NoDocumentForgotten, Pending,
       WorkingOn, Continue, Answer, ClientRefs, DocStatus, DocExists
  <2> QED
    BY <1>8, <2>1, <2>2, <2>3, InvFrame DEF reindex_document
<1>9. ASSUME NEW c \in Collections, NEW v \in Cfgs,
             reindex_collection(r, c, v)
      PROVE  Rest'
  <2>1. ForeignKeys'
    BY <1>0, <1>9, DocsKeepKeys DEF reindex_collection, ForeignKeys,
       DocExists, CollExists, JobExists, DocStatus, ClientRefs
  <2>2. ClientRefs'
    BY <1>0, <1>9 DEF reindex_collection, ClientRefs, Continue, Answer,
       DocStatus, DocExists
  <2>3. NoDocumentForgotten'
    BY <1>0, <1>9 DEF reindex_collection, NoDocumentForgotten, Pending,
       WorkingOn, Continue, Answer, ClientRefs, DocStatus, DocExists
  <2> QED
    BY <1>9, <2>1, <2>2, <2>3, InvFrame DEF reindex_collection
<1>10. ASSUME NEW d \in Documents, NEW c \in Collections,
             resolve_decision(r, d, c)
      PROVE  Rest'
  <2>1. ClientRefs'
    BY <1>0, <1>10 DEF resolve_decision, ClientRefs, Continue, Answer,
       DocStatus, DocExists
  <2>2. NoDocumentForgotten'
    BY <1>0, <1>10 DEF resolve_decision, NoDocumentForgotten, Pending,
       WorkingOn, Continue, Answer, ClientRefs, DocStatus, DocExists
  <2> QED
    BY <1>10, <2>1, <2>2, InvFrame DEF resolve_decision
<1> QED
  BY <1>1, <1>2, <1>3, <1>4, <1>5, <1>6, <1>7, <1>8, <1>9, <1>10
     DEF Serve, Call

LEMMA AtomicStep ==
    ASSUME TypeOK, Rest, CallAtomic
    PROVE  Rest'
<1> USE DEF Rest, docVars, jobVars, chunkVars, workerVars, clientVars, collVars
<1>0. /\ rtodo \in [Clients -> SUBSET Documents]
      /\ rcoll \in [Clients -> Collections \cup {None}]
      /\ rpc \in [Clients -> ClientPc]
      /\ docStatus \in [Documents -> DocStatus \cup {"none", "deleted"}]
      /\ docColl \in [Documents -> Collections \cup {None}]
      /\ jobStatus \in [Jobs -> JobStatus \cup {"none", "deleted"}]
      /\ jobDoc \in [Jobs -> Documents \cup {None}]
      /\ jobColl \in [Jobs -> Collections \cup {None}]
      /\ collStatus \in [Collections -> {"active", "archived", "deleted"}]
      /\ chunks \subseteq Jobs /\ None \notin Documents
  BY ConstantsType DEF TypeOK, JobTypeOK, DocTypeOK, ClientTypeOK, CollTypeOK,
     ChunkTypeOK
<1>1. ASSUME NEW d \in Documents, NEW c \in Collections, NEW src \in BOOLEAN,
             NEW h \in Hashes \cup {NoHash}, create_document(d, c, src, h)
      PROVE  Rest'
  <2>1. ForeignKeys'
    BY <1>0, <1>1, DocsKeepKeys DEF create_document, create_pending_document,
       ForeignKeys, DocExists, CollExists, JobExists, DocStatus
  <2>2. ClientRefs'
    BY <1>0, <1>1 DEF create_document, create_pending_document, ClientRefs
  <2>3. NoDocumentForgotten'
    BY <1>0, <1>1 DEF create_document, create_pending_document,
       NoDocumentForgotten, Pending, WorkingOn, ClientRefs, DocStatus
  <2> QED
    BY <1>1, <2>1, <2>2, <2>3, InvFrame DEF create_document
<1>2. ASSUME NEW d \in Documents, NEW s \in DocStatus, update_document(d, s)
      PROVE  Rest'
  <2>1. ForeignKeys'
    BY <1>0, <1>2, DocsKeepKeys DEF update_document, ForeignKeys, DocExists,
       CollExists, JobExists, DocStatus
  <2>2. ClientRefs'
    BY <1>0, <1>2 DEF update_document, ClientRefs, DocStatus
  <2>3. NoDocumentForgotten'
    BY <1>0, <1>2 DEF update_document, NoDocumentForgotten, Pending, WorkingOn
  <2> QED
    BY <1>2, <2>1, <2>2, <2>3, InvFrame DEF update_document
<1>3. ASSUME NEW D \in SUBSET Documents, DeleteDocs(D), UNCHANGED workerVars,
             UNCHANGED <<clientVars, lost, orphans>>,
             \A d \in D : DocExists(d)
      PROVE  /\ JobRows' /\ WorkerJobs' /\ DistinctJobs' /\ ClientRefs'
             /\ RunningAccounted' /\ NoDocumentForgotten'
             /\ \A j \in Jobs : /\ JobExists(j)' => DocExists(jobDoc[j])'
                                /\ jobStatus'[j] = "deleted"
                                     => docStatus'[jobDoc'[j]] = "deleted"
  <2>0. nextJob \in Nat /\ Jobs \subseteq Nat
    BY CfgsJobs DEF TypeOK, JobTypeOK
  <2>1. JobRows'
    <3> SUFFICES ASSUME NEW j \in Jobs
                 PROVE  j < nextJob <=> jobStatus'[j] # "none"
      BY <1>0, <1>3 DEF DeleteDocs, JobRows
    <3>1. j < nextJob \/ j >= nextJob
      BY <2>0
    <3> QED
      BY <1>0, <1>3, <3>1 DEF DeleteDocs, JobRows
  <2>2. WorkerJobs'
    BY <1>0, <1>3 DEF DeleteDocs, WorkerJobs, Locked
  <2>3. ClientRefs'
    BY <1>0, <1>3 DEF DeleteDocs, ClientRefs
  <2>4. RunningAccounted'
    BY <1>0, <1>3 DEF DeleteDocs, RunningAccounted, Holds
  <2>5. NoDocumentForgotten'
    BY <1>0, <1>3 DEF DeleteDocs, NoDocumentForgotten, Pending, WorkingOn
  <2>6. \A j \in Jobs : /\ JobExists(j)' => DocExists(jobDoc[j])'
                        /\ jobStatus'[j] = "deleted"
                             => docStatus'[jobDoc'[j]] = "deleted"
    BY <1>0, <1>3
       DEF DeleteDocs, ForeignKeys, JobExists, DocExists, JobStatus, JobRows
  <2> QED
    BY <1>3, <2>1, <2>2, <2>3, <2>4, <2>5, <2>6, InvFrame
<1>4. ASSUME NEW d \in Documents, delete_document(d) PROVE Rest'
  <2> DEFINE D == {d}
  <2>1. /\ DeleteDocs(D) /\ D \in SUBSET Documents
        /\ \A e \in D : DocExists(e)
        /\ UNCHANGED workerVars /\ UNCHANGED <<clientVars, lost, orphans>>
    BY <1>4 DEF delete_document
  <2> HIDE DEF D
  <2>2. /\ JobRows' /\ WorkerJobs' /\ DistinctJobs' /\ ClientRefs'
        /\ RunningAccounted' /\ NoDocumentForgotten'
        /\ \A j \in Jobs : /\ JobExists(j)' => DocExists(jobDoc[j])'
                           /\ jobStatus'[j] = "deleted"
                                => docStatus'[jobDoc'[j]] = "deleted"
    BY <1>3, <2>1
  <2>3. UNCHANGED <<docColl, jobDoc, jobColl>>
    BY <2>1 DEF DeleteDocs
  <2>4. \A e \in Documents :
          DocExists(e)' => docColl'[e] \in Collections /\ CollExists(docColl[e])'
    BY <1>0, <1>4, <2>1, <2>3
       DEF delete_document, DeleteDocs, ForeignKeys, DocExists, CollExists, DocStatus, D
  <2>5. \A j \in chunks' : JobExists(j)' /\ CollExists(jobColl[j])'
    BY <1>0, <1>4, <2>1, <2>3
       DEF delete_document, DeleteDocs, ForeignKeys, JobExists, CollExists, D
  <2>6. ForeignKeys'
    BY <2>2, <2>4, <2>5 DEF ForeignKeys
  <2> QED
    BY <2>2, <2>6
<1>5. ASSUME NEW c \in Collections, delete_collection(c) PROVE Rest'
  <2> DEFINE D == {d \in Documents : DocExists(d) /\ docColl[d] = c}
  <2>1. /\ DeleteDocs(D) /\ D \in SUBSET Documents
        /\ \A e \in D : DocExists(e)
        /\ UNCHANGED workerVars /\ UNCHANGED <<clientVars, lost, orphans>>
    BY <1>5 DEF delete_collection
  <2> HIDE DEF D
  <2>2. /\ JobRows' /\ WorkerJobs' /\ DistinctJobs' /\ ClientRefs'
        /\ RunningAccounted' /\ NoDocumentForgotten'
        /\ \A j \in Jobs : /\ JobExists(j)' => DocExists(jobDoc[j])'
                           /\ jobStatus'[j] = "deleted"
                                => docStatus'[jobDoc'[j]] = "deleted"
    BY <1>3, <2>1
  <2>3. UNCHANGED <<docColl, jobDoc, jobColl>>
    BY <2>1 DEF DeleteDocs
  <2>4. \A e \in Documents :
          DocExists(e)' => docColl'[e] \in Collections /\ CollExists(docColl[e])'
    BY <1>0, <1>5, <2>1, <2>3
       DEF delete_collection, DeleteDocs, ForeignKeys, DocExists, CollExists, DocStatus, D
  <2>5. \A j \in chunks' : JobExists(j)' /\ CollExists(jobColl[j])'
    BY <1>0, <1>5, <2>1, <2>3
       DEF delete_collection, DeleteDocs, ForeignKeys, JobExists, CollExists, D
  <2>6. ForeignKeys'
    BY <2>2, <2>4, <2>5 DEF ForeignKeys
  <2> QED
    BY <2>2, <2>6
<1>6. ASSUME NEW c \in Collections, NEW s \in {"active", "archived"},
             update_collection(c, s)
      PROVE  Rest'
  <2>1. ForeignKeys'
    BY <1>0, <1>6 DEF update_collection, ForeignKeys, DocExists, CollExists,
       JobExists
  <2> QED
    BY <1>6, <2>1, InvFrame DEF update_collection
<1> QED
  BY <1>1, <1>2, <1>4, <1>5, <1>6 DEF CallAtomic

LEMMA FailureStep ==
    ASSUME TypeOK, Rest, Failure
    PROVE  Rest'
<1> USE DEF Rest, docVars, jobVars, chunkVars, workerVars, clientVars, collVars
<1>0. /\ wpc \in [Workers -> WorkerPc] /\ wjob \in [Workers -> Jobs \cup {0}]
      /\ rtodo \in [Clients -> SUBSET Documents]
      /\ rpc \in [Clients -> ClientPc]
      /\ rcoll \in [Clients -> Collections \cup {None}]
      /\ jobStatus \in [Jobs -> JobStatus \cup {"none", "deleted"}]
  BY DEF TypeOK, WorkerTypeOK, ClientTypeOK, JobTypeOK
<1>1. ASSUME NEW w \in Workers, worker_crash(w) \/ run_pipeline_record_lost(w)
      PROVE  Rest'
  <2>1. WorkerJobs'
    BY <1>0, <1>1 DEF worker_crash, run_pipeline_record_lost, GoIdle,
       WorkerJobs
  <2>2. DistinctJobs'
    BY <1>0, <1>1 DEF worker_crash, run_pipeline_record_lost, GoIdle,
       DistinctJobs
  <2>3. RunningAccounted'
    BY <1>0, <1>1 DEF worker_crash, run_pipeline_record_lost, GoIdle,
       RunningAccounted, Holds
  <2>4. NoDocumentForgotten'
    BY <1>0, <1>1 DEF worker_crash, run_pipeline_record_lost, GoIdle,
       NoDocumentForgotten, Pending, WorkingOn, Pipeline
  <2> QED
    BY <1>1, <2>1, <2>2, <2>3, <2>4, InvFrame
       DEF worker_crash, run_pipeline_record_lost
<1>2. ASSUME NEW r \in Clients,
             request_crash(r) \/ upload_and_ingest_put_fails(r)
      PROVE  Rest'
  <2>1. ClientRefs'
    BY <1>0, <1>2 DEF request_crash, upload_and_ingest_put_fails, Abandon,
       Answer, Continue, ClientRefs
  <2>2. NoDocumentForgotten'
    BY <1>0, <1>2 DEF request_crash, upload_and_ingest_put_fails, Abandon,
       Answer, Continue, NoDocumentForgotten, Pending, WorkingOn
  <2> QED
    BY <1>2, <2>1, <2>2, InvFrame
       DEF request_crash, upload_and_ingest_put_fails
<1> QED
  BY <1>1, <1>2 DEF Failure

LEMMA InitRest == Init => Rest
BY ConstantsType, CfgsJobs DEF Init, Rest, JobRows, ForeignKeys, WorkerJobs, DistinctJobs,
   ClientRefs, RunningAccounted, NoDocumentForgotten, DocExists, JobExists,
   DocStatus, JobStatus, Jobs

LEMMA RestStep ==
    ASSUME TypeOK, Rest, [Next]_vars
    PROVE  Rest'
<1>1. CASE UNCHANGED vars
  BY <1>1, InvFrame DEF vars, Rest, collVars, docVars, jobVars, chunkVars,
     workerVars, clientVars
<1>2. CASE Next
  BY <1>2, WorkerStep, ClientStep, AtomicStep, FailureStep DEF Next
<1> QED
  BY <1>1, <1>2

------------------------------------------------------------------------------
(***************************************************************************)
(* The theorems.                                                           *)
(***************************************************************************)
\* The inductive invariant holds in every reachable state.
THEOREM Invariance == Spec => []IInv
<1>1. Init => IInv
  BY InitTypeOK, InitRest DEF IInv, Rest
<1>2. IInv /\ [Next]_vars => IInv'
  BY TypeStep, RestStep DEF IInv, Rest
<1> QED
  BY <1>1, <1>2, PTL DEF Spec

\* Every column and every local variable of the workers and requests keeps
\* its type, for any number of workers, requests, documents and collections.
THEOREM TypeCorrectness == Spec => []TypeOK
<1>1. IInv => TypeOK
  BY DEF IInv
<1> QED
  BY <1>1, Invariance, PTL

\* FOR UPDATE SKIP LOCKED gives a job to one worker only, and no other
\* transaction takes the job from it.
THEOREM JobsOwnedOnce == Spec => []JobOwnedOnce
<1>1. IInv => JobOwnedOnce
  BY DEF IInv, JobOwnedOnce, DistinctJobs, WorkerJobs
<1> QED
  BY <1>1, Invariance, PTL

\* Every exit of run_pipeline settles the job it claimed, up to crashes.
THEOREM RunningJobsAccounted == Spec => []RunningAccounted
<1>1. IInv => RunningAccounted
  BY DEF IInv
<1> QED
  BY <1>1, Invariance, PTL

\* No interleaving of uploads, moves, reindexing and deletions with the
\* workers leaves a document waiting for a job nobody will run.
THEOREM NoDocumentIsForgotten == Spec => []NoDocumentForgotten
<1>1. IInv => NoDocumentForgotten
  BY DEF IInv
<1> QED
  BY <1>1, Invariance, PTL

------------------------------------------------------------------------------
(***************************************************************************)
(* The jobs table with its workers and handlers implements the abstract    *)
(* queue of JobQueue: every committed transaction of Ingestion is one      *)
(* operation of the queue or leaves it alone.                              *)
(***************************************************************************)

\* The refinement mapping: who holds which job.
Held == {p \in Workers \X Jobs : Holds(p[1], p[2])}

LEMMA HeldPairs ==
    ASSUME NEW w \in Workers, NEW j \in Jobs
    PROVE  <<w, j>> \in Held <=> Holds(w, j)
BY DEF Held

\* A worker that holds a job and goes back to polling lets go of that job.
LEMMA HeldLost ==
    ASSUME TypeOK, WorkerJobs, NEW w \in Workers,
           wpc[w] \notin {"idle", "claiming"}, GoIdle(w)
    PROVE  /\ <<w, wjob[w]>> \in Held
           /\ Held' = Held \ {<<w, wjob[w]>>}
<1>0. wpc \in [Workers -> WorkerPc] /\ wjob \in [Workers -> Jobs \cup {0}]
  BY DEF TypeOK, WorkerTypeOK
<1>1. wjob[w] \in Jobs
  BY DEF WorkerJobs
<1>2. <<w, wjob[w]>> \in Held
  BY <1>1, HeldPairs DEF Holds
<1>3. ASSUME NEW v \in Workers, NEW j \in Jobs
      PROVE  Holds(v, j)' <=> Holds(v, j) /\ v # w
  BY <1>0 DEF GoIdle, Holds
<1>4. ASSUME NEW v \in Workers, NEW j \in Jobs, Holds(v, j)
      PROVE  v = w <=> <<v, j>> = <<w, wjob[w]>>
  BY <1>4 DEF Holds
<1>5. Held' = Held \ {<<w, wjob[w]>>}
  BY <1>3, <1>4 DEF Held
<1> QED
  BY <1>2, <1>5

\* The worker that commits a claim holds one job more.
LEMMA HeldGained ==
    ASSUME TypeOK, WorkerJobs, NEW w \in Workers, wpc[w] = "claiming",
           Goto(w, "claimed")
    PROVE  /\ \A k \in Jobs : <<w, k>> \notin Held
           /\ Held' = Held \cup {<<w, wjob[w]>>}
<1>0. wpc \in [Workers -> WorkerPc] /\ wjob \in [Workers -> Jobs \cup {0}]
  BY DEF TypeOK, WorkerTypeOK
<1>1. wjob[w] \in Jobs
  BY DEF WorkerJobs
<1>2. \A k \in Jobs : <<w, k>> \notin Held
  BY HeldPairs DEF Holds
<1>3. ASSUME NEW v \in Workers, NEW j \in Jobs
      PROVE  Holds(v, j)' <=> Holds(v, j) \/ <<v, j>> = <<w, wjob[w]>>
  BY <1>0 DEF Goto, Holds
<1>4. Held' = Held \cup {<<w, wjob[w]>>}
  BY <1>1, <1>3 DEF Held
<1> QED
  BY <1>2, <1>4

\* A worker that stays inside, or outside, of the pipeline keeps its job.
LEMMA HeldKept ==
    ASSUME \A v \in Workers :
             /\ wpc'[v] \in {"idle", "claiming"} <=> wpc[v] \in {"idle", "claiming"}
             /\ wpc[v] \notin {"idle", "claiming"} => wjob'[v] = wjob[v]
    PROVE  Held' = Held
<1>1. ASSUME NEW v \in Workers, NEW j \in Jobs
      PROVE  Holds(v, j)' <=> Holds(v, j)
  BY DEF Holds
<1> QED
  BY <1>1 DEF Held

------------------------------------------------------------------------------
(***************************************************************************)
(* Every step is a step of the queue.                                      *)
(***************************************************************************)
LEMMA WorkerRefines ==
    ASSUME TypeOK, Rest, NEW w \in Workers,
           Worker(w) \/ worker_crash(w) \/ run_pipeline_record_lost(w)
    PROVE  [JQ!Next]_(JQ!vars)
<1> USE DEF docVars, jobVars, chunkVars, workerVars, clientVars, collVars
<1> DEFINE j == wjob[w]
<1>0. /\ wpc \in [Workers -> WorkerPc] /\ wjob \in [Workers -> Jobs \cup {0}]
      /\ jobStatus \in [Jobs -> JobStatus \cup {"none", "deleted"}]
      /\ WorkerJobs
      /\ wpc[w] # "idle" => j \in Jobs
      /\ wpc[w] = "claiming" => jobStatus[j] = "queued"
      /\ wpc[w] \notin {"idle", "claiming"} =>
           jobStatus[j] \in {"running", "deleted"}
  BY DEF TypeOK, WorkerTypeOK, JobTypeOK, Rest, WorkerJobs
<1>1. ASSUME UNCHANGED <<jobStatus>>, Held' = Held PROVE UNCHANGED JQ!vars
  BY <1>1 DEF JQ!vars, Held
<1>2. ASSUME NEW k \in Jobs, NEW v \in Workers, <<v, k>> \in Held,
             Held' = Held \ {<<v, k>>}, UNCHANGED jobStatus
      PROVE  JQ!Next
  BY <1>2 DEF JQ!Next, JQ!LetGo, Held
<1>3. ASSUME wpc[w] \notin {"idle", "claiming"}, GoIdle(w),
             jobStatus[j] = "running",
             NEW verdict \in {"succeeded", "failed"},
             jobStatus' = [jobStatus EXCEPT ![j] = verdict]
      PROVE  JQ!Next
  <2>1. <<w, j>> \in Held /\ Held' = Held \ {<<w, j>>} /\ j \in Jobs
    BY <1>0, <1>3, HeldLost
  <2> QED
    BY <1>3, <2>1 DEF JQ!Next, JQ!Finish, Held
<1>4. ASSUME wpc[w] \notin {"idle", "claiming"}, GoIdle(w), UNCHANGED jobStatus
      PROVE  JQ!Next
  <2>1. <<w, j>> \in Held /\ Held' = Held \ {<<w, j>>} /\ j \in Jobs
    BY <1>0, <1>4, HeldLost
  <2> HIDE DEF j
  <2> QED
    BY <1>2, <1>4, <2>1
<1>5. CASE claim_next_job(w)
  <2>1. Held' = Held
    BY <1>0, <1>5, HeldKept DEF claim_next_job
  <2> QED
    BY <1>1, <1>5, <2>1 DEF claim_next_job
<1>6. CASE claim_next_job_commit(w)
  <2>1. /\ \A k \in Jobs : <<w, k>> \notin Held
        /\ Held' = Held \cup {<<w, j>>}
    BY <1>0, <1>6, HeldGained DEF claim_next_job_commit
  <2>2. /\ j \in Jobs /\ jobStatus[j] = "queued"
        /\ jobStatus' = [jobStatus EXCEPT ![j] = "running"]
    BY <1>0, <1>6 DEF claim_next_job_commit
  <2> HIDE DEF j
  <2> QED
    BY <2>1, <2>2 DEF JQ!Next, JQ!Claim, Held
<1>7. CASE run_pipeline_gone(w)
  BY <1>4, <1>7 DEF run_pipeline_gone
<1>8. CASE run_pipeline_no_collection(w)
  <2>1. jobStatus[j] = "running" /\ wpc[w] \notin {"idle", "claiming"}
    BY <1>0, <1>8 DEF run_pipeline_no_collection, JobExists, JobStatus
  <2> QED
    BY <1>3, <1>8, <2>1 DEF run_pipeline_no_collection
<1>9. CASE run_pipeline(w)
  <2>1. Held' = Held
    BY <1>0, <1>9, HeldKept DEF run_pipeline
  <2> QED
    BY <1>1, <1>9, <2>1 DEF run_pipeline
<1>10. ASSUME NEW from \in Pipeline, NEW stage \in Stages,
              set_progress(w, from, stage)
       PROVE  UNCHANGED JQ!vars
  <2>1. Held' = Held
    BY <1>0, <1>10, HeldKept
       DEF set_progress, Goto, GoFailing, Stages, Pipeline
  <2> QED
    BY <1>1, <1>10, <2>1 DEF set_progress
<1>11. CASE \/ run_pipeline_load(w) \/ run_pipeline_parse(w)
            \/ run_pipeline_chunk(w) \/ run_pipeline_embed(w)
  BY <1>10, <1>11 DEF run_pipeline_load, run_pipeline_parse,
     run_pipeline_chunk, run_pipeline_embed, Stages, Pipeline
<1>12. CASE run_pipeline_delete(w) \/ run_pipeline_error(w)
  <2>1. Held' = Held
    BY <1>0, <1>12, HeldKept
       DEF run_pipeline_delete, run_pipeline_error, GoFailing, Pipeline
  <2> QED
    BY <1>1, <1>12, <2>1 DEF run_pipeline_delete, run_pipeline_error
<1>13. CASE run_pipeline_commit(w)
  <2>1. jobStatus[j] = "running" /\ wpc[w] \notin {"idle", "claiming"}
    BY <1>0, <1>13 DEF run_pipeline_commit, JobExists, JobStatus
  <2> QED
    BY <1>3, <1>13, <2>1 DEF run_pipeline_commit
<1>14. CASE run_pipeline_record_failure(w)
  <2>1. wpc[w] \notin {"idle", "claiming"} /\ GoIdle(w)
    BY <1>14 DEF run_pipeline_record_failure
  <2>2. CASE JobExists(j)
    <3>1. jobStatus[j] = "running"
      BY <1>0, <2>1, <2>2 DEF JobExists, JobStatus
    <3> QED
      BY <1>3, <1>14, <2>1, <2>2, <3>1 DEF run_pipeline_record_failure, UpdateJob
  <2>3. CASE ~JobExists(j)
    BY <1>4, <1>14, <2>1, <2>3 DEF run_pipeline_record_failure, UpdateJob
  <2> QED
    BY <2>2, <2>3
<1>15. CASE worker_crash(w)
  <2>1. CASE wpc[w] = "claiming"
    <3>1. Held' = Held
      BY <1>0, <1>15, <2>1, HeldKept DEF worker_crash, GoIdle
    <3> QED
      BY <1>1, <1>15, <3>1 DEF worker_crash
  <2>2. CASE wpc[w] # "claiming"
    BY <1>4, <1>15, <2>2 DEF worker_crash
  <2> QED
    BY <2>1, <2>2
<1>16. CASE run_pipeline_record_lost(w)
  BY <1>4, <1>16 DEF run_pipeline_record_lost
<1> QED
  BY <1>5, <1>6, <1>7, <1>8, <1>9, <1>11, <1>12, <1>13, <1>14, <1>15, <1>16
     DEF Worker

LEMMA RequestRefines ==
    ASSUME TypeOK, Rest,
           \/ \E r \in Clients : Serve(r) \/ Call(r)
           \/ CallAtomic
           \/ \E r \in Clients : request_crash(r) \/ upload_and_ingest_put_fails(r)
    PROVE  [JQ!Next]_(JQ!vars)
<1> USE DEF docVars, jobVars, chunkVars, workerVars, clientVars, collVars
<1>0. /\ jobStatus \in [Jobs -> JobStatus \cup {"none", "deleted"}]
      /\ jobDoc \in [Jobs -> Documents \cup {None}] /\ None \notin Documents
  BY ConstantsType DEF TypeOK, JobTypeOK
<1>1. ASSUME UNCHANGED workerVars PROVE Held' = Held
  BY <1>1 DEF Held, Holds
<1>2. ASSUME UNCHANGED <<jobStatus, workerVars>> PROVE UNCHANGED JQ!vars
  BY <1>1, <1>2 DEF JQ!vars, Held
<1>3. ASSUME NEW r \in Clients, enqueue_job(r)
      PROVE  [JQ!Next]_(JQ!vars)
  <2>1. CASE UNCHANGED jobStatus
    BY <1>2, <1>3, <2>1 DEF enqueue_job
  <2>2. CASE ~UNCHANGED jobStatus
    <3>1. /\ nextJob <= MaxJobs /\ UNCHANGED workerVars
          /\ jobStatus' = [jobStatus EXCEPT ![nextJob] = "queued"]
      BY <1>3, <2>2 DEF enqueue_job
    <3>2. nextJob \in Jobs
      BY <3>1, ConstantsType DEF TypeOK, JobTypeOK, Jobs
    <3>3. jobStatus[nextJob] = "none"
      BY <3>2, CfgsJobs DEF Rest, JobRows
    <3> QED
      BY <1>1, <3>1, <3>2, <3>3 DEF JQ!Next, JQ!Enqueue, Held
  <2> QED
    BY <2>1, <2>2
<1>4. ASSUME NEW r \in Clients,
             Serve(r) \/ request_crash(r) \/ upload_and_ingest_put_fails(r)
      PROVE  [JQ!Next]_(JQ!vars)
  BY <1>2, <1>3, <1>4 DEF Serve, upload_and_ingest_create,
     upload_and_ingest_put, register_document_create, resolve_decision_commit,
     request_crash, upload_and_ingest_put_fails
<1>5. ASSUME NEW r \in Clients, Call(r)
      PROVE  UNCHANGED JQ!vars
  BY <1>2, <1>5 DEF Call, upload_and_ingest, register_document,
     reindex_document, reindex_collection, resolve_decision
<1>6. ASSUME NEW D \in SUBSET Documents, DeleteDocs(D), UNCHANGED workerVars
      PROVE  JQ!Next
  <2> DEFINE J == {j \in Jobs : jobDoc[j] \in D}
  <2>1. /\ J \in SUBSET Jobs
        /\ jobStatus' = [j \in Jobs |-> IF j \in J THEN "deleted"
                                        ELSE jobStatus[j]]
    BY <1>6 DEF DeleteDocs
  <2>2. \A j \in J : jobStatus[j] \in JobStatus \cup {"deleted"}
    <3>1. nextJob \in Nat /\ Jobs \subseteq Nat
      BY CfgsJobs DEF TypeOK, JobTypeOK
    <3>2. \A j \in J : j < nextJob
      BY <1>0, <1>6, <3>1 DEF Rest, JobRows
    <3> QED
      BY <1>0, <3>2 DEF Rest, JobRows
  <2> HIDE DEF J
  <2>3. JQ!Delete(J)
    BY <1>1, <1>6, <2>1, <2>2 DEF JQ!Delete, JQ!Existing, JobStatus, Held
  <2> QED
    BY <2>1, <2>3 DEF JQ!Next
<1>7. ASSUME NEW d \in Documents, delete_document(d) PROVE JQ!Next
  BY <1>6, <1>7 DEF delete_document
<1>8. ASSUME NEW c \in Collections, delete_collection(c) PROVE JQ!Next
  BY <1>6, <1>8 DEF delete_collection
<1>9. ASSUME CallAtomic PROVE [JQ!Next]_(JQ!vars)
  BY <1>2, <1>7, <1>8, <1>9 DEF CallAtomic, create_document, update_document,
     update_collection
<1> QED
  BY <1>4, <1>5, <1>9

\* The jobs table implements the abstract queue: claim_next_job hands a job
\* to one worker, run_pipeline settles only the job it was handed, and the
\* handlers only enqueue and delete.
THEOREM QueueRefinement == Spec => ImplementsJobQueue
<1>1. Init => JQ!Init
  <2>1. Init => Held = {}
    BY DEF Init, Held, Holds
  <2> QED
    BY <2>1 DEF Init, JQ!Init, Held
<1>2. IInv /\ [Next]_vars => [JQ!Next]_(JQ!vars)
  <2> SUFFICES ASSUME IInv, [Next]_vars PROVE [JQ!Next]_(JQ!vars)
    OBVIOUS
  <2>1. TypeOK /\ Rest
    BY DEF IInv, Rest
  <2>2. CASE UNCHANGED vars
    BY <2>2 DEF vars, jobVars, workerVars, JQ!vars, Holds
  <2>3. CASE Next
    BY <2>1, <2>3, WorkerRefines, RequestRefines DEF Next, Failure
  <2> QED
    BY <2>2, <2>3
<1> QED
  BY <1>1, <1>2, Invariance, PTL DEF Spec, ImplementsJobQueue, JQ!Spec

------------------------------------------------------------------------------
(***************************************************************************)
(* What a job shows to its readers only moves forward.                     *)
(***************************************************************************)
\* One step of a job: what JobMovesForward allows.
Forward(j) ==
    /\ jobStatus[j] \in {"succeeded", "failed"}
         => jobStatus'[j] \in {jobStatus[j], "deleted"}
    /\ jobStatus[j] = "running" => jobStatus'[j] # "queued"
    /\ StageRank[jobStage[j]] <= StageRank[jobStage'[j]]
    /\ jobStatus[j] # "none" => /\ jobDoc'[j] = jobDoc[j]
                                /\ jobColl'[j] = jobColl[j]

LEMMA Ranks ==
    /\ StageRank \in [Stages \cup {"none"} -> 0..4]
    /\ StageRank["none"] = 0 /\ StageRank["parse"] = 1 /\ StageRank["chunk"] = 2
    /\ StageRank["embed"] = 3 /\ StageRank["index"] = 4
BY DEF StageRank, Stages

LEMMA WorkerForward ==
    ASSUME TypeOK, Rest, JobStages, NEW w \in Workers,
           Worker(w) \/ worker_crash(w) \/ run_pipeline_record_lost(w)
    PROVE  JobStages' /\ \A j \in Jobs : Forward(j)
<1> USE DEF docVars, jobVars, chunkVars, workerVars, clientVars, collVars
<1>0. /\ wpc \in [Workers -> WorkerPc] /\ wjob \in [Workers -> Jobs \cup {0}]
      /\ jobStatus \in [Jobs -> JobStatus \cup {"none", "deleted"}]
      /\ jobStage \in [Jobs -> Stages \cup {"none"}]
      /\ wpc[w] # "idle" => wjob[w] \in Jobs
      /\ wpc[w] = "claiming" => jobStatus[wjob[w]] = "queued"
      /\ wpc[w] \notin {"idle", "claiming"} =>
           jobStatus[wjob[w]] \in {"running", "deleted"}
      /\ \A v \in Workers : /\ v # w /\ wpc[v] # "idle" /\ wpc[w] # "idle"
                                => wjob[v] # wjob[w]
                            /\ wpc[v] # "idle" => wjob[v] \in Jobs
  BY DEF TypeOK, WorkerTypeOK, JobTypeOK, Rest, WorkerJobs, DistinctJobs
<1>1. \A j \in Jobs : /\ StageRank[jobStage[j]] \in 0..4
                      /\ StageRank[jobStage[j]] <= StageRank[jobStage[j]]
  BY <1>0, Ranks
<1>2. ASSUME UNCHANGED <<jobStatus, jobStage, jobDoc, jobColl>>
      PROVE  \A j \in Jobs : Forward(j)
  BY <1>1, <1>2 DEF Forward
<1>3. ASSUME UNCHANGED <<jobStage, jobDoc, jobColl>>, wpc[w] # "idle",
             NEW s \in {"succeeded", "failed"},
             jobStatus[wjob[w]] = "running",
             jobStatus' = [jobStatus EXCEPT ![wjob[w]] = s]
      PROVE  \A j \in Jobs : Forward(j)
  BY <1>0, <1>1, <1>3 DEF Forward
<1>4. ASSUME GoIdle(w), UNCHANGED jobStage,
             \A j \in Jobs : jobStatus'[j] \in {"none", "queued"}
                               => jobStatus'[j] = jobStatus[j]
      PROVE  JobStages'
  BY <1>0, <1>4 DEF JobStages, GoIdle, Stages
<1>5. CASE claim_next_job(w)
  <2>1. JobStages'
    BY <1>0, <1>5 DEF claim_next_job, JobStages, Stages
  <2> QED
    BY <1>2, <1>5, <2>1 DEF claim_next_job
<1>6. CASE claim_next_job_commit(w)
  <2>1. JobStages'
    BY <1>0, <1>6 DEF claim_next_job_commit, JobStages, Goto, Stages
  <2>2. \A j \in Jobs : Forward(j)
    BY <1>0, <1>1, <1>6, Ranks DEF claim_next_job_commit, JobStages, Forward
  <2> QED
    BY <2>1, <2>2
<1>7. CASE run_pipeline_gone(w)
  BY <1>2, <1>4, <1>7 DEF run_pipeline_gone
<1>8. CASE run_pipeline_no_collection(w)
  <2>1. jobStatus[wjob[w]] = "running" /\ wpc[w] # "idle"
    BY <1>0, <1>8 DEF run_pipeline_no_collection, JobExists, JobStatus
  <2>2. JobStages'
    BY <1>0, <1>4, <1>8, <2>1 DEF run_pipeline_no_collection
  <2> QED
    BY <1>3, <1>8, <2>1, <2>2 DEF run_pipeline_no_collection
<1>9. CASE run_pipeline(w)
  <2>1. JobStages'
    BY <1>0, <1>9 DEF run_pipeline, JobStages, Stages
  <2> QED
    BY <1>2, <1>9, <2>1 DEF run_pipeline
<1>10. ASSUME NEW from \in Pipeline, NEW stage \in Stages,
              <<from, stage>> \in {<<"load", "parse">>, <<"parse", "chunk">>,
                                  <<"chunk", "embed">>, <<"embed", "index">>},
              set_progress(w, from, stage)
       PROVE  JobStages' /\ \A j \in Jobs : Forward(j)
  <2>1. CASE JobExists(wjob[w])
    <3>1. /\ wpc[w] = from /\ wjob[w] \in Jobs
          /\ jobStage' = [jobStage EXCEPT ![wjob[w]] = stage]
          /\ wpc' = [wpc EXCEPT ![w] = stage]
          /\ UNCHANGED <<wjob, jobStatus, jobDoc, jobColl>>
      BY <1>0, <1>10, <2>1 DEF set_progress, Goto, Pipeline
    <3>2. StageRank[jobStage[wjob[w]]] <= StageRank[stage]
      BY <1>10, <3>1, Ranks DEF JobStages, Stages
    <3>3. JobStages'
      BY <1>0, <1>10, <3>1 DEF JobStages, Stages, Pipeline
    <3> QED
      BY <1>0, <1>1, <3>1, <3>2, <3>3 DEF Forward
  <2>2. CASE ~JobExists(wjob[w])
    <3>1. JobStages'
      BY <1>0, <1>10, <2>2 DEF set_progress, GoFailing, JobStages, Stages
    <3> QED
      BY <1>2, <1>10, <2>2, <3>1 DEF set_progress
  <2> QED
    BY <2>1, <2>2
<1>11. CASE \/ run_pipeline_load(w) \/ run_pipeline_parse(w)
            \/ run_pipeline_chunk(w) \/ run_pipeline_embed(w)
  BY <1>10, <1>11 DEF run_pipeline_load, run_pipeline_parse,
     run_pipeline_chunk, run_pipeline_embed, Stages, Pipeline
<1>12. CASE run_pipeline_delete(w) \/ run_pipeline_error(w)
  <2>1. JobStages'
    BY <1>0, <1>12 DEF run_pipeline_delete, run_pipeline_error, GoFailing,
       JobStages, Stages
  <2> QED
    BY <1>2, <1>12, <2>1 DEF run_pipeline_delete, run_pipeline_error
<1>13. CASE run_pipeline_commit(w)
  <2>1. jobStatus[wjob[w]] = "running" /\ wpc[w] # "idle"
    BY <1>0, <1>13 DEF run_pipeline_commit, JobExists, JobStatus
  <2>2. JobStages'
    BY <1>0, <1>4, <1>13, <2>1 DEF run_pipeline_commit
  <2> QED
    BY <1>3, <1>13, <2>1, <2>2 DEF run_pipeline_commit
<1>14. CASE run_pipeline_record_failure(w)
  <2>1. wpc[w] \notin {"idle", "claiming"}
    BY <1>14 DEF run_pipeline_record_failure
  <2>2. JobStages'
    BY <1>0, <1>4, <1>14, <2>1 DEF run_pipeline_record_failure, UpdateJob
  <2>3. CASE JobExists(wjob[w])
    <3>1. jobStatus[wjob[w]] = "running"
      BY <1>0, <2>1, <2>3 DEF JobExists, JobStatus
    <3> QED
      BY <1>3, <1>14, <2>1, <2>2, <2>3, <3>1
         DEF run_pipeline_record_failure, UpdateJob
  <2>4. CASE ~JobExists(wjob[w])
    BY <1>2, <1>14, <2>2, <2>4 DEF run_pipeline_record_failure, UpdateJob
  <2> QED
    BY <2>3, <2>4
<1>15. CASE worker_crash(w) \/ run_pipeline_record_lost(w)
  BY <1>2, <1>4, <1>15 DEF worker_crash, run_pipeline_record_lost
<1> QED
  BY <1>5, <1>6, <1>7, <1>8, <1>9, <1>11, <1>12, <1>13, <1>14, <1>15 DEF Worker

LEMMA RequestForward ==
    ASSUME TypeOK, Rest, JobStages,
           \/ \E r \in Clients : Serve(r) \/ Call(r)
           \/ CallAtomic
           \/ \E r \in Clients : request_crash(r) \/ upload_and_ingest_put_fails(r)
    PROVE  JobStages' /\ \A j \in Jobs : Forward(j)
<1> USE DEF docVars, jobVars, chunkVars, workerVars, clientVars, collVars
<1>0. /\ jobStatus \in [Jobs -> JobStatus \cup {"none", "deleted"}]
      /\ jobStage \in [Jobs -> Stages \cup {"none"}]
      /\ jobDoc \in [Jobs -> Documents \cup {None}]
      /\ jobColl \in [Jobs -> Collections \cup {None}]
  BY DEF TypeOK, JobTypeOK
<1>1. \A j \in Jobs : /\ StageRank[jobStage[j]] \in 0..4
                      /\ StageRank[jobStage[j]] <= StageRank[jobStage[j]]
  BY <1>0, Ranks
<1>2. ASSUME UNCHANGED <<jobStatus, jobStage, jobDoc, jobColl, workerVars>>
      PROVE  JobStages' /\ \A j \in Jobs : Forward(j)
  BY <1>1, <1>2 DEF Forward, JobStages
<1>3. ASSUME NEW r \in Clients, enqueue_job(r)
      PROVE  JobStages' /\ \A j \in Jobs : Forward(j)
  <2>1. CASE UNCHANGED <<jobStatus, jobDoc, jobColl>>
    BY <1>2, <1>3, <2>1 DEF enqueue_job
  <2>2. CASE ~UNCHANGED <<jobStatus, jobDoc, jobColl>>
    <3>1. PICK d \in rtodo[r] :
            /\ nextJob <= MaxJobs /\ UNCHANGED <<workerVars, jobStage>>
            /\ jobStatus' = [jobStatus EXCEPT ![nextJob] = "queued"]
            /\ jobDoc' = [jobDoc EXCEPT ![nextJob] = d]
            /\ jobColl' = [jobColl EXCEPT ![nextJob] = rcoll[r]]
      BY <1>3, <2>2 DEF enqueue_job
    <3>2. nextJob \in Jobs
      BY <3>1, ConstantsType DEF TypeOK, JobTypeOK, Jobs
    <3>3. jobStatus[nextJob] = "none"
      BY <3>2, CfgsJobs DEF Rest, JobRows
    <3>4. \A j \in Jobs : Forward(j)
      BY <1>0, <1>1, <3>1, <3>2, <3>3 DEF Forward
    <3>5. JobStages'
      BY <1>0, <3>1, <3>2, <3>3 DEF JobStages
    <3> QED
      BY <3>4, <3>5
  <2> QED
    BY <2>1, <2>2
<1>4. ASSUME NEW r \in Clients,
             Serve(r) \/ request_crash(r) \/ upload_and_ingest_put_fails(r)
      PROVE  JobStages' /\ \A j \in Jobs : Forward(j)
  BY <1>2, <1>3, <1>4 DEF Serve, upload_and_ingest_create,
     upload_and_ingest_put, register_document_create, resolve_decision_commit,
     request_crash, upload_and_ingest_put_fails
<1>5. ASSUME NEW r \in Clients, Call(r)
      PROVE  JobStages' /\ \A j \in Jobs : Forward(j)
  BY <1>2, <1>5 DEF Call, upload_and_ingest, register_document,
     reindex_document, reindex_collection, resolve_decision
<1>6. ASSUME NEW D, DeleteDocs(D), UNCHANGED workerVars
      PROVE  JobStages' /\ \A j \in Jobs : Forward(j)
  <2>1. JobStages'
    BY <1>0, <1>6 DEF DeleteDocs, JobStages
  <2>2. \A j \in Jobs : Forward(j)
    BY <1>0, <1>1, <1>6 DEF DeleteDocs, Forward
  <2> QED
    BY <2>1, <2>2
<1>7. ASSUME CallAtomic PROVE JobStages' /\ \A j \in Jobs : Forward(j)
  BY <1>2, <1>6, <1>7 DEF CallAtomic, create_document, update_document,
     delete_document, delete_collection, update_collection
<1> QED
  BY <1>4, <1>5, <1>7

\* A settled job keeps its verdict, a running job is never queued again, the
\* stage never goes back and a job keeps its document and collection.
THEOREM JobsMoveForward == Spec => JobMovesForward
<1>1. Init => JobStages
  BY DEF Init, JobStages, Stages
<1>2. TypeOK /\ Rest /\ JobStages /\ [Next]_vars
        => JobStages' /\ [\A j \in Jobs : Forward(j)]_vars
  <2> SUFFICES ASSUME TypeOK, Rest, JobStages, [Next]_vars
               PROVE  JobStages' /\ [\A j \in Jobs : Forward(j)]_vars
    OBVIOUS
  <2>1. CASE UNCHANGED vars
    BY <2>1 DEF vars, jobVars, workerVars, JobStages
  <2>2. CASE Next
    BY <2>2, WorkerForward, RequestForward DEF Next, Failure
  <2> QED
    BY <2>1, <2>2
<1>3. IInv => TypeOK /\ Rest
  BY DEF IInv, Rest
<1>4. Spec => [][\A j \in Jobs : Forward(j)]_vars
  BY <1>1, <1>2, <1>3, Invariance, PTL DEF Spec
<1> QED
  BY <1>4, PTL DEF JobMovesForward, Forward

------------------------------------------------------------------------------
(***************************************************************************)
(* With one worker, reprocessing a document is idempotent: whatever the    *)
(* handlers do between the DELETE and the commit of the index transaction, *)
(* a document keeps the chunks of one job and chunk_count is their number. *)
(* (With two workers it is false: run ingestion_two_workers.)              *)
(***************************************************************************)

\* The actions that neither write chunks nor read the columns the pipeline
\* reads: every action of the workers but three.
QuietWorker(w) ==
    \/ claim_next_job(w) \/ claim_next_job_commit(w)
    \/ run_pipeline_gone(w) \/ run_pipeline_no_collection(w)
    \/ run_pipeline_load(w) \/ run_pipeline_parse(w)
    \/ run_pipeline_chunk(w) \/ run_pipeline_embed(w)
    \/ run_pipeline_error(w) \/ run_pipeline_record_failure(w)
    \/ worker_crash(w) \/ run_pipeline_record_lost(w)

\* What a step keeps of the rows a pipeline depends on.
RowsKept ==
    /\ chunks' \subseteq chunks
    /\ UNCHANGED <<chunkCfg, docCount>>
    /\ \A j \in Jobs :
         jobStatus[j] # "none" => /\ jobDoc'[j] = jobDoc[j]
                                  /\ JobExists(j)' => JobExists(j)

\* A worker that goes on is at a later point of the same pipeline.
LEMMA QuietWorkerStep ==
    ASSUME TypeOK, Rest, NEW w \in Workers, QuietWorker(w)
    PROVE  /\ RowsKept
           /\ \A v \in Workers :
                /\ wpc'[v] \in Pipeline => /\ wpc[v] \in Pipeline
                                           /\ wjob'[v] = wjob[v]
                                           /\ wcount'[v] = wcount[v]
                                           /\ wsnap'[v] = wsnap[v]
                /\ wpc'[v] = "insert" => wpc[v] = "insert"
<1> USE DEF docVars, jobVars, chunkVars, workerVars, clientVars, collVars, Rest
<1>0. /\ wpc[w] # "idle" => wjob[w] \in Jobs
      /\ wpc[w] = "claiming" => jobStatus[wjob[w]] = "queued"
      /\ wpc \in [Workers -> WorkerPc] /\ wjob \in [Workers -> Jobs \cup {0}]
      /\ wcount \in [Workers -> Nat] /\ wsnap \in [Workers -> SUBSET Jobs]
      /\ jobStatus \in [Jobs -> JobStatus \cup {"none", "deleted"}]
  BY DEF TypeOK, WorkerTypeOK, JobTypeOK, WorkerJobs
<1>1. RowsKept
  BY <1>0 DEF QuietWorker, RowsKept, claim_next_job, claim_next_job_commit,
     run_pipeline_gone, run_pipeline_no_collection, run_pipeline_load,
     run_pipeline_parse, run_pipeline_chunk, run_pipeline_embed, set_progress,
     run_pipeline_error, run_pipeline_record_failure, worker_crash,
     run_pipeline_record_lost, JobExists, JobStatus, UpdateJob
<1>2. ASSUME NEW v \in Workers
      PROVE  /\ wpc'[v] \in Pipeline => /\ wpc[v] \in Pipeline
                                        /\ wjob'[v] = wjob[v]
                                        /\ wcount'[v] = wcount[v]
                                        /\ wsnap'[v] = wsnap[v]
             /\ wpc'[v] = "insert" => wpc[v] = "insert"
  BY <1>0 DEF QuietWorker, claim_next_job, claim_next_job_commit,
     run_pipeline_gone, run_pipeline_no_collection, run_pipeline_load,
     run_pipeline_parse, run_pipeline_chunk, run_pipeline_embed, set_progress,
     run_pipeline_error, run_pipeline_record_failure, worker_crash,
     run_pipeline_record_lost, GoIdle, Goto, GoFailing, Pipeline
<1> QED
  BY <1>1, <1>2

\* No request touches the chunks of a document except to delete them.
LEMMA RequestStep ==
    ASSUME TypeOK, Rest,
           \/ \E r \in Clients : Serve(r) \/ Call(r)
           \/ CallAtomic
           \/ \E r \in Clients : request_crash(r) \/ upload_and_ingest_put_fails(r)
    PROVE  RowsKept /\ UNCHANGED workerVars
<1> USE DEF docVars, jobVars, chunkVars, workerVars, clientVars, collVars, Rest,
            RowsKept, JobExists
<1>0. /\ jobStatus \in [Jobs -> JobStatus \cup {"none", "deleted"}]
      /\ jobDoc \in [Jobs -> Documents \cup {None}]
  BY DEF TypeOK, JobTypeOK
<1>1. ASSUME NEW r \in Clients, enqueue_job(r)
      PROVE  RowsKept /\ UNCHANGED workerVars
  <2>1. CASE nextJob > MaxJobs
    BY <1>1, <2>1, ConstantsType DEF enqueue_job, TypeOK, JobTypeOK
  <2>2. CASE nextJob <= MaxJobs
    <3>1. nextJob \in Jobs /\ jobStatus[nextJob] = "none"
      <4>1. nextJob \in Jobs
        BY <2>2, ConstantsType DEF TypeOK, JobTypeOK, Jobs
      <4> QED
        BY <4>1, CfgsJobs DEF JobRows
    <3> QED
      BY <1>0, <1>1, <3>1 DEF enqueue_job
  <2> QED
    BY <2>1, <2>2, ConstantsType DEF TypeOK, JobTypeOK
<1>2. ASSUME NEW r \in Clients,
             Serve(r) \/ request_crash(r) \/ upload_and_ingest_put_fails(r)
      PROVE  RowsKept /\ UNCHANGED workerVars
  BY <1>1, <1>2 DEF Serve, upload_and_ingest_create, upload_and_ingest_put,
     register_document_create, resolve_decision_commit, request_crash,
     upload_and_ingest_put_fails, create_pending_document
<1>3. ASSUME NEW r \in Clients, Call(r)
      PROVE  RowsKept /\ UNCHANGED workerVars
  BY <1>3 DEF Call, upload_and_ingest, register_document, reindex_document,
     reindex_collection, resolve_decision
<1>4. ASSUME CallAtomic PROVE RowsKept /\ UNCHANGED workerVars
  BY <1>0, <1>4 DEF CallAtomic, create_document, update_document,
     delete_document, delete_collection, update_collection, DeleteDocs,
     create_pending_document
<1> QED
  BY <1>2, <1>3, <1>4

\* Such steps keep what OneWriter and ChunkCountExact say.
LEMMA KeepsIndex ==
    ASSUME TypeOK, Rest, OneWriter, ChunkCountExact, RowsKept,
           \A v \in Workers :
             /\ wpc'[v] \in Pipeline => /\ wpc[v] \in Pipeline
                                        /\ wjob'[v] = wjob[v]
                                        /\ wcount'[v] = wcount[v]
                                        /\ wsnap'[v] = wsnap[v]
             /\ wpc'[v] = "insert" => wpc[v] = "insert"
    PROVE  OneWriter' /\ ChunkCountExact'
<1>1. \A j \in chunks : j \in Jobs /\ jobStatus[j] # "none" /\ jobDoc'[j] = jobDoc[j]
  BY DEF Rest, ForeignKeys, RowsKept, JobExists, JobStatus, TypeOK, ChunkTypeOK
<1>2. \A v \in Workers : wpc[v] \in Pipeline =>
         /\ wjob[v] \in Jobs /\ jobStatus[wjob[v]] # "none"
         /\ jobDoc'[wjob[v]] = jobDoc[wjob[v]]
  BY DEF Rest, WorkerJobs, Pipeline, RowsKept
<1>3. ChunkCountExact'
  BY <1>1 DEF ChunkCountExact, RowsKept
<1>4. ASSUME NEW v \in Workers, wpc'[v] \in Pipeline, JobExists(wjob[v])'
      PROVE  wcount'[v] = docCount'[jobDoc'[wjob'[v]]]
  <2>1. JobExists(wjob[v])
    BY <1>2, <1>4 DEF RowsKept, JobExists
  <2> QED
    BY <1>2, <1>4, <2>1 DEF OneWriter, RowsKept
<1>5. ASSUME NEW v \in Workers, wpc'[v] = "insert"
      PROVE  ChunksOf(jobDoc[wjob[v]])' \subseteq wsnap'[v]
  <2>1. wpc[v] = "insert" /\ wpc[v] \in Pipeline /\ wpc'[v] \in Pipeline
    BY <1>5 DEF Pipeline
  <2>2. jobDoc'[wjob'[v]] = jobDoc[wjob[v]] /\ wsnap'[v] = wsnap[v]
    BY <1>2, <2>1
  <2>3. ChunksOf(jobDoc[wjob[v]])' \subseteq ChunksOf(jobDoc[wjob[v]])
    BY <1>1, <2>2 DEF ChunksOf, RowsKept
  <2> QED
    BY <2>1, <2>2, <2>3 DEF OneWriter
<1> QED
  BY <1>3, <1>4, <1>5 DEF OneWriter

LEMMA IndexStep ==
    ASSUME SingleWorker, TypeOK, Rest, OneWriter, ChunkCountExact, [Next]_vars
    PROVE  OneWriter' /\ ChunkCountExact'
<1> USE DEF docVars, jobVars, chunkVars, workerVars, clientVars, collVars
<1>0. /\ wpc \in [Workers -> WorkerPc] /\ wjob \in [Workers -> Jobs \cup {0}]
      /\ wcount \in [Workers -> Nat] /\ wsnap \in [Workers -> SUBSET Jobs]
      /\ wcfg \in [Workers -> Cfgs] /\ chunkCfg \in [Jobs -> Cfgs]
      /\ docCount \in [Documents -> Nat]
      /\ jobStatus \in [Jobs -> JobStatus \cup {"none", "deleted"}]
      /\ chunks \subseteq Jobs
  BY DEF TypeOK, WorkerTypeOK, ChunkTypeOK, DocTypeOK, JobTypeOK
<1>1. CASE UNCHANGED vars
  BY <1>1 DEF vars, OneWriter, ChunkCountExact, ChunksOf, JobExists
<1>2. ASSUME NEW w \in Workers, QuietWorker(w)
      PROVE  OneWriter' /\ ChunkCountExact'
  BY <1>2, QuietWorkerStep, KeepsIndex
<1>3. ASSUME \/ \E r \in Clients : Serve(r) \/ Call(r)
             \/ CallAtomic
             \/ \E r \in Clients :
                  request_crash(r) \/ upload_and_ingest_put_fails(r)
      PROVE  OneWriter' /\ ChunkCountExact'
  <2>1. RowsKept /\ UNCHANGED workerVars
    BY <1>3, RequestStep
  <2> QED
    BY <2>1, KeepsIndex
<1>4. ASSUME NEW w \in Workers, run_pipeline(w)
      PROVE  OneWriter' /\ ChunkCountExact'
  <2>1. \A v \in Workers : v = w
    BY DEF SingleWorker
  <2>2. OneWriter'
    BY <1>0, <1>4, <2>1 DEF run_pipeline, OneWriter, Pipeline, JobExists
  <2>3. ChunkCountExact'
    BY <1>4 DEF run_pipeline, ChunkCountExact
  <2> QED
    BY <2>2, <2>3
<1>5. ASSUME NEW w \in Workers, run_pipeline_delete(w)
      PROVE  OneWriter' /\ ChunkCountExact'
  <2>1. \A v \in Workers : v = w
    BY DEF SingleWorker
  <2>2. OneWriter'
    BY <1>0, <1>5, <2>1
       DEF run_pipeline_delete, OneWriter, Pipeline, JobExists, ChunksOf
  <2>3. ChunkCountExact'
    BY <1>5 DEF run_pipeline_delete, ChunkCountExact
  <2> QED
    BY <2>2, <2>3
<1>6. ASSUME NEW w \in Workers, run_pipeline_commit(w)
      PROVE  OneWriter' /\ ChunkCountExact'
  <2> DEFINE j == wjob[w]
             d == jobDoc[j]
  <2>1. \A v \in Workers : v = w
    BY DEF SingleWorker
  <2>2. OneWriter'
    BY <1>0, <1>6, <2>1
       DEF run_pipeline_commit, OneWriter, GoIdle, Pipeline
  <2>3. /\ j \in Jobs /\ d \in Documents /\ JobExists(j)
        /\ wcount[w] = docCount[d] /\ ChunksOf(d) \subseteq wsnap[w]
    <3>1. wpc[w] = "insert" /\ wpc[w] \in Pipeline /\ JobExists(j)
      BY <1>6 DEF run_pipeline_commit, Pipeline
    <3> QED
      BY <3>1, WorkerRefs DEF Rest, OneWriter
  <2>4. docCount'[d] = Pieces[wcfg[w]] /\ chunkCfg'[j] = wcfg[w]
    BY <1>0, <1>6, <2>3 DEF run_pipeline_commit
  <2>5. ASSUME NEW k \in chunks', k # j
        PROVE  /\ k \in chunks /\ jobDoc[k] # d
               /\ docCount'[jobDoc[k]] = docCount[jobDoc[k]]
               /\ chunkCfg'[k] = chunkCfg[k]
    <3>1. k \in chunks /\ k \notin wsnap[w]
      BY <1>6, <2>5 DEF run_pipeline_commit
    <3>2. jobDoc[k] # d
      BY <2>3, <3>1 DEF ChunksOf
    <3> QED
      BY <1>0, <1>6, <2>3, <2>5, <3>1, <3>2 DEF run_pipeline_commit
  <2>6. UNCHANGED jobDoc
    BY <1>6 DEF run_pipeline_commit
  <2> HIDE DEF j, d
  <2>7. ASSUME NEW k \in chunks'
        PROVE  /\ \A l \in chunks' : jobDoc[l] = jobDoc[k] => l = k
               /\ docCount'[jobDoc[k]] = Pieces[chunkCfg'[k]]
    <3>1. CASE k = j
      BY <2>4, <2>5, <3>1 DEF d
    <3>2. CASE k # j
      BY <2>5, <3>2 DEF ChunkCountExact, d
    <3> QED
      BY <3>1, <3>2
  <2>8. ChunkCountExact'
    BY <2>6, <2>7 DEF ChunkCountExact
  <2> QED
    BY <2>2, <2>8
<1>7. CASE Next
  BY <1>2, <1>3, <1>4, <1>5, <1>6, <1>7
     DEF Next, Worker, Failure, QuietWorker
<1> QED
  BY <1>1, <1>7

\* Reprocessing is idempotent as long as there is one worker: run_pipeline's
\* DELETE and INSERT leave a document the chunks of one job, and chunk_count
\* is their number although the ORM does not always write it.
THEOREM OneWorkerIndexesExactly ==
    ASSUME SingleWorker
    PROVE  Spec => []ChunkCountExact
<1>1. Init => OneWriter /\ ChunkCountExact
  BY DEF Init, OneWriter, ChunkCountExact, Pipeline
<1>2. IInv /\ OneWriter /\ ChunkCountExact /\ [Next]_vars
        => (OneWriter /\ ChunkCountExact)'
  BY IndexStep DEF IInv, Rest
<1> QED
  BY <1>1, <1>2, Invariance, PTL DEF Spec
------------------------------------------------------------------------------
(***************************************************************************)
(* The content_hash check, as long as requests do not overlap.  The check  *)
(* and the INSERT (or the move) are two transactions; what the workers and *)
(* the one-transaction handlers do in between adds no document.            *)
(***************************************************************************)
SingleClient == \A q, r \in Clients : q = r

\* What a request has checked still holds when it commits.
HashesChecked ==
    \A r \in Clients :
        /\ rpc[r] \in {"create_upload", "create_register"} /\ rhash[r] # NoHash
             => find_document_by_hash(rcoll[r], rhash[r]) = {}
        /\ rpc[r] = "reassign"
             => \A d \in rtodo[r] :
                  docHash[d] # NoHash
                    => find_document_by_hash(rcoll[r], docHash[d]) = {}

HashInv == NoDuplicateHash /\ HashesChecked

\* No document appears, moves or changes its content.
NoNewContent ==
    /\ \A d \in Documents : DocExists(d)' => DocExists(d)
    /\ UNCHANGED <<docColl, docHash>>

\* Request r is past its check, or has not begun.
NothingChecked(r) == rpc[r] \in {"idle", "put", "enqueue"}

LEMMA HashKept ==
    ASSUME HashInv, NoNewContent,
           \A r \in Clients :
             \/ NothingChecked(r)'
             \/ /\ rpc'[r] = rpc[r] /\ rtodo'[r] = rtodo[r]
                /\ rcoll'[r] = rcoll[r] /\ rhash'[r] = rhash[r]
    PROVE  HashInv'
<1>1. NoDuplicateHash'
  BY DEF HashInv, NoDuplicateHash, NoNewContent
<1>2. \A c, h : find_document_by_hash(c, h) = {}
                  => find_document_by_hash(c, h)' = {}
  BY DEF find_document_by_hash, NoNewContent
<1>3. ASSUME NEW r \in Clients,
             rpc'[r] \in {"create_upload", "create_register"}, rhash'[r] # NoHash
      PROVE  find_document_by_hash(rcoll[r], rhash[r])' = {}
  BY <1>2, <1>3 DEF HashInv, HashesChecked, NothingChecked,
     find_document_by_hash, NoNewContent
<1>4. ASSUME NEW r \in Clients, rpc'[r] = "reassign", NEW d \in rtodo'[r],
             docHash'[d] # NoHash
      PROVE  find_document_by_hash(rcoll[r], docHash[d])' = {}
  BY <1>2, <1>4 DEF HashInv, HashesChecked, NothingChecked,
     find_document_by_hash, NoNewContent
<1> QED
  BY <1>1, <1>3, <1>4 DEF HashInv, HashesChecked

\* A worker only changes the status of a document that exists.
LEMMA WorkerContent ==
    ASSUME TypeOK, Rest, NEW w \in Workers,
           Worker(w) \/ worker_crash(w) \/ run_pipeline_record_lost(w)
    PROVE  NoNewContent /\ UNCHANGED clientVars
<1> USE DEF docVars, clientVars, NoNewContent
<1>0. /\ docStatus \in [Documents -> DocStatus \cup {"none", "deleted"}]
      /\ \A j \in Jobs : JobExists(j) => DocExists(jobDoc[j])
      /\ wpc[w] # "idle" => wjob[w] \in Jobs /\ jobDoc[wjob[w]] \in Documents
  BY WorkerRefs DEF TypeOK, DocTypeOK, Rest, ForeignKeys
<1>1. CASE run_pipeline(w)
  BY <1>0, <1>1 DEF run_pipeline, DocExists
<1>2. CASE run_pipeline_commit(w)
  BY <1>0, <1>2 DEF run_pipeline_commit, DocExists
<1>3. CASE run_pipeline_record_failure(w)
  BY <1>0, <1>3 DEF run_pipeline_record_failure, UpdateDoc, DocExists
<1>4. CASE /\ ~run_pipeline(w) /\ ~run_pipeline_commit(w)
           /\ ~run_pipeline_record_failure(w)
  BY <1>4 DEF Worker, claim_next_job, claim_next_job_commit,
     run_pipeline_gone, run_pipeline_no_collection, run_pipeline_load,
     run_pipeline_parse, run_pipeline_chunk, run_pipeline_embed, set_progress,
     run_pipeline_delete, run_pipeline_error, worker_crash,
     run_pipeline_record_lost, DocExists
<1> QED
  BY <1>1, <1>2, <1>3, <1>4

\* The request that continues with "pc" is in that place.
LEMMA ContinueAt ==
    ASSUME TypeOK, NEW r \in Clients, NEW pc, NEW todo, NEW c, NEW h,
           Continue(r, pc, todo, c, h)
    PROVE  /\ rpc'[r] = pc /\ rtodo'[r] = todo /\ rcoll'[r] = c /\ rhash'[r] = h
           /\ \A q \in Clients : q # r =>
                /\ rpc'[q] = rpc[q] /\ rtodo'[q] = rtodo[q]
                /\ rcoll'[q] = rcoll[q] /\ rhash'[q] = rhash[q]
BY DEF Continue, TypeOK, ClientTypeOK

\* A new document has a content the collection does not hold.
LEMMA HashCreate ==
    ASSUME TypeOK, SingleClient, HashInv, NEW r \in Clients,
           rpc[r] \in {"create_upload", "create_register"}, NothingChecked(r)',
           NEW d \in Documents, NEW src,
           create_pending_document(d, rcoll[r], src, rhash[r])
    PROVE  HashInv'
<1>0. /\ docStatus \in [Documents -> DocStatus \cup {"none", "deleted"}]
      /\ docColl \in [Documents -> Collections \cup {None}]
      /\ docHash \in [Documents -> Hashes \cup {NoHash}]
  BY DEF TypeOK, DocTypeOK
<1>1. /\ docColl'[d] = rcoll[r] /\ docHash'[d] = rhash[r]
      /\ \A e \in Documents : e # d => /\ DocExists(e)' => DocExists(e)
                                       /\ docColl'[e] = docColl[e]
                                       /\ docHash'[e] = docHash[e]
  BY <1>0 DEF create_pending_document, DocExists
<1>2. rhash[r] # NoHash => find_document_by_hash(rcoll[r], rhash[r]) = {}
  BY DEF HashInv, HashesChecked
<1>3. ASSUME NEW e \in Documents, e # d, DocExists(e)',
             docColl'[e] = docColl'[d], docHash'[e] = docHash'[d],
             docHash'[d] # NoHash
      PROVE  FALSE
  BY <1>1, <1>2, <1>3 DEF find_document_by_hash
<1>4. NoDuplicateHash'
  BY <1>1, <1>3 DEF HashInv, NoDuplicateHash
<1>5. HashesChecked'
  BY DEF HashesChecked, SingleClient, NothingChecked
<1> QED
  BY <1>4, <1>5 DEF HashInv

\* A document that is moved meets no document with its content.
LEMMA HashMove ==
    ASSUME TypeOK, SingleClient, HashInv, NEW r \in Clients,
           rpc[r] = "reassign", NothingChecked(r)', NEW d \in rtodo[r],
           docColl' = [docColl EXCEPT ![d] = rcoll[r]],
           docStatus' = [docStatus EXCEPT ![d] = "registered"],
           DocExists(d), UNCHANGED docHash
    PROVE  HashInv'
<1>0. /\ docStatus \in [Documents -> DocStatus \cup {"none", "deleted"}]
      /\ docColl \in [Documents -> Collections \cup {None}]
      /\ d \in Documents
  BY DEF TypeOK, DocTypeOK, ClientTypeOK
<1>1. /\ docColl'[d] = rcoll[r]
      /\ \A e \in Documents : e # d => /\ DocExists(e)' => DocExists(e)
                                       /\ docColl'[e] = docColl[e]
  BY <1>0 DEF DocExists
<1>2. docHash[d] # NoHash => find_document_by_hash(rcoll[r], docHash[d]) = {}
  BY DEF HashInv, HashesChecked
<1>3. ASSUME NEW e \in Documents, e # d, DocExists(e)',
             docColl'[e] = docColl'[d], docHash[e] = docHash[d],
             docHash[d] # NoHash
      PROVE  FALSE
  BY <1>1, <1>2, <1>3 DEF find_document_by_hash
<1>4. NoDuplicateHash'
  BY <1>1, <1>3 DEF HashInv, NoDuplicateHash
<1>5. HashesChecked'
  BY DEF HashesChecked, SingleClient, NothingChecked
<1> QED
  BY <1>4, <1>5 DEF HashInv

LEMMA HashServe ==
    ASSUME TypeOK, Rest, SingleClient, HashInv, NEW r \in Clients, Serve(r)
    PROVE  HashInv'
<1> USE DEF docVars, clientVars
<1>1. CASE upload_and_ingest_create(r)
  <2>1. CASE CollExists(rcoll[r])
    <3>1. PICK d \in Documents :
            /\ create_pending_document(d, rcoll[r], FALSE, rhash[r])
            /\ Continue(r, "put", {d}, rcoll[r], NoHash)
      BY <1>1, <2>1 DEF upload_and_ingest_create
    <3>2. NothingChecked(r)'
      BY <3>1, ContinueAt DEF NothingChecked
    <3> QED
      BY <1>1, <3>1, <3>2, HashCreate DEF upload_and_ingest_create
  <2>2. CASE ~CollExists(rcoll[r])
    <3>1. NoNewContent /\ Answer(r)
      BY <1>1, <2>2 DEF upload_and_ingest_create, NoNewContent, DocExists
    <3>2. NothingChecked(r)'
      BY <3>1, ContinueAt DEF Answer, NothingChecked
    <3> QED
      BY <3>1, <3>2, HashKept DEF SingleClient
  <2> QED
    BY <2>1, <2>2
<1>2. CASE register_document_create(r)
  <2>1. CASE CollExists(rcoll[r])
    <3>1. PICK d \in Documents :
            /\ create_pending_document(d, rcoll[r], TRUE, rhash[r])
            /\ Continue(r, "enqueue", {d}, rcoll[r], NoHash)
      BY <1>2, <2>1 DEF register_document_create
    <3>2. NothingChecked(r)'
      BY <3>1, ContinueAt DEF NothingChecked
    <3> QED
      BY <1>2, <3>1, <3>2, HashCreate DEF register_document_create
  <2>2. CASE ~CollExists(rcoll[r])
    <3>1. NoNewContent /\ Answer(r)
      BY <1>2, <2>2 DEF register_document_create, NoNewContent, DocExists
    <3>2. NothingChecked(r)'
      BY <3>1, ContinueAt DEF Answer, NothingChecked
    <3> QED
      BY <3>1, <3>2, HashKept DEF SingleClient
  <2> QED
    BY <2>1, <2>2
<1>3. CASE resolve_decision_commit(r)
  <2>1. PICK d \in rtodo[r] :
          IF DocExists(d) /\ CollExists(rcoll[r])
          THEN /\ docColl' = [docColl EXCEPT ![d] = rcoll[r]]
               /\ docStatus' = [docStatus EXCEPT ![d] = "registered"]
               /\ Continue(r, "enqueue", rtodo[r], rcoll[r], NoHash)
          ELSE Answer(r) /\ UNCHANGED <<docColl, docStatus>>
    BY <1>3 DEF resolve_decision_commit
  <2>2. rpc[r] = "reassign" /\ UNCHANGED docHash
    BY <1>3 DEF resolve_decision_commit
  <2>3. NothingChecked(r)'
    BY <2>1, ContinueAt DEF Answer, NothingChecked
  <2>4. CASE DocExists(d) /\ CollExists(rcoll[r])
    BY <2>1, <2>2, <2>3, <2>4, HashMove
  <2>5. CASE ~(DocExists(d) /\ CollExists(rcoll[r]))
    <3>1. NoNewContent
      BY <2>1, <2>2, <2>5 DEF NoNewContent, DocExists
    <3> QED
      BY <2>3, <3>1, HashKept DEF SingleClient
  <2> QED
    BY <2>4, <2>5
<1>4. CASE upload_and_ingest_put(r) \/ enqueue_job(r)
  <2>1. NoNewContent
    BY <1>4 DEF upload_and_ingest_put, enqueue_job, NoNewContent, DocExists
  <2>2. NothingChecked(r)'
    BY <1>4, ContinueAt DEF upload_and_ingest_put, enqueue_job, Abandon,
       Answer, NothingChecked
  <2> QED
    BY <2>1, <2>2, HashKept DEF SingleClient
<1> QED
  BY <1>1, <1>2, <1>3, <1>4 DEF Serve

\* The first transaction of a request changes at most statuses and sources.
LEMMA CallContent ==
    ASSUME TypeOK, NEW r \in Clients, Call(r)
    PROVE  NoNewContent
<1>0. docStatus \in [Documents -> DocStatus \cup {"none", "deleted"}]
  BY DEF TypeOK, DocTypeOK
<1> QED
  BY <1>0 DEF Call, upload_and_ingest, register_document, reindex_document,
     reindex_collection, resolve_decision, NoNewContent, DocExists,
     find_document_by_hash, docVars

LEMMA HashCall ==
    ASSUME TypeOK, Rest, SingleClient, HashInv, NEW r \in Clients, Call(r)
    PROVE  HashInv'
<1> USE DEF docVars, clientVars
<1>1. NoNewContent
  BY CallContent
<1>2. NoDuplicateHash'
  BY <1>1 DEF HashInv, NoDuplicateHash, NoNewContent
<1>3. \A c, h : find_document_by_hash(c, h) = {}
                  => find_document_by_hash(c, h)' = {}
  BY <1>1 DEF find_document_by_hash, NoNewContent
<1>4. ASSUME NEW c \in Collections, NEW h \in Hashes, upload_and_ingest(r, c, h)
      PROVE  HashesChecked'
  <2>1. /\ rpc'[r] = "create_upload" /\ rcoll'[r] = c /\ rhash'[r] = h
        /\ find_document_by_hash(c, h)' = {}
    BY <1>3, <1>4, ContinueAt DEF upload_and_ingest
  <2> QED
    BY <2>1 DEF HashesChecked, SingleClient, find_document_by_hash
<1>5. ASSUME NEW c \in Collections, NEW h \in Hashes \cup {NoHash},
             register_document(r, c, h)
      PROVE  HashesChecked'
  <2>1. CASE h = NoHash \/ find_document_by_hash(c, h) = {}
    <3>1. rpc'[r] = "create_register" /\ rcoll'[r] = c /\ rhash'[r] = h
      BY <1>5, <2>1, ContinueAt DEF register_document
    <3>2. h = NoHash \/ find_document_by_hash(c, h)' = {}
      BY <1>3, <2>1
    <3> QED
      BY <3>1, <3>2 DEF HashesChecked, SingleClient, find_document_by_hash
  <2>2. CASE ~(h = NoHash \/ find_document_by_hash(c, h) = {})
    <3>1. rpc'[r] = "enqueue"
      BY <1>5, <2>2, ContinueAt DEF register_document
    <3> QED
      BY <3>1 DEF HashesChecked, SingleClient
  <2> QED
    BY <2>1, <2>2
<1>6. ASSUME NEW d \in Documents, NEW c \in Collections, resolve_decision(r, d, c)
      PROVE  HashesChecked'
  <2>1. rpc'[r] = "reassign" /\ rcoll'[r] = c /\ rtodo'[r] = {d}
    BY <1>6, ContinueAt DEF resolve_decision
  <2>2. docHash'[d] # NoHash => find_document_by_hash(c, docHash[d])' = {}
    BY <1>1, <1>6 DEF resolve_decision, NoNewContent, find_document_by_hash
  <2> QED
    BY <2>1, <2>2 DEF HashesChecked, SingleClient, find_document_by_hash
<1>7. ASSUME \/ \E d \in Documents : reindex_document(r, d)
             \/ \E c \in Collections, v \in Cfgs : reindex_collection(r, c, v)
      PROVE  HashesChecked'
  <2>1. NothingChecked(r)'
    BY <1>7, ContinueAt DEF reindex_document, reindex_collection, Answer,
       NothingChecked
  <2> QED
    BY <2>1 DEF HashesChecked, SingleClient, NothingChecked
<1>8. HashesChecked'
  BY <1>4, <1>5, <1>6, <1>7 DEF Call
<1> QED
  BY <1>2, <1>8 DEF HashInv

\* The content check is exact while requests do not overlap: whatever the
\* workers, crashes, deletions and changes by hand do between the check and
\* the commit, an upload, a registration or a move never gives a collection a
\* second document with one content_hash.  (create_document takes the
\* caller's hash without a check; two requests can both pass it.)
THEOREM OneRequestNoDuplicates ==
    ASSUME SingleClient, "create_document" \notin Ops
    PROVE  Spec => []NoDuplicateHash
<1>1. Init => HashInv
  BY DEF Init, HashInv, NoDuplicateHash, HashesChecked, DocExists, DocStatus
<1>2. IInv /\ HashInv /\ [Next]_vars => HashInv'
  <2> SUFFICES ASSUME TypeOK, Rest, HashInv, [Next]_vars PROVE HashInv'
    BY DEF IInv, Rest
  <2>1. CASE UNCHANGED vars
    <3>1. NoNewContent /\ UNCHANGED clientVars
      BY <2>1 DEF vars, NoNewContent, DocExists, docVars
    <3> QED
      BY <3>1, HashKept DEF clientVars
  <2>2. ASSUME NEW w \in Workers,
               Worker(w) \/ worker_crash(w) \/ run_pipeline_record_lost(w)
        PROVE  HashInv'
    <3>1. NoNewContent /\ UNCHANGED clientVars
      BY <2>2, WorkerContent
    <3> QED
      BY <3>1, HashKept DEF clientVars
  <2>3. ASSUME NEW r \in Clients,
               request_crash(r) \/ upload_and_ingest_put_fails(r)
        PROVE  HashInv'
    <3>1. NoNewContent /\ Answer(r)
      BY <2>3 DEF request_crash, upload_and_ingest_put_fails, Abandon,
         NoNewContent, DocExists, docVars
    <3>2. NothingChecked(r)'
      BY <3>1, ContinueAt DEF Answer, NothingChecked
    <3> QED
      BY <3>1, <3>2, HashKept DEF SingleClient
  <2>4. CASE CallAtomic
    <3>1. ~\E d \in Documents, c \in Collections, src \in BOOLEAN,
             h \in Hashes \cup {NoHash} : create_document(d, c, src, h)
      BY DEF create_document, Request
    <3>2. NoNewContent /\ UNCHANGED clientVars
      BY <2>4, <3>1 DEF CallAtomic, update_document, delete_document,
         delete_collection, update_collection, DeleteDocs, NoNewContent,
         DocExists, DocStatus, docVars, TypeOK, DocTypeOK
    <3> QED
      BY <3>2, HashKept DEF clientVars
  <2> QED
    BY <2>1, <2>2, <2>3, <2>4, HashServe, HashCall DEF Next, Failure
<1>3. HashInv => NoDuplicateHash
  BY DEF HashInv
<1> QED
  BY <1>1, <1>2, <1>3, Invariance, PTL DEF Spec
------------------------------------------------------------------------------
(***************************************************************************)
(* A search reads the right index, as long as there is one worker and no   *)
(* document is moved while another request is about to enqueue it.  The    *)
(* queue is first in first out, so the last job of a document has the last *)
(* word; that job must have been enqueued after the last move and must     *)
(* begin after the last change of settings.                                *)
(***************************************************************************)
\* A request is about to enqueue document d.
Asked(d) == \E r \in Clients : rpc[r] = "enqueue" /\ d \in rtodo[r]

\* The jobs of document d that are not done, and whether one never will be.
Unsettled(d) ==
    {j \in Jobs : jobDoc[j] = d /\ jobStatus[j] \in {"queued", "running"}}
Stranded(d) == \E j \in Unsettled(d) : j \in lost

\* A request enqueues documents for the collection they are in.
Aims(r) ==
    /\ rpc[r] \in {"idle", "create_upload", "create_register"} => rtodo[r] = {}
    /\ rpc[r] \in {"put", "enqueue"}
         => \A d \in rtodo[r] : DocExists(d) => docColl[d] = rcoll[r]
    /\ rpc[r] = "reassign" => "resolve_decision" \in Ops
RequestsAim == \A r \in Clients : Aims(r)

\* What is indexed, or about to be, has a source: reindex_collection, which
\* leaves out the documents without one, forgets no index.
Sourced ==
    /\ \A d \in Documents : docStatus[d] = "indexed" => docSrc[d]
    /\ \A w \in Workers : wpc[w] \in Pipeline => docSrc[jobDoc[wjob[w]]]

\* The job a worker has taken is older than every other queued job.
OldestFirst ==
    \A w \in Workers, j \in Jobs :
        wpc[w] # "idle" /\ j # wjob[w] /\ jobStatus[j] = "queued" => wjob[w] < j

\* No worker holds, or will take, a job that was lost.
LostUnheld ==
    /\ \A j \in lost : jobStatus[j] \in {"running", "deleted"}
    /\ \A w \in Workers : wpc[w] # "idle" => wjob[w] \notin lost

\* The DELETE of a pipeline has taken chunks of its own document only.
OwnChunks ==
    \A w \in Workers :
        wpc[w] = "insert" => \A k \in wsnap[w] : jobDoc[k] = jobDoc[wjob[w]]

\* The last job of document d is for the collection the document is in, and
\* if its pipeline is under way it uses the settings of today.
LastJobFits(d) ==
    \A j \in Unsettled(d) :
        (\A k \in Unsettled(d) : k <= j) =>
            /\ jobColl[j] = docColl[d]
            /\ \A w \in Workers : wpc[w] \in Pipeline /\ wjob[w] = j
                                     => wcfg[w] = collCfg[docColl[d]]

\* Nothing is promised about such a document (yet).
Exempt(d) == ~DocExists(d) \/ Asked(d) \/ d \in orphans \/ Stranded(d)

Settles(d) ==
    ~Exempt(d) => /\ LastJobFits(d)
                  /\ docStatus[d] = "indexed" /\ Unsettled(d) = {} => Fresh(d)

Settling == \A d \in Documents : Settles(d)

FreshInv ==
    /\ RequestsAim /\ Sourced /\ OldestFirst /\ LostUnheld /\ OwnChunks
    /\ Settling

\* A document nothing of which changes stays as it is.
LEMMA SettlesKept ==
    ASSUME NEW d \in Documents, Settles(d), Exempt(d) => Exempt(d)',
           DocExists(d)' => docColl'[d] = docColl[d],
           DocExists(d)' => collCfg'[docColl[d]] = collCfg[docColl[d]],
           docStatus'[d] = "indexed" => docStatus[d] = "indexed",
           Unsettled(d)' = Unsettled(d), ChunksOf(d)' = ChunksOf(d),
           \A j \in Unsettled(d) \cup ChunksOf(d) : jobColl'[j] = jobColl[j],
           \A j \in ChunksOf(d) : chunkCfg'[j] = chunkCfg[j],
           \A w \in Workers, j \in Unsettled(d) :
             wpc'[w] \in Pipeline /\ wjob'[w] = j
               => wpc[w] \in Pipeline /\ wjob[w] = j /\ wcfg'[w] = wcfg[w]
    PROVE  Settles(d)'
<1> SUFFICES ASSUME ~Exempt(d)'
             PROVE  /\ LastJobFits(d)'
                    /\ docStatus'[d] = "indexed" /\ Unsettled(d)' = {}
                         => Fresh(d)'
  BY DEF Settles
<1>1. ~Exempt(d) /\ DocExists(d)'
  BY DEF Exempt
<1>2. LastJobFits(d) /\ (docStatus[d] = "indexed" /\ Unsettled(d) = {} => Fresh(d))
  BY <1>1 DEF Settles
<1>3. LastJobFits(d)'
  <2> SUFFICES ASSUME NEW j \in Unsettled(d), \A k \in Unsettled(d) : k <= j
               PROVE  /\ jobColl'[j] = docColl'[d]
                      /\ \A w \in Workers : wpc'[w] \in Pipeline /\ wjob'[w] = j
                             => wcfg'[w] = collCfg'[docColl'[d]]
    BY DEF LastJobFits
  <2> QED
    BY <1>1, <1>2 DEF LastJobFits
<1>4. Fresh(d) => Fresh(d)'
  BY <1>1 DEF Fresh
<1> QED
  BY <1>2, <1>3, <1>4

\* The only worker is done with a job of document d: the jobs that are left
\* are younger, so the last one is still the last.
LEMMA SettlesDone ==
    ASSUME TypeOK, SingleWorker, RunningAccounted, OldestFirst,
           NEW w \in Workers, wpc[w] \notin {"idle", "claiming"},
           wjob[w] \in Jobs, wpc'[w] = "idle",
           NEW d \in Documents, Settles(d), Exempt(d) => Exempt(d)',
           docColl'[d] = docColl[d], UNCHANGED <<collCfg, jobColl>>,
           Unsettled(d)' = Unsettled(d) \ {wjob[w]}, wjob[w] \in Unsettled(d),
           \* what the job leaves behind if it was the last
           (/\ docStatus'[d] = "indexed" /\ DocExists(d)
            /\ jobColl[wjob[w]] = docColl[d]
            /\ wpc[w] \in Pipeline => wcfg[w] = collCfg[docColl[d]])
             => Fresh(d)'
    PROVE  Settles(d)'
<1> SUFFICES ASSUME ~Exempt(d)'
             PROVE  /\ LastJobFits(d)'
                    /\ docStatus'[d] = "indexed" /\ Unsettled(d)' = {}
                         => Fresh(d)'
  BY DEF Settles
<1>1. ~Exempt(d)
  OBVIOUS
<1>2. LastJobFits(d) /\ DocExists(d)
  BY <1>1 DEF Settles, Exempt
<1>3. \A k \in Unsettled(d)' : wjob[w] < k
  <2> SUFFICES ASSUME NEW k \in Unsettled(d), k # wjob[w] PROVE wjob[w] < k
    OBVIOUS
  <2>1. k \in Jobs /\ k \notin lost
    BY <1>1 DEF Exempt, Stranded, Unsettled
  <2>2. jobStatus[k] # "running"
    BY <2>1 DEF RunningAccounted, Holds, SingleWorker
  <2> QED
    BY <2>1, <2>2 DEF Unsettled, OldestFirst
<1>4. Unsettled(d) \subseteq Jobs /\ Jobs \subseteq Nat
  BY CfgsJobs DEF Unsettled
<1>5. LastJobFits(d)'
  <2> SUFFICES ASSUME NEW j \in Unsettled(d)',
                      \A k \in Unsettled(d)' : k <= j
               PROVE  /\ jobColl'[j] = docColl'[d]
                      /\ \A v \in Workers : wpc'[v] \notin Pipeline
    BY DEF LastJobFits
  <2>1. \A k \in Unsettled(d) : k <= j
    BY <1>3, <1>4
  <2>2. \A v \in Workers : wpc'[v] \notin Pipeline
    BY DEF SingleWorker, Pipeline
  <2> QED
    BY <1>2, <2>1, <2>2 DEF LastJobFits
<1>6. ASSUME docStatus'[d] = "indexed", Unsettled(d)' = {} PROVE Fresh(d)'
  <2>1. \A k \in Unsettled(d) : k = wjob[w]
    BY <1>6
  <2>2. wjob[w] \in Nat
    BY CfgsJobs
  <2>3. \A k \in Unsettled(d) : k <= wjob[w]
    BY <2>1, <2>2
  <2>4. /\ jobColl[wjob[w]] = docColl[d]
        /\ wpc[w] \in Pipeline => wcfg[w] = collCfg[docColl[d]]
    BY <1>2, <2>3 DEF LastJobFits
  <2> QED
    BY <1>2, <1>6, <2>4
<1> QED
  BY <1>5, <1>6

\* A new job of document d is the last one, and no worker has it.
LEMMA SettlesAdded ==
    ASSUME TypeOK, JobRows, WorkerJobs, NEW d \in Documents,
           nextJob \in Jobs, jobColl'[nextJob] = docColl'[d],
           Unsettled(d)' = Unsettled(d) \cup {nextJob}, UNCHANGED workerVars
    PROVE  Settles(d)'
<1>1. \A w \in Workers : wpc[w] \in Pipeline => wjob[w] # nextJob
  <2> SUFFICES ASSUME NEW w \in Workers, wpc[w] \in Pipeline
               PROVE  wjob[w] \in Jobs /\ jobStatus[wjob[w]] # "none"
    BY CfgsJobs DEF JobRows
  <2> QED
    BY DEF WorkerJobs, Pipeline
<1>2. \A k \in Unsettled(d) : k < nextJob
  BY CfgsJobs DEF Unsettled, JobRows
<1>3. \A j \in Unsettled(d)' : (\A k \in Unsettled(d)' : k <= j) => j = nextJob
  BY <1>2, CfgsJobs DEF Unsettled
<1>4. LastJobFits(d)'
  BY <1>1, <1>3 DEF LastJobFits, workerVars
<1> QED
  BY <1>4 DEF Settles

\* What the theorem asks of the requests: they do not overlap, or none of
\* them moves a document.
OneMover == SingleClient \/ "resolve_decision" \notin Ops

\* No document that was there has moved.
NoMove ==
    \A d \in Documents : docStatus[d] # "none" /\ DocExists(d)'
                           => DocExists(d) /\ docColl'[d] = docColl[d]

LEMMA AimKept ==
    ASSUME TypeOK, ClientRefs, NoMove, NEW r \in Clients, Aims(r),
           rpc'[r] = rpc[r], rtodo'[r] = rtodo[r], rcoll'[r] = rcoll[r]
    PROVE  Aims(r)'
<1>1. \A d \in rtodo[r] : d \in Documents /\ docStatus[d] # "none"
  BY DEF ClientRefs, TypeOK, ClientTypeOK
<1> QED
  BY <1>1 DEF Aims, NoMove

LEMMA ContentNoMove == NoNewContent => NoMove
BY DEF NoNewContent, NoMove

LEMMA CreateNoMove ==
    ASSUME TypeOK, NEW d \in Documents, NEW c, NEW src, NEW h,
           create_pending_document(d, c, src, h)
    PROVE  NoMove
BY DEF create_pending_document, NoMove, TypeOK, DocTypeOK, DocExists

\* A step of request r that moves nothing only has to answer for r.
LEMMA AimOne ==
    ASSUME TypeOK, ClientRefs, RequestsAim, NoMove, NEW r \in Clients, Aims(r)',
           \A q \in Clients : q # r => /\ rpc'[q] = rpc[q]
                                       /\ rtodo'[q] = rtodo[q]
                                       /\ rcoll'[q] = rcoll[q]
    PROVE  RequestsAim'
<1> SUFFICES ASSUME NEW q \in Clients PROVE Aims(q)'
  BY DEF RequestsAim
<1>1. CASE q = r
  BY <1>1
<1>2. CASE q # r
  BY <1>2, AimKept DEF RequestsAim
<1> QED
  BY <1>1, <1>2

LEMMA AimIdle ==
    ASSUME TypeOK, NEW r \in Clients, Answer(r)
    PROVE  /\ Aims(r)'
           /\ \A q \in Clients : q # r => /\ rpc'[q] = rpc[q]
                                          /\ rtodo'[q] = rtodo[q]
                                          /\ rcoll'[q] = rcoll[q]
<1>1. rpc'[r] = "idle" /\ rtodo'[r] = {}
  BY ContinueAt DEF Answer
<1>2. Aims(r)'
  BY <1>1 DEF Aims
<1> QED
  BY <1>2, ContinueAt DEF Answer

LEMMA AimCreate ==
    ASSUME TypeOK, Rest, RequestsAim, NEW r \in Clients, NEW d \in Documents,
           NEW src, create_pending_document(d, rcoll[r], src, rhash[r]),
           NEW pc \in {"put", "enqueue"}, Continue(r, pc, {d}, rcoll[r], NoHash)
    PROVE  RequestsAim'
<1>1. docColl'[d] = rcoll[r]
  BY DEF create_pending_document, TypeOK, DocTypeOK
<1>2. Aims(r)'
  BY <1>1, ContinueAt DEF Aims
<1> QED
  BY <1>2, ContinueAt, CreateNoMove, AimOne DEF Rest

LEMMA AimServe ==
    ASSUME TypeOK, Rest, OneMover, RequestsAim, NEW r \in Clients, Serve(r)
    PROVE  RequestsAim'
<1> USE DEF docVars
<1>0. ClientRefs
  BY DEF Rest
<1>1. CASE upload_and_ingest_create(r)
  <2>1. CASE CollExists(rcoll[r])
    BY <1>1, <2>1, AimCreate DEF upload_and_ingest_create
  <2>2. CASE ~CollExists(rcoll[r])
    <3>1. Answer(r) /\ NoMove
      BY <1>1, <2>2 DEF upload_and_ingest_create, NoMove, DocExists
    <3> QED
      BY <1>0, <3>1, AimIdle, AimOne
  <2> QED
    BY <2>1, <2>2
<1>2. CASE register_document_create(r)
  <2>1. CASE CollExists(rcoll[r])
    BY <1>2, <2>1, AimCreate DEF register_document_create
  <2>2. CASE ~CollExists(rcoll[r])
    <3>1. Answer(r) /\ NoMove
      BY <1>2, <2>2 DEF register_document_create, NoMove, DocExists
    <3> QED
      BY <1>0, <3>1, AimIdle, AimOne
  <2> QED
    BY <2>1, <2>2
<1>3. CASE upload_and_ingest_put(r)
  <2>1. NoMove
    BY <1>3 DEF upload_and_ingest_put, NoMove, DocExists
  <2>2. CASE Answer(r)
    BY <1>0, <2>1, <2>2, AimIdle, AimOne
  <2>3. CASE Continue(r, "enqueue", rtodo[r], rcoll[r], NoHash)
    <3>1. rpc[r] = "put" /\ UNCHANGED <<docStatus, docColl>> /\ Aims(r)
      BY <1>3 DEF upload_and_ingest_put, RequestsAim
    <3>2. Aims(r)'
      BY <2>3, <3>1, ContinueAt DEF Aims, DocExists
    <3> QED
      BY <1>0, <2>1, <2>3, <3>2, ContinueAt, AimOne
  <2> QED
    BY <1>3, <2>2, <2>3 DEF upload_and_ingest_put
<1>4. CASE enqueue_job(r)
  <2>1. NoMove /\ UNCHANGED <<docStatus, docColl>>
    BY <1>4 DEF enqueue_job, NoMove, DocExists
  <2>2. CASE Answer(r)
    BY <1>0, <2>1, <2>2, AimIdle, AimOne
  <2>3. ASSUME NEW d \in rtodo[r],
               Continue(r, "enqueue", rtodo[r] \ {d}, rcoll[r], NoHash)
        PROVE  RequestsAim'
    <3>1. rpc[r] = "enqueue" /\ Aims(r)
      BY <1>4 DEF enqueue_job, RequestsAim
    <3>2. Aims(r)'
      BY <2>1, <2>3, <3>1, ContinueAt DEF Aims, DocExists
    <3> QED
      BY <1>0, <2>1, <2>3, <3>2, ContinueAt, AimOne
  <2> QED
    BY <1>4, <2>2, <2>3 DEF enqueue_job, Abandon
<1>5. CASE resolve_decision_commit(r)
  <2>1. PICK d \in rtodo[r] :
          IF DocExists(d) /\ CollExists(rcoll[r])
          THEN /\ docColl' = [docColl EXCEPT ![d] = rcoll[r]]
               /\ docStatus' = [docStatus EXCEPT ![d] = "registered"]
               /\ Continue(r, "enqueue", rtodo[r], rcoll[r], NoHash)
          ELSE Answer(r) /\ UNCHANGED <<docColl, docStatus>>
    BY <1>5 DEF resolve_decision_commit
  <2>2. rpc[r] = "reassign" /\ d \in Documents
    BY <1>5 DEF resolve_decision_commit, TypeOK, ClientTypeOK
  <2>3. SingleClient
    BY <2>2 DEF RequestsAim, Aims, OneMover
  <2>4. CASE DocExists(d) /\ CollExists(rcoll[r])
    <3>1. \A e \in rtodo[r] : e = d
      BY <1>0, <2>2 DEF ClientRefs
    <3>2. docColl'[d] = rcoll[r]
      BY <2>1, <2>2, <2>4 DEF TypeOK, DocTypeOK
    <3>3. rpc'[r] = "enqueue" /\ rtodo'[r] = rtodo[r] /\ rcoll'[r] = rcoll[r]
      BY <2>1, <2>4, ContinueAt
    <3>4. Aims(r)'
      BY <3>1, <3>2, <3>3 DEF Aims
    <3> QED
      BY <2>3, <3>4 DEF RequestsAim, SingleClient
  <2>5. CASE ~(DocExists(d) /\ CollExists(rcoll[r]))
    BY <2>1, <2>3, <2>5, AimIdle DEF RequestsAim, SingleClient
  <2> QED
    BY <2>4, <2>5
<1> QED
  BY <1>1, <1>2, <1>3, <1>4, <1>5 DEF Serve

LEMMA AimCall ==
    ASSUME TypeOK, Rest, RequestsAim, NEW r \in Clients, Call(r)
    PROVE  RequestsAim'
<1> USE DEF docVars
<1>0. ClientRefs
  BY DEF Rest
<1>1. NoNewContent /\ NoMove
  BY CallContent, ContentNoMove
<1>2. ASSUME NEW c \in Collections, NEW h \in Hashes, upload_and_ingest(r, c, h)
      PROVE  RequestsAim'
  <2>1. Aims(r)'
    BY <1>2, ContinueAt DEF upload_and_ingest, Aims
  <2> QED
    BY <1>0, <1>1, <1>2, <2>1, ContinueAt, AimOne DEF upload_and_ingest
<1>3. ASSUME NEW c \in Collections, NEW h \in Hashes \cup {NoHash},
             register_document(r, c, h)
      PROVE  RequestsAim'
  <2>1. CASE Continue(r, "create_register", {}, c, h)
    <3>1. Aims(r)'
      BY <2>1, ContinueAt DEF Aims
    <3> QED
      BY <1>0, <1>1, <2>1, <3>1, ContinueAt, AimOne
  <2>2. ASSUME NEW d \in find_document_by_hash(c, h), UNCHANGED docColl,
               Continue(r, "enqueue", {d}, c, NoHash)
        PROVE  RequestsAim'
    <3>1. Aims(r)'
      BY <2>2, ContinueAt DEF Aims, find_document_by_hash
    <3> QED
      BY <1>0, <1>1, <2>2, <3>1, ContinueAt, AimOne
  <2> QED
    BY <1>3, <2>1, <2>2 DEF register_document
<1>4. ASSUME NEW d \in Documents, reindex_document(r, d) PROVE RequestsAim'
  <2>1. Continue(r, "enqueue", {d}, docColl[d], NoHash) /\ UNCHANGED docColl
    BY <1>4 DEF reindex_document
  <2>2. Aims(r)'
    BY <2>1, ContinueAt DEF Aims
  <2> QED
    BY <1>0, <1>1, <2>1, <2>2, ContinueAt, AimOne
<1>5. ASSUME NEW c \in Collections, NEW v \in Cfgs, reindex_collection(r, c, v)
      PROVE  RequestsAim'
  <2> DEFINE todo == {d \in Documents :
                        DocExists(d) /\ docColl[d] = c /\ docSrc[d]}
  <2>1. /\ Answer(r) \/ Continue(r, "enqueue", todo, c, NoHash)
        /\ UNCHANGED docColl
        /\ \A d \in todo : docColl[d] = c
    BY <1>5 DEF reindex_collection
  <2> HIDE DEF todo
  <2>2. CASE Answer(r)
    BY <1>0, <1>1, <2>2, AimIdle, AimOne
  <2>3. CASE Continue(r, "enqueue", todo, c, NoHash)
    <3>1. Aims(r)'
      BY <2>1, <2>3, ContinueAt DEF Aims
    <3> QED
      BY <1>0, <1>1, <2>3, <3>1, ContinueAt, AimOne
  <2> QED
    BY <2>1, <2>2, <2>3
<1>6. ASSUME NEW d \in Documents, NEW c \in Collections, resolve_decision(r, d, c)
      PROVE  RequestsAim'
  <2>1. Continue(r, "reassign", {d}, c, NoHash) /\ "resolve_decision" \in Ops
    BY <1>6 DEF resolve_decision, Request
  <2>2. Aims(r)'
    BY <2>1, ContinueAt DEF Aims
  <2> QED
    BY <1>0, <1>1, <2>1, <2>2, ContinueAt, AimOne
<1> QED
  BY <1>2, <1>3, <1>4, <1>5, <1>6 DEF Call

\* Neither the workers nor the other failures and handlers move a document.
LEMMA AtomicNoMove ==
    ASSUME TypeOK, CallAtomic
    PROVE  NoMove /\ UNCHANGED clientVars
<1>0. docStatus \in [Documents -> DocStatus \cup {"none", "deleted"}]
  BY DEF TypeOK, DocTypeOK
<1>1. ASSUME NEW d \in Documents, NEW c \in Collections, NEW src \in BOOLEAN,
             NEW h \in Hashes \cup {NoHash}, create_document(d, c, src, h)
      PROVE  NoMove /\ UNCHANGED clientVars
  BY <1>1, CreateNoMove DEF create_document
<1>2. ASSUME \/ \E d \in Documents, s \in DocStatus : update_document(d, s)
             \/ \E d \in Documents : delete_document(d)
             \/ \E c \in Collections : delete_collection(c)
             \/ \E c \in Collections, s \in {"active", "archived"} :
                  update_collection(c, s)
      PROVE  NoMove /\ UNCHANGED clientVars
  BY <1>0, <1>2 DEF update_document, delete_document, delete_collection,
     update_collection, DeleteDocs, NoMove, DocExists, DocStatus, docVars
<1> QED
  BY <1>1, <1>2 DEF CallAtomic

LEMMA AimStep ==
    ASSUME TypeOK, Rest, OneMover, RequestsAim, Next
    PROVE  RequestsAim'
<1>0. ClientRefs
  BY DEF Rest
<1>1. ASSUME NoMove, UNCHANGED clientVars PROVE RequestsAim'
  BY <1>0, <1>1, AimKept DEF clientVars, RequestsAim
<1>2. ASSUME NEW w \in Workers,
             Worker(w) \/ worker_crash(w) \/ run_pipeline_record_lost(w)
      PROVE  RequestsAim'
  BY <1>1, <1>2, WorkerContent, ContentNoMove
<1>3. ASSUME NEW r \in Clients, request_crash(r) \/ upload_and_ingest_put_fails(r)
      PROVE  RequestsAim'
  <2>1. Answer(r) /\ NoMove
    BY <1>3 DEF request_crash, upload_and_ingest_put_fails, Abandon, NoMove,
       DocExists, docVars
  <2> QED
    BY <1>0, <2>1, AimIdle, AimOne
<1>4. CASE CallAtomic
  BY <1>1, <1>4, AtomicNoMove
<1> QED
  BY <1>2, <1>3, <1>4, AimServe, AimCall DEF Next, Failure
------------------------------------------------------------------------------
\* A worker's document is not one that is still to be created.
LEMMA WorkerDoc ==
    ASSUME TypeOK, Rest, NEW w \in Workers, wpc[w] \in Pipeline
    PROVE  /\ wjob[w] \in Jobs /\ jobDoc[wjob[w]] \in Documents
           /\ docStatus[jobDoc[wjob[w]]] # "none"
           /\ jobStatus[wjob[w]] # "none"
<1>1. wpc[w] \notin {"idle", "claiming"}
  BY DEF Pipeline
<1>2. wjob[w] \in Jobs /\ jobDoc[wjob[w]] \in Documents
  BY <1>1, WorkerRefs DEF Rest
<1>3. jobStatus[wjob[w]] \in {"running", "deleted"}
  BY <1>1 DEF Rest, WorkerJobs
<1> QED
  BY <1>2, <1>3 DEF Rest, ForeignKeys, JobExists, JobStatus, DocExists, DocStatus

\* A source stays, no status becomes "indexed" and no pipeline begins.
LEMMA SourcedKept ==
    ASSUME TypeOK, Rest, Sourced,
           \A d \in Documents :
             /\ docStatus[d] # "none" /\ docSrc[d] => docSrc'[d]
             /\ docStatus'[d] = "indexed" => docStatus[d] = "indexed",
           \A w \in Workers :
             wpc'[w] \in Pipeline => /\ wpc[w] \in Pipeline
                                     /\ wjob'[w] = wjob[w]
                                     /\ jobDoc'[wjob[w]] = jobDoc[wjob[w]]
    PROVE  Sourced'
<1>1. ASSUME NEW d \in Documents, docStatus'[d] = "indexed" PROVE docSrc'[d]
  BY <1>1 DEF Sourced
<1>2. ASSUME NEW w \in Workers, wpc'[w] \in Pipeline
      PROVE  docSrc'[jobDoc'[wjob'[w]]]
  BY <1>2, WorkerDoc DEF Sourced
<1> QED
  BY <1>1, <1>2 DEF Sourced

LEMMA SourcedWorker ==
    ASSUME TypeOK, Rest, Sourced, NEW w \in Workers,
           Worker(w) \/ worker_crash(w) \/ run_pipeline_record_lost(w)
    PROVE  Sourced'
<1> USE DEF docVars, jobVars, workerVars
<1>0. /\ docStatus \in [Documents -> DocStatus \cup {"none", "deleted"}]
      /\ wpc \in [Workers -> WorkerPc] /\ wjob \in [Workers -> Jobs \cup {0}]
      /\ wpc[w] # "idle" => wjob[w] \in Jobs /\ jobDoc[wjob[w]] \in Documents
  BY WorkerRefs DEF TypeOK, DocTypeOK, WorkerTypeOK, Rest
<1>1. CASE run_pipeline(w)
  <2>1. \A d \in Documents : docStatus'[d] = "indexed" => docStatus[d] = "indexed"
    BY <1>0, <1>1 DEF run_pipeline
  <2>2. \A v \in Workers : wpc'[v] \in Pipeline =>
          IF v = w THEN docSrc[jobDoc[wjob[w]]] ELSE wpc[v] = wpc'[v]
    BY <1>0, <1>1 DEF run_pipeline, Pipeline
  <2>3. UNCHANGED <<docSrc, jobDoc, wjob>>
    BY <1>1 DEF run_pipeline
  <2> QED
    BY <2>1, <2>2, <2>3 DEF Sourced
<1>2. CASE run_pipeline_commit(w)
  <2>1. wpc[w] \in Pipeline /\ wpc'[w] = "idle"
    BY <1>0, <1>2 DEF run_pipeline_commit, Pipeline, GoIdle
  <2>2. \A d \in Documents : docStatus'[d] = "indexed"
                               => docStatus[d] = "indexed" \/ d = jobDoc[wjob[w]]
    BY <1>0, <1>2 DEF run_pipeline_commit
  <2>3. UNCHANGED <<docSrc, jobDoc>>
    BY <1>2 DEF run_pipeline_commit
  <2>4. \A v \in Workers : v # w => wpc'[v] = wpc[v] /\ wjob'[v] = wjob[v]
    BY <1>0, <1>2 DEF run_pipeline_commit, GoIdle
  <2>5. \A d \in Documents : docStatus'[d] = "indexed" => docSrc'[d]
    BY <2>1, <2>2, <2>3 DEF Sourced
  <2>6. \A v \in Workers : wpc'[v] \in Pipeline => docSrc'[jobDoc'[wjob'[v]]]
    BY <2>1, <2>3, <2>4 DEF Sourced, Pipeline
  <2> QED
    BY <2>5, <2>6 DEF Sourced
<1>3. CASE run_pipeline_delete(w)
  <2>1. \A v \in Workers : wpc'[v] \in Pipeline => wpc[v] \in Pipeline
    BY <1>0, <1>3 DEF run_pipeline_delete, Pipeline
  <2> QED
    BY <1>3, <2>1, SourcedKept DEF run_pipeline_delete
<1>4. CASE QuietWorker(w)
  <2>1. \A v \in Workers : wpc'[v] \in Pipeline
                             => wpc[v] \in Pipeline /\ wjob'[v] = wjob[v]
    BY <1>4, QuietWorkerStep
  <2>2. UNCHANGED <<docSrc, jobDoc>>
    BY <1>4 DEF QuietWorker, claim_next_job, claim_next_job_commit,
       run_pipeline_gone, run_pipeline_no_collection, run_pipeline_load,
       run_pipeline_parse, run_pipeline_chunk, run_pipeline_embed,
       set_progress, run_pipeline_error, run_pipeline_record_failure,
       worker_crash, run_pipeline_record_lost
  <2>3. \A d \in Documents : docStatus'[d] = "indexed" => docStatus[d] = "indexed"
    BY <1>0, <1>4 DEF QuietWorker, claim_next_job, claim_next_job_commit,
       run_pipeline_gone, run_pipeline_no_collection, run_pipeline_load,
       run_pipeline_parse, run_pipeline_chunk, run_pipeline_embed,
       set_progress, run_pipeline_error, run_pipeline_record_failure,
       worker_crash, run_pipeline_record_lost, UpdateDoc
  <2> QED
    BY <2>1, <2>2, <2>3, SourcedKept
<1> QED
  BY <1>1, <1>2, <1>3, <1>4 DEF Worker, QuietWorker

\* What the requests do to sources and statuses.
LEMMA SourcedRequest ==
    ASSUME TypeOK, Rest, Sourced, "update_document" \notin Ops,
           \/ \E r \in Clients : Serve(r) \/ Call(r)
           \/ CallAtomic
           \/ \E r \in Clients : request_crash(r) \/ upload_and_ingest_put_fails(r)
    PROVE  Sourced'
<1> USE DEF docVars, jobVars
<1>0. /\ docStatus \in [Documents -> DocStatus \cup {"none", "deleted"}]
      /\ docSrc \in [Documents -> BOOLEAN]
      /\ rtodo \in [Clients -> SUBSET Documents]
  BY DEF TypeOK, DocTypeOK, ClientTypeOK
<1>1. RowsKept /\ UNCHANGED workerVars
  BY RequestStep
<1>2. \A w \in Workers : wpc[w] \in Pipeline
                           => jobDoc'[wjob[w]] = jobDoc[wjob[w]]
  BY <1>1, WorkerDoc DEF RowsKept
<1> DEFINE Kept == \A d \in Documents :
             /\ docStatus[d] # "none" /\ docSrc[d] => docSrc'[d]
             /\ docStatus'[d] = "indexed" => docStatus[d] = "indexed"
<1>3. ASSUME NEW r \in Clients, Serve(r) PROVE Kept
  <2>1. CASE upload_and_ingest_create(r)
    BY <1>0, <2>1 DEF upload_and_ingest_create, create_pending_document
  <2>2. CASE register_document_create(r)
    BY <1>0, <2>2 DEF register_document_create, create_pending_document
  <2>3. CASE upload_and_ingest_put(r)
    BY <1>0, <2>3 DEF upload_and_ingest_put
  <2>4. CASE resolve_decision_commit(r)
    BY <1>0, <2>4 DEF resolve_decision_commit
  <2>5. CASE enqueue_job(r)
    BY <2>5 DEF enqueue_job
  <2> QED
    BY <1>3, <2>1, <2>2, <2>3, <2>4, <2>5 DEF Serve
<1>4. ASSUME NEW r \in Clients, Call(r) PROVE Kept
  BY <1>0, <1>4, ZenonT(40) DEF Call, upload_and_ingest, register_document,
     reindex_document, reindex_collection, resolve_decision,
     find_document_by_hash
<1>5. ASSUME NEW r \in Clients, request_crash(r) \/ upload_and_ingest_put_fails(r)
      PROVE  Kept
  BY <1>5 DEF request_crash, upload_and_ingest_put_fails
<1>6. ASSUME CallAtomic PROVE Kept
  <2>1. ~\E d \in Documents, s \in DocStatus : update_document(d, s)
    BY DEF update_document, Request
  <2> QED
    BY <1>0, <1>6, <2>1 DEF CallAtomic, create_document, delete_document,
       delete_collection, update_collection, DeleteDocs,
       create_pending_document
<1>7. Kept
  BY <1>3, <1>4, <1>5, <1>6
<1> QED
  BY <1>1, <1>2, <1>7, SourcedKept DEF workerVars
------------------------------------------------------------------------------
\* The only worker takes the oldest job, and keeps off the jobs it has lost.
LEMMA OrderWorker ==
    ASSUME TypeOK, Rest, SingleWorker, OldestFirst, LostUnheld,
           NEW w \in Workers,
           Worker(w) \/ worker_crash(w) \/ run_pipeline_record_lost(w)
    PROVE  OldestFirst' /\ LostUnheld'
<1> USE DEF jobVars, workerVars
<1>0. /\ jobStatus \in [Jobs -> JobStatus \cup {"none", "deleted"}]
      /\ wpc \in [Workers -> WorkerPc] /\ wjob \in [Workers -> Jobs \cup {0}]
      /\ wpc[w] # "idle" => wjob[w] \in Jobs
      /\ wpc[w] \notin {"idle", "claiming"}
           => jobStatus[wjob[w]] \in {"running", "deleted"}
      /\ \A v \in Workers : v = w
      /\ Jobs \subseteq Nat
      /\ lost \subseteq Jobs
  BY CfgsJobs DEF TypeOK, JobTypeOK, WorkerTypeOK, HistoryTypeOK, Rest,
     WorkerJobs, SingleWorker
<1>1. CASE claim_next_job(w)
  <2>1. wpc[w] = "idle"
    BY <1>1 DEF claim_next_job
  <2>2. \A j : ~Locked(j)
    BY <1>0, <2>1 DEF Locked
  <2>3. PICK j \in Claimable : /\ \A k \in Claimable : j <= k
                               /\ wjob' = [wjob EXCEPT ![w] = j]
    BY <1>1 DEF claim_next_job
  <2>4. wjob'[w] = j /\ UNCHANGED <<jobStatus, lost>>
    BY <1>0, <1>1, <2>3 DEF claim_next_job
  <2>5. j \in Jobs /\ jobStatus[j] = "queued"
    BY <2>3 DEF Claimable
  <2>6. \A k \in Jobs : jobStatus[k] = "queued" /\ k # j => j < k
    <3> SUFFICES ASSUME NEW k \in Jobs, jobStatus[k] = "queued", k # j
                 PROVE  j < k
      OBVIOUS
    <3>1. j <= k
      BY <2>2, <2>3 DEF Claimable
    <3> QED
      BY <1>0, <2>5, <3>1
  <2>7. OldestFirst'
    BY <1>0, <2>4, <2>6 DEF OldestFirst
  <2>8. LostUnheld'
    BY <1>0, <2>4, <2>5 DEF LostUnheld
  <2> QED
    BY <2>7, <2>8
<1> DEFINE Goes ==
      /\ \A j \in Jobs : jobStatus'[j] = "queued" => jobStatus[j] = "queued"
      /\ \A j \in lost : jobStatus'[j] = jobStatus[j]
      /\ wpc'[w] # "idle" => wpc[w] # "idle" /\ wjob'[w] = wjob[w]
      /\ \/ lost' = lost
         \/ /\ lost' = lost \cup {wjob[w]} /\ wpc'[w] = "idle"
            /\ wpc[w] \notin {"idle", "claiming"} /\ UNCHANGED jobStatus
<1>2. Goes => OldestFirst'
  BY <1>0 DEF OldestFirst
<1>3. Goes => LostUnheld'
  BY <1>0 DEF LostUnheld
<1>4. wpc[w] # "idle" => wjob[w] \notin lost
  BY DEF LostUnheld
<1>5. CASE claim_next_job_commit(w)
  BY <1>0, <1>2, <1>3, <1>4, <1>5 DEF claim_next_job_commit, Goto
<1>6. CASE run_pipeline_gone(w) \/ run_pipeline_no_collection(w)
  BY <1>0, <1>2, <1>3, <1>4, <1>6
     DEF run_pipeline_gone, run_pipeline_no_collection, GoIdle
<1>7. CASE run_pipeline(w)
  BY <1>0, <1>2, <1>3, <1>7 DEF run_pipeline
<1>8. CASE \/ run_pipeline_load(w) \/ run_pipeline_parse(w)
           \/ run_pipeline_chunk(w) \/ run_pipeline_embed(w)
  BY <1>0, <1>2, <1>3, <1>8 DEF run_pipeline_load, run_pipeline_parse,
     run_pipeline_chunk, run_pipeline_embed, set_progress, Goto, GoFailing
<1>9. CASE run_pipeline_delete(w)
  BY <1>0, <1>2, <1>3, <1>9 DEF run_pipeline_delete
<1>10. CASE run_pipeline_commit(w)
  BY <1>0, <1>2, <1>3, <1>4, <1>10 DEF run_pipeline_commit, GoIdle
<1>11. CASE run_pipeline_error(w)
  BY <1>0, <1>2, <1>3, <1>11 DEF run_pipeline_error, GoFailing, Pipeline
<1>12. CASE run_pipeline_record_failure(w)
  BY <1>0, <1>2, <1>3, <1>4, <1>12
     DEF run_pipeline_record_failure, GoIdle, UpdateJob
<1>13. CASE worker_crash(w) \/ run_pipeline_record_lost(w)
  BY <1>0, <1>2, <1>3, <1>4, <1>13
     DEF worker_crash, run_pipeline_record_lost, GoIdle
<1> QED
  BY <1>1, <1>5, <1>6, <1>7, <1>8, <1>9, <1>10, <1>11, <1>12, <1>13 DEF Worker

\* A request only adds jobs at the end of the queue, and deletes jobs.
LEMMA OrderRequest ==
    ASSUME TypeOK, Rest, OldestFirst, LostUnheld,
           \/ \E r \in Clients : Serve(r) \/ Call(r)
           \/ CallAtomic
           \/ \E r \in Clients : request_crash(r) \/ upload_and_ingest_put_fails(r)
    PROVE  OldestFirst' /\ LostUnheld'
<1> USE DEF jobVars
<1>0. /\ jobStatus \in [Jobs -> JobStatus \cup {"none", "deleted"}]
      /\ Jobs \subseteq Nat /\ nextJob \in Nat
      /\ \A w \in Workers : wpc[w] # "idle"
           => wjob[w] \in Jobs /\ jobStatus[wjob[w]] # "none"
      /\ lost \subseteq Jobs
  BY CfgsJobs DEF TypeOK, JobTypeOK, HistoryTypeOK, Rest, WorkerJobs
<1>1. UNCHANGED workerVars
  BY RequestStep
<1>2. UNCHANGED lost
  BY ZenonT(40) DEF Serve, upload_and_ingest_create, upload_and_ingest_put,
     register_document_create, resolve_decision_commit, enqueue_job, Call,
     upload_and_ingest, register_document, reindex_document,
     reindex_collection, resolve_decision, CallAtomic, create_document,
     update_document, delete_document, delete_collection, update_collection,
     request_crash, upload_and_ingest_put_fails
<1>3. ASSUME \A j \in Jobs : jobStatus'[j] \in {jobStatus[j], "deleted"}
      PROVE  OldestFirst' /\ LostUnheld'
  BY <1>0, <1>1, <1>2, <1>3 DEF OldestFirst, LostUnheld, workerVars
<1>4. ASSUME NEW r \in Clients, enqueue_job(r)
      PROVE  OldestFirst' /\ LostUnheld'
  <2>1. CASE UNCHANGED jobStatus
    BY <1>3, <2>1
  <2>2. CASE /\ nextJob <= MaxJobs
             /\ jobStatus' = [jobStatus EXCEPT ![nextJob] = "queued"]
    <3>1. nextJob \in Jobs /\ jobStatus[nextJob] = "none"
      <4>1. nextJob \in Jobs
        BY <2>2, ConstantsType DEF TypeOK, JobTypeOK, Jobs
      <4> QED
        BY <1>0, <4>1 DEF Rest, JobRows
    <3>2. \A w \in Workers : wpc[w] # "idle" => wjob[w] < nextJob
      BY <1>0 DEF Rest, JobRows
    <3>3. OldestFirst'
      BY <1>0, <1>1, <2>2, <3>1, <3>2 DEF OldestFirst, workerVars
    <3>4. LostUnheld'
      BY <1>0, <1>1, <1>2, <2>2, <3>1 DEF LostUnheld, workerVars
    <3> QED
      BY <3>3, <3>4
  <2> QED
    BY <1>4, <2>1, <2>2 DEF enqueue_job
<1>5. ASSUME NEW r \in Clients, Serve(r) PROVE OldestFirst' /\ LostUnheld'
  BY <1>3, <1>4, <1>5 DEF Serve, upload_and_ingest_create,
     upload_and_ingest_put, register_document_create, resolve_decision_commit
<1>6. ASSUME NEW r \in Clients, Call(r) PROVE OldestFirst' /\ LostUnheld'
  BY <1>3, <1>6 DEF Call, upload_and_ingest, register_document,
     reindex_document, reindex_collection, resolve_decision
<1>7. ASSUME CallAtomic PROVE OldestFirst' /\ LostUnheld'
  BY <1>0, <1>3, <1>7 DEF CallAtomic, create_document, update_document,
     delete_document, delete_collection, update_collection, DeleteDocs
<1>8. ASSUME NEW r \in Clients, request_crash(r) \/ upload_and_ingest_put_fails(r)
      PROVE  OldestFirst' /\ LostUnheld'
  BY <1>3, <1>8 DEF request_crash, upload_and_ingest_put_fails
<1> QED
  BY <1>5, <1>6, <1>7, <1>8
------------------------------------------------------------------------------
\* A worker ends no exemption.
LEMMA ExemptWorker ==
    ASSUME TypeOK, Rest, LostUnheld, NEW w \in Workers,
           Worker(w) \/ worker_crash(w) \/ run_pipeline_record_lost(w),
           NEW d \in Documents, Exempt(d)
    PROVE  Exempt(d)'
<1> USE DEF jobVars
<1>1. NoNewContent /\ UNCHANGED clientVars
  BY WorkerContent
<1>2. /\ UNCHANGED <<orphans, jobDoc>> /\ lost \subseteq lost'
      /\ \A j \in Jobs : j # wjob[w] => jobStatus'[j] = jobStatus[j]
      /\ wpc[w] = "idle" => UNCHANGED jobStatus
  BY DEF Worker, claim_next_job, claim_next_job_commit, run_pipeline_gone,
     run_pipeline_no_collection, run_pipeline, run_pipeline_load,
     run_pipeline_parse, run_pipeline_chunk, run_pipeline_embed, set_progress,
     run_pipeline_delete, run_pipeline_commit, run_pipeline_error, Pipeline,
     run_pipeline_record_failure, UpdateJob, worker_crash,
     run_pipeline_record_lost, TypeOK, JobTypeOK
<1>3. CASE ~DocExists(d)
  BY <1>1, <1>3 DEF NoNewContent, Exempt
<1>4. CASE Asked(d)
  <2>1. Asked(d)'
    BY <1>1, <1>4 DEF Asked, clientVars
  <2> QED
    BY <2>1 DEF Exempt
<1>5. CASE d \in orphans
  BY <1>2, <1>5 DEF Exempt
<1>6. CASE Stranded(d)
  <2>1. PICK j \in Unsettled(d) : j \in lost
    BY <1>6 DEF Stranded
  <2>2. jobStatus'[j] = jobStatus[j]
    BY <1>2, <2>1 DEF LostUnheld, Unsettled
  <2>3. j \in Unsettled(d)' /\ j \in lost'
    BY <1>2, <2>1, <2>2 DEF Unsettled
  <2>4. Stranded(d)'
    BY <2>3 DEF Stranded
  <2> QED
    BY <2>4 DEF Exempt
<1> QED
  BY <1>3, <1>4, <1>5, <1>6 DEF Exempt

\* A worker that neither begins nor settles a pipeline.
LEMMA SettlingSteady ==
    ASSUME TypeOK, Rest, LostUnheld, Settling, NEW w \in Workers,
           \/ claim_next_job(w) \/ claim_next_job_commit(w)
           \/ run_pipeline_gone(w)
           \/ run_pipeline_load(w) \/ run_pipeline_parse(w)
           \/ run_pipeline_chunk(w) \/ run_pipeline_embed(w)
           \/ run_pipeline_delete(w) \/ run_pipeline_error(w)
           \/ worker_crash(w) \/ run_pipeline_record_lost(w)
    PROVE  Settling'
<1> USE DEF docVars, jobVars, collVars, chunkVars, workerVars
<1>0. /\ jobStatus \in [Jobs -> JobStatus \cup {"none", "deleted"}]
      /\ wpc \in [Workers -> WorkerPc] /\ wjob \in [Workers -> Jobs \cup {0}]
      /\ wcfg \in [Workers -> Cfgs]
      /\ wpc[w] # "idle" => wjob[w] \in Jobs
      /\ wpc[w] = "claiming" => jobStatus[wjob[w]] = "queued"
  BY DEF TypeOK, JobTypeOK, WorkerTypeOK, Rest, WorkerJobs
<1>1. UNCHANGED <<docVars, collVars, chunkVars, jobDoc, jobColl>>
  BY DEF claim_next_job, claim_next_job_commit, run_pipeline_gone,
     run_pipeline_load, run_pipeline_parse, run_pipeline_chunk,
     run_pipeline_embed, set_progress, run_pipeline_delete,
     run_pipeline_error, worker_crash, run_pipeline_record_lost
<1>2. \A j \in Jobs : jobStatus'[j] \in {"queued", "running"}
                        <=> jobStatus[j] \in {"queued", "running"}
  <2>1. CASE claim_next_job_commit(w)
    BY <1>0, <2>1 DEF claim_next_job_commit
  <2>2. CASE ~claim_next_job_commit(w)
    BY <2>2 DEF claim_next_job, run_pipeline_gone, run_pipeline_load,
       run_pipeline_parse, run_pipeline_chunk, run_pipeline_embed,
       set_progress, run_pipeline_delete, run_pipeline_error, worker_crash,
       run_pipeline_record_lost
  <2> QED
    BY <2>1, <2>2
<1>3. \A v \in Workers : wpc'[v] \in Pipeline => /\ wpc[v] \in Pipeline
                                                 /\ wjob'[v] = wjob[v]
                                                 /\ wcfg'[v] = wcfg[v]
  BY <1>0 DEF claim_next_job, claim_next_job_commit, run_pipeline_gone,
     run_pipeline_load, run_pipeline_parse, run_pipeline_chunk,
     run_pipeline_embed, set_progress, run_pipeline_delete,
     run_pipeline_error, worker_crash, run_pipeline_record_lost, GoIdle, Goto,
     GoFailing, Pipeline
<1> SUFFICES ASSUME NEW d \in Documents PROVE Settles(d)'
  BY DEF Settling
<1>4. Unsettled(d)' = Unsettled(d)
  BY <1>1, <1>2 DEF Unsettled
<1>5. ChunksOf(d)' = ChunksOf(d)
  BY <1>1 DEF ChunksOf
<1>6. Exempt(d) => Exempt(d)'
  BY ExemptWorker DEF Worker
<1>7. Settles(d)
  BY DEF Settling
<1> QED
  BY <1>1, <1>3, <1>4, <1>5, <1>6, <1>7, SettlesKept

\* A pipeline that begins reads the settings of its job's collection.
LEMMA SettlingBegin ==
    ASSUME TypeOK, Rest, SingleWorker, LostUnheld, Settling, NEW w \in Workers,
           run_pipeline(w)
    PROVE  Settling'
<1> USE DEF docVars, jobVars, collVars, chunkVars, workerVars
<1> DEFINE j == wjob[w]
           e == jobDoc[j]
<1>0. /\ wpc \in [Workers -> WorkerPc] /\ wcfg \in [Workers -> Cfgs]
      /\ j \in Jobs /\ e \in Documents
      /\ docStatus \in [Documents -> DocStatus \cup {"none", "deleted"}]
      /\ \A v \in Workers : v = w
  BY WorkerRefs DEF TypeOK, DocTypeOK, WorkerTypeOK, Rest, run_pipeline,
     SingleWorker
<1>1. /\ UNCHANGED <<docColl, collVars, chunkVars, jobVars, wjob>>
      /\ wcfg'[w] = collCfg[jobColl[j]]
      /\ docStatus'[e] = "processing"
      /\ \A d \in Documents : d # e => docStatus'[d] = docStatus[d]
  BY <1>0 DEF run_pipeline
<1> SUFFICES ASSUME NEW d \in Documents PROVE Settles(d)'
  BY DEF Settling
<1>2. Unsettled(d)' = Unsettled(d) /\ ChunksOf(d)' = ChunksOf(d)
  BY <1>1 DEF Unsettled, ChunksOf
<1>3. Exempt(d) => Exempt(d)'
  BY ExemptWorker DEF Worker
<1>4. Settles(d)
  BY DEF Settling
<1>5. CASE d # e
  <2>1. j \notin Unsettled(d)
    BY <1>5 DEF Unsettled
  <2>2. \A v \in Workers, k \in Unsettled(d) : wjob'[v] # k
    BY <1>0, <1>1, <2>1
  <2> QED
    BY <1>1, <1>2, <1>3, <1>4, <1>5, <2>2, SettlesKept
<1>6. CASE d = e
  <2> SUFFICES ASSUME ~Exempt(d)' PROVE LastJobFits(d)'
    BY <1>1, <1>6 DEF Settles
  <2>1. LastJobFits(d)
    BY <1>3, <1>4 DEF Settles
  <2> SUFFICES ASSUME NEW k \in Unsettled(d), \A l \in Unsettled(d) : l <= k
               PROVE  /\ jobColl[k] = docColl[d]
                      /\ \A v \in Workers : wjob[v] = k
                            => wcfg'[v] = collCfg[docColl[d]]
    BY <1>1, <1>2 DEF LastJobFits
  <2>2. jobColl[k] = docColl[d]
    BY <2>1 DEF LastJobFits
  <2> QED
    BY <1>0, <1>1, <2>2
<1> QED
  BY <1>5, <1>6

LEMMA OwnChunksStep ==
    ASSUME TypeOK, Rest, OwnChunks, Next
    PROVE  OwnChunks'
<1> USE DEF jobVars, workerVars
<1>0. /\ wpc \in [Workers -> WorkerPc] /\ wjob \in [Workers -> Jobs \cup {0}]
      /\ wsnap \in [Workers -> SUBSET Jobs]
  BY DEF TypeOK, WorkerTypeOK
<1>1. ASSUME RowsKept,
             \A v \in Workers : wpc'[v] = "insert" => /\ wpc[v] = "insert"
                                                      /\ wjob'[v] = wjob[v]
                                                      /\ wsnap'[v] = wsnap[v]
      PROVE  OwnChunks'
  <2> SUFFICES ASSUME NEW v \in Workers, wpc'[v] = "insert", NEW k \in wsnap[v]
               PROVE  jobDoc'[k] = jobDoc'[wjob[v]]
    BY <1>1 DEF OwnChunks
  <2>1. /\ wpc[v] = "insert" /\ wpc[v] \in Pipeline
        /\ k \in Jobs /\ jobDoc[k] = jobDoc[wjob[v]]
    BY <1>0, <1>1 DEF OwnChunks, Pipeline
  <2>2. /\ wjob[v] \in Jobs /\ jobDoc[wjob[v]] \in Documents
        /\ jobStatus[wjob[v]] # "none"
    BY <2>1, WorkerDoc
  <2>3. jobStatus[k] # "none"
    <3>1. jobDoc[k] # None
      BY <2>1, <2>2, ConstantsType
    <3>2. k \in Nat /\ nextJob \in Nat
      BY <2>1, CfgsJobs DEF TypeOK, JobTypeOK
    <3>3. k < nextJob
      BY <2>1, <3>1, <3>2 DEF Rest, JobRows
    <3> QED
      BY <2>1, <3>3 DEF Rest, JobRows
  <2> QED
    BY <1>1, <2>1, <2>2, <2>3 DEF RowsKept
<1>2. ASSUME NEW w \in Workers, QuietWorker(w) PROVE OwnChunks'
  BY <1>1, <1>2, QuietWorkerStep DEF Pipeline
<1>3. ASSUME NEW w \in Workers, run_pipeline(w) PROVE OwnChunks'
  BY <1>0, <1>3 DEF run_pipeline, OwnChunks
<1>4. ASSUME NEW w \in Workers, run_pipeline_delete(w) PROVE OwnChunks'
  BY <1>0, <1>4 DEF run_pipeline_delete, OwnChunks, ChunksOf
<1>5. ASSUME NEW w \in Workers, run_pipeline_commit(w) PROVE OwnChunks'
  BY <1>0, <1>5 DEF run_pipeline_commit, GoIdle, OwnChunks
<1>6. ASSUME \/ \E r \in Clients : Serve(r) \/ Call(r)
             \/ CallAtomic
             \/ \E r \in Clients :
                  request_crash(r) \/ upload_and_ingest_put_fails(r)
      PROVE  OwnChunks'
  <2>1. RowsKept /\ UNCHANGED workerVars
    BY <1>6, RequestStep
  <2> QED
    BY <1>1, <2>1
<1> QED
  BY <1>2, <1>3, <1>4, <1>5, <1>6 DEF Next, Worker, Failure, QuietWorker

\* A job that ends: the collection is gone, the failure is recorded, or the
\* new chunks are committed.
LEMMA SettlingEnd ==
    ASSUME TypeOK, Rest, SingleWorker, OneWriter, OldestFirst, LostUnheld,
           OwnChunks, Settling, NEW w \in Workers,
           \/ run_pipeline_no_collection(w) \/ run_pipeline_record_failure(w)
           \/ run_pipeline_commit(w)
    PROVE  Settling'
<1> USE DEF docVars, jobVars, collVars, chunkVars, workerVars
<1> DEFINE j == wjob[w]
           e == jobDoc[j]
<1>0. /\ wpc \in [Workers -> WorkerPc] /\ wcfg \in [Workers -> Cfgs]
      /\ wpc[w] \notin {"idle", "claiming"}
      /\ j \in Jobs /\ e \in Documents
      /\ docStatus \in [Documents -> DocStatus \cup {"none", "deleted"}]
      /\ jobStatus \in [Jobs -> JobStatus \cup {"none", "deleted"}]
      /\ chunkCfg \in [Jobs -> Cfgs]
      /\ \A v \in Workers : v = w
  BY WorkerRefs DEF TypeOK, DocTypeOK, WorkerTypeOK, JobTypeOK, ChunkTypeOK,
     Rest, run_pipeline_no_collection, run_pipeline_record_failure,
     run_pipeline_commit, SingleWorker
<1>1. /\ UNCHANGED <<docColl, collVars, jobDoc, jobColl>>
      /\ wpc'[w] = "idle"
      /\ jobStatus'[j] \notin {"queued", "running"}
      /\ \A k \in Jobs : k # j => jobStatus'[k] = jobStatus[k]
      /\ \A d \in Documents : d # e => docStatus'[d] = docStatus[d]
  <2>1. jobStatus[j] \in {"running", "deleted"}
    BY <1>0 DEF Rest, WorkerJobs
  <2>2. CASE run_pipeline_no_collection(w)
    BY <1>0, <2>2 DEF run_pipeline_no_collection, GoIdle
  <2>3. CASE run_pipeline_record_failure(w)
    BY <1>0, <2>1, <2>3 DEF run_pipeline_record_failure, GoIdle, UpdateJob,
       UpdateDoc, JobExists, JobStatus
  <2>4. CASE run_pipeline_commit(w)
    BY <1>0, <2>4 DEF run_pipeline_commit, GoIdle
  <2> QED
    BY <2>2, <2>3, <2>4
<1>2. \A v \in Workers : wpc'[v] \notin Pipeline
  BY <1>0, <1>1 DEF Pipeline
<1> HIDE DEF j, e
<1> SUFFICES ASSUME NEW d \in Documents PROVE Settles(d)'
  BY DEF Settling
<1>3. Exempt(d) => Exempt(d)'
  BY ExemptWorker DEF Worker
<1>4. Settles(d)
  BY DEF Settling
<1>5. Unsettled(d)' = Unsettled(d) \ {j}
  BY <1>0, <1>1 DEF Unsettled
<1>6. CASE d # e
  <2>1. j \notin Unsettled(d)
    BY <1>6 DEF Unsettled, e
  <2>2. /\ ChunksOf(d)' = ChunksOf(d)
        /\ \A k \in ChunksOf(d) : chunkCfg'[k] = chunkCfg[k]
    <3>1. CASE UNCHANGED chunkVars
      BY <1>1, <3>1 DEF ChunksOf
    <3>2. CASE run_pipeline_commit(w)
      <4>1. /\ chunks' = (chunks \ wsnap[w]) \cup {j}
            /\ chunkCfg' = [chunkCfg EXCEPT ![j] = wcfg[w]]
            /\ wpc[w] = "insert"
        BY <3>2 DEF run_pipeline_commit, j
      <4>2. \A k \in wsnap[w] : jobDoc[k] = e
        BY <4>1 DEF OwnChunks, e, j
      <4>3. \A k \in ChunksOf(d) : k # j /\ k \in Jobs
        BY <1>6 DEF ChunksOf, e, TypeOK, ChunkTypeOK
      <4> QED
        BY <1>0, <1>1, <1>6, <4>1, <4>2, <4>3 DEF ChunksOf, e
    <3> QED
      BY <3>1, <3>2
         DEF run_pipeline_no_collection, run_pipeline_record_failure
  <2> QED
    BY <1>1, <1>2, <1>3, <1>4, <1>5, <1>6, <2>1, <2>2, SettlesKept
<1>7. CASE d = e /\ j \notin Unsettled(d)
  <2>1. ~DocExists(d)
    BY <1>0, <1>7 DEF Unsettled, Rest, WorkerJobs, ForeignKeys, DocExists,
       DocStatus, e, j
  <2> QED
    BY <1>3, <2>1 DEF Exempt, Settles
<1>8. CASE d = e /\ j \in Unsettled(d)
  <2>1. ASSUME docStatus'[d] = "indexed", DocExists(d),
               jobColl[j] = docColl[d],
               wpc[w] \in Pipeline => wcfg[w] = collCfg[docColl[d]]
        PROVE  Fresh(d)'
    <3>1. CASE run_pipeline_no_collection(w)
      BY <2>1, <3>1 DEF run_pipeline_no_collection, Rest, ForeignKeys, j
    <3>2. CASE run_pipeline_record_failure(w)
      <4>1. docStatus' = [docStatus EXCEPT ![d] = "failed"]
        BY <1>8, <2>1, <3>2 DEF run_pipeline_record_failure, UpdateDoc, e, j
      <4> QED
        BY <1>0, <2>1, <4>1
    <3>3. CASE run_pipeline_commit(w)
      <4>1. /\ chunks' = (chunks \ wsnap[w]) \cup {j}
            /\ chunkCfg' = [chunkCfg EXCEPT ![j] = wcfg[w]]
            /\ wpc[w] = "insert" /\ wpc[w] \in Pipeline
        BY <3>3 DEF run_pipeline_commit, j, Pipeline
      <4>2. ChunksOf(d) \subseteq wsnap[w]
        BY <1>8, <4>1 DEF OneWriter, e, j
      <4>3. ChunksOf(d)' = {j}
        BY <1>1, <1>8, <4>1, <4>2 DEF ChunksOf, e
      <4>4. chunkCfg'[j] = collCfg[docColl[d]]
        BY <1>0, <2>1, <4>1
      <4> QED
        BY <1>1, <2>1, <4>3, <4>4 DEF Fresh
    <3> QED
      BY <3>1, <3>2, <3>3
  <2> QED
    BY <1>0, <1>1, <1>3, <1>4, <1>5, <1>8, <2>1, SettlesDone DEF Rest, j
<1> QED
  BY <1>6, <1>7, <1>8
------------------------------------------------------------------------------
\* A document that a request leaves alone: nothing of its rows changes, and
\* if the request was about to enqueue it, it still is, or gave up.
LEMMA SettlesAlone ==
    ASSUME NEW d \in Documents, Settles(d),
           DocExists(d)' => DocExists(d),
           DocExists(d)' => docColl'[d] = docColl[d],
           DocExists(d)' => collCfg'[docColl[d]] = collCfg[docColl[d]],
           docStatus'[d] = "indexed" => docStatus[d] = "indexed",
           Asked(d) => Asked(d)' \/ d \in orphans',
           d \in orphans => d \in orphans',
           Unsettled(d)' = Unsettled(d), ChunksOf(d)' = ChunksOf(d),
           \A j \in Unsettled(d) \cup ChunksOf(d) : jobColl'[j] = jobColl[j],
           UNCHANGED <<chunkCfg, lost, workerVars>>
    PROVE  Settles(d)'
<1>1. Stranded(d) => Stranded(d)'
  BY DEF Stranded
<1>2. Exempt(d) => Exempt(d)'
  BY <1>1 DEF Exempt
<1> QED
  BY <1>2, SettlesKept DEF workerVars

\* A document that does not exist has no job under way, and a new one keeps
\* its promise for lack of any.
LEMMA SettlesNew ==
    ASSUME TypeOK, Rest, NEW d \in Documents, ~DocExists(d),
           UNCHANGED <<jobStatus, jobDoc>>, docStatus'[d] # "indexed"
    PROVE  Settles(d)'
<1>1. Unsettled(d)' = {}
  <2>1. Unsettled(d) = {}
    BY DEF Unsettled, Rest, ForeignKeys, JobExists, JobStatus
  <2> QED
    BY <2>1 DEF Unsettled
<1>2. LastJobFits(d)'
  BY <1>1 DEF LastJobFits
<1> QED
  BY <1>2 DEF Settles

\* What a step of request r can do to the promise that others enqueue d.
LEMMA AskedByOthers ==
    ASSUME NEW r \in Clients, NEW d \in Documents, Asked(d),
           rpc[r] # "enqueue" \/ d \notin rtodo[r],
           \A q \in Clients : q # r => rpc'[q] = rpc[q] /\ rtodo'[q] = rtodo[q]
    PROVE  Asked(d)'
BY DEF Asked

LEMMA SettlingCreate ==
    ASSUME TypeOK, Rest, Settling, NEW e \in Documents, NEW c, NEW src, NEW h,
           create_pending_document(e, c, src, h),
           \A d \in Documents : Asked(d) => Asked(d)', orphans \subseteq orphans',
           UNCHANGED <<collVars, jobVars, chunkVars, workerVars, lost>>
    PROVE  Settling'
<1> USE DEF collVars, jobVars, chunkVars
<1>0. /\ docStatus[e] = "none" /\ docStatus'[e] = "registered"
      /\ \A d \in Documents : d # e => /\ docStatus'[d] = docStatus[d]
                                       /\ docColl'[d] = docColl[d]
  BY DEF create_pending_document, TypeOK, DocTypeOK
<1> SUFFICES ASSUME NEW d \in Documents PROVE Settles(d)'
  BY DEF Settling
<1>1. CASE d = e
  BY <1>0, <1>1, SettlesNew DEF DocExists, DocStatus
<1>2. CASE d # e
  <2>1. Unsettled(d)' = Unsettled(d) /\ ChunksOf(d)' = ChunksOf(d)
    BY DEF Unsettled, ChunksOf
  <2> QED
    BY <1>0, <1>2, <2>1, SettlesAlone DEF Settling, DocExists
<1> QED
  BY <1>1, <1>2

\* Steps of a request that leave every table alone but the sources.
LEMMA SettlingIdle ==
    ASSUME Settling,
           \A d \in Documents : Asked(d) => Asked(d)' \/ d \in orphans',
           orphans \subseteq orphans',
           UNCHANGED <<collCfg, docStatus, docColl, jobVars, chunkVars, workerVars,
                       lost>>
    PROVE  Settling'
<1> USE DEF jobVars, chunkVars
<1> SUFFICES ASSUME NEW d \in Documents PROVE Settles(d)'
  BY DEF Settling
<1>1. Unsettled(d)' = Unsettled(d) /\ ChunksOf(d)' = ChunksOf(d)
  BY DEF Unsettled, ChunksOf
<1>2. DocExists(d)' <=> DocExists(d)
  BY DEF DocExists
<1>3. Settles(d)
  BY DEF Settling
<1> QED
  BY <1>1, <1>2, <1>3, SettlesAlone

\* A request that resets documents and is about to enqueue them: the others
\* are as they were.
LEMMA SettlingReset ==
    ASSUME TypeOK, Settling, NEW r \in Clients, rpc[r] \in {"idle", "reassign"},
           NEW D \in SUBSET Documents, NEW c,
           Continue(r, "enqueue", D, c, NoHash),
           \A d \in Documents \ D : /\ docStatus'[d] = docStatus[d]
                                    /\ docColl'[d] = docColl[d],
           UNCHANGED <<collVars, jobVars, chunkVars, workerVars, lost, orphans>>
    PROVE  Settling'
<1> USE DEF collVars, jobVars, chunkVars
<1> SUFFICES ASSUME NEW d \in Documents PROVE Settles(d)'
  BY DEF Settling
<1>1. CASE d \in D
  <2>1. Asked(d)'
    BY <1>1, ContinueAt DEF Asked
  <2> QED
    BY <2>1 DEF Settles, Exempt
<1>2. CASE d \notin D
  <2>1. Unsettled(d)' = Unsettled(d) /\ ChunksOf(d)' = ChunksOf(d)
    BY DEF Unsettled, ChunksOf
  <2>2. Asked(d) => Asked(d)'
    BY AskedByOthers, ContinueAt
  <2>3. DocExists(d)' <=> DocExists(d)
    BY <1>2 DEF DocExists
  <2>4. Settles(d)
    BY DEF Settling
  <2> QED
    BY <1>2, <2>1, <2>2, <2>3, <2>4, SettlesAlone
<1> QED
  BY <1>1, <1>2

\* A request that gives up what it was about to enqueue.
LEMMA SettlingAbandon ==
    ASSUME TypeOK, Settling, NEW r \in Clients, Abandon(r),
           UNCHANGED <<collVars, docVars, jobVars, chunkVars, workerVars, lost>>
    PROVE  Settling'
<1>1. orphans \subseteq orphans'
  BY DEF Abandon
<1>2. \A d \in Documents : Asked(d) => Asked(d)' \/ d \in orphans'
  <2> SUFFICES ASSUME NEW d \in Documents, Asked(d) PROVE Asked(d)' \/ d \in orphans'
    OBVIOUS
  <2>1. CASE rpc[r] = "enqueue" /\ d \in rtodo[r]
    BY <2>1 DEF Abandon
  <2>2. CASE ~(rpc[r] = "enqueue" /\ d \in rtodo[r])
    BY <2>2, AskedByOthers, ContinueAt DEF Abandon, Answer
  <2> QED
    BY <2>1, <2>2
<1> QED
  BY <1>1, <1>2, SettlingIdle DEF collVars, docVars

LEMMA SettlingEnqueue ==
    ASSUME TypeOK, Rest, RequestsAim, Settling, NEW r \in Clients, enqueue_job(r)
    PROVE  Settling'
<1> USE DEF collVars, docVars, jobVars, chunkVars
<1>1. PICK e \in rtodo[r] :
        IF DocExists(e)
        THEN /\ nextJob <= MaxJobs
             /\ jobStatus' = [jobStatus EXCEPT ![nextJob] = "queued"]
             /\ jobDoc' = [jobDoc EXCEPT ![nextJob] = e]
             /\ jobColl' = [jobColl EXCEPT ![nextJob] = rcoll[r]]
             /\ nextJob' = nextJob + 1
             /\ orphans' = IF docColl[e] = rcoll[r] THEN orphans \ {e}
                           ELSE orphans
             /\ IF rtodo[r] = {e} THEN Answer(r)
                ELSE Continue(r, "enqueue", rtodo[r] \ {e}, rcoll[r], NoHash)
        ELSE Abandon(r) /\ UNCHANGED <<jobStatus, jobDoc, jobColl, nextJob>>
  BY DEF enqueue_job
<1>2. /\ rpc[r] = "enqueue"
      /\ UNCHANGED <<collVars, docVars, jobStage, chunkVars, workerVars, lost>>
  BY DEF enqueue_job
<1>3. CASE ~DocExists(e)
  BY <1>1, <1>2, <1>3, SettlingAbandon
<1>4. CASE DocExists(e)
  <2>1. e \in Documents /\ docColl[e] = rcoll[r]
    BY <1>2, <1>4 DEF TypeOK, ClientTypeOK, RequestsAim, Aims
  <2>2. nextJob \in Jobs /\ jobStatus[nextJob] = "none"
    <3>1. nextJob \in Jobs
      BY <1>1, <1>4, ConstantsType DEF TypeOK, JobTypeOK, Jobs
    <3> QED
      BY <3>1, CfgsJobs DEF Rest, JobRows
  <2>3. /\ jobStatus \in [Jobs -> JobStatus \cup {"none", "deleted"}]
        /\ jobDoc \in [Jobs -> Documents \cup {None}]
        /\ jobColl \in [Jobs -> Collections \cup {None}]
    BY DEF TypeOK, JobTypeOK
  <2>4. /\ jobStatus'[nextJob] = "queued" /\ jobDoc'[nextJob] = e
        /\ jobColl'[nextJob] = docColl[e]
        /\ \A j \in Jobs : j # nextJob => /\ jobStatus'[j] = jobStatus[j]
                                          /\ jobDoc'[j] = jobDoc[j]
                                          /\ jobColl'[j] = jobColl[j]
    BY <1>1, <1>4, <2>1, <2>2, <2>3
  <2>5. jobDoc[nextJob] = None
    <3>1. nextJob \in Nat
      BY <2>2, CfgsJobs
    <3> QED
      BY <2>2, <3>1 DEF Rest, JobRows
  <2> SUFFICES ASSUME NEW d \in Documents PROVE Settles(d)'
    BY DEF Settling
  <2>6. CASE d = e
    <3>1. Unsettled(d)' = Unsettled(d) \cup {nextJob}
      BY <2>2, <2>4, <2>6 DEF Unsettled
    <3>2. jobColl'[nextJob] = docColl'[d]
      BY <1>2, <2>4, <2>6
    <3> QED
      BY <1>2, <2>2, <3>1, <3>2, SettlesAdded DEF Rest
  <2>7. CASE d # e
    <3>1. Unsettled(d)' = Unsettled(d)
      BY <2>2, <2>4, <2>7 DEF Unsettled
    <3>2. chunks \subseteq Jobs /\ nextJob \notin chunks
      BY <2>2 DEF Rest, ForeignKeys, JobExists, JobStatus, TypeOK, ChunkTypeOK
    <3>3. ChunksOf(d)' = ChunksOf(d)
      BY <1>2, <2>4, <3>2 DEF ChunksOf
    <3>4. \A j \in Unsettled(d) \cup ChunksOf(d) : jobColl'[j] = jobColl[j]
      BY <2>2, <2>4, <3>2 DEF Unsettled, ChunksOf
    <3>5. Asked(d) => Asked(d)'
      <4>1. CASE d \notin rtodo[r]
        BY <1>1, <1>4, <4>1, AskedByOthers, ContinueAt DEF Answer
      <4>2. CASE d \in rtodo[r]
        <5>1. Continue(r, "enqueue", rtodo[r] \ {e}, rcoll[r], NoHash)
          BY <1>1, <1>4, <2>7, <4>2
        <5> QED
          BY <2>7, <4>2, <5>1, ContinueAt DEF Asked
      <4> QED
        BY <4>1, <4>2
    <3>6. d \in orphans => d \in orphans'
      BY <1>1, <1>4, <2>7
    <3>7. DocExists(d)' <=> DocExists(d)
      BY <1>2 DEF DocExists
    <3>8. Settles(d)
      BY DEF Settling
    <3> QED
      BY <1>2, <3>1, <3>3, <3>4, <3>5, <3>6, <3>7, <3>8, SettlesAlone
  <2> QED
    BY <2>6, <2>7
<1> QED
  BY <1>3, <1>4

LEMMA SettlingServe ==
    ASSUME TypeOK, Rest, RequestsAim, Settling, NEW r \in Clients, Serve(r)
    PROVE  Settling'
<1> USE DEF collVars, docVars, jobVars, chunkVars
<1>1. CASE upload_and_ingest_create(r) \/ register_document_create(r)
  <2>1. rpc[r] # "enqueue"
    BY <1>1 DEF upload_and_ingest_create, register_document_create
  <2>2. \A q \in Clients : q # r => rpc'[q] = rpc[q] /\ rtodo'[q] = rtodo[q]
    BY <1>1, ContinueAt, ZenonT(40)
       DEF upload_and_ingest_create, register_document_create, Answer
  <2>3. \A d \in Documents : Asked(d) => Asked(d)'
    BY <2>1, <2>2, AskedByOthers
  <2>4. UNCHANGED <<collVars, jobVars, chunkVars, workerVars, lost, orphans>>
    BY <1>1 DEF upload_and_ingest_create, register_document_create
  <2>5. CASE UNCHANGED docVars
    BY <2>3, <2>4, <2>5, SettlingIdle
  <2>6. ASSUME NEW d \in Documents, NEW src \in BOOLEAN,
               create_pending_document(d, rcoll[r], src, rhash[r])
        PROVE  Settling'
    BY <2>3, <2>4, <2>6, SettlingCreate
  <2> QED
    BY <1>1, <2>5, <2>6 DEF upload_and_ingest_create, register_document_create
<1>2. CASE upload_and_ingest_put(r)
  <2>1. /\ rpc[r] # "enqueue"
        /\ UNCHANGED <<collVars, docStatus, docColl, jobVars, chunkVars,
                       workerVars, lost, orphans>>
    BY <1>2 DEF upload_and_ingest_put
  <2>2. \A q \in Clients : q # r => rpc'[q] = rpc[q] /\ rtodo'[q] = rtodo[q]
    BY <1>2, ContinueAt DEF upload_and_ingest_put, Answer
  <2>3. \A d \in Documents : Asked(d) => Asked(d)'
    BY <2>1, <2>2, AskedByOthers
  <2> QED
    BY <2>1, <2>3, SettlingIdle
<1>3. CASE resolve_decision_commit(r)
  <2>1. /\ rpc[r] = "reassign"
        /\ UNCHANGED <<collVars, jobVars, chunkVars, workerVars, lost, orphans>>
    BY <1>3 DEF resolve_decision_commit
  <2>2. rtodo[r] \in SUBSET Documents
    BY DEF TypeOK, ClientTypeOK
  <2>3. CASE UNCHANGED <<docColl, docStatus>> /\ Answer(r)
    <3>1. \A d \in Documents : Asked(d) => Asked(d)'
      BY <2>1, <2>3, AskedByOthers, ContinueAt DEF Answer
    <3> QED
      BY <2>1, <2>3, <3>1, SettlingIdle
  <2>4. ASSUME NEW e \in rtodo[r],
               docColl' = [docColl EXCEPT ![e] = rcoll[r]],
               docStatus' = [docStatus EXCEPT ![e] = "registered"],
               Continue(r, "enqueue", rtodo[r], rcoll[r], NoHash)
        PROVE  Settling'
    <3>1. \A d \in Documents \ rtodo[r] : /\ docStatus'[d] = docStatus[d]
                                          /\ docColl'[d] = docColl[d]
      BY <2>4 DEF TypeOK, DocTypeOK
    <3> QED
      BY <2>1, <2>2, <2>4, <3>1, SettlingReset
  <2> QED
    BY <1>3, <2>3, <2>4 DEF resolve_decision_commit
<1> QED
  BY <1>1, <1>2, <1>3, SettlingEnqueue DEF Serve

LEMMA SettlingCall ==
    ASSUME TypeOK, Rest, Sourced, Settling, NEW r \in Clients, Call(r)
    PROVE  Settling'
<1> USE DEF collVars, docVars, jobVars, chunkVars
<1>0. rpc[r] = "idle"
  BY DEF Call, upload_and_ingest, register_document, reindex_document,
     reindex_collection, resolve_decision
<1>1. ASSUME UNCHANGED <<collVars, docVars, jobVars, chunkVars, workerVars,
                         lost, orphans>>,
             \A q \in Clients : q # r => rpc'[q] = rpc[q] /\ rtodo'[q] = rtodo[q]
      PROVE  Settling'
  <2>1. \A d \in Documents : Asked(d) => Asked(d)'
    BY <1>0, <1>1, AskedByOthers
  <2> QED
    BY <1>1, <2>1, SettlingIdle
<1>2. ASSUME NEW c \in Collections, NEW h \in Hashes, upload_and_ingest(r, c, h)
      PROVE  Settling'
  BY <1>1, <1>2, ContinueAt DEF upload_and_ingest
<1>3. ASSUME NEW d \in Documents, NEW c \in Collections, resolve_decision(r, d, c)
      PROVE  Settling'
  BY <1>1, <1>3, ContinueAt DEF resolve_decision
<1>4. ASSUME NEW c \in Collections, NEW h \in Hashes \cup {NoHash},
             register_document(r, c, h)
      PROVE  Settling'
  <2>1. UNCHANGED <<collVars, jobVars, chunkVars, workerVars, lost, orphans>>
    BY <1>4 DEF register_document
  <2>2. CASE Continue(r, "create_register", {}, c, h) /\ UNCHANGED docVars
    BY <1>1, <2>1, <2>2, ContinueAt
  <2>3. ASSUME NEW e \in find_document_by_hash(c, h),
               docStatus' = [docStatus EXCEPT ![e] = "registered"],
               Continue(r, "enqueue", {e}, c, NoHash), UNCHANGED docColl
        PROVE  Settling'
    <3>1. {e} \in SUBSET Documents
      BY DEF find_document_by_hash
    <3>2. \A d \in Documents \ {e} : docStatus'[d] = docStatus[d]
      BY <2>3 DEF TypeOK, DocTypeOK
    <3> QED
      BY <1>0, <2>1, <2>3, <3>1, <3>2, SettlingReset
  <2> QED
    BY <1>4, <2>2, <2>3 DEF register_document
<1>5. ASSUME NEW e \in Documents, reindex_document(r, e) PROVE Settling'
  <2>1. /\ Continue(r, "enqueue", {e}, docColl[e], NoHash)
        /\ UNCHANGED <<collVars, docColl, jobVars, chunkVars, workerVars, lost,
                       orphans>>
    BY <1>5 DEF reindex_document
  <2>2. \A d \in Documents \ {e} : docStatus'[d] = docStatus[d]
    BY <1>5 DEF reindex_document, TypeOK, DocTypeOK
  <2> QED
    BY <1>0, <2>1, <2>2, SettlingReset
<1>6. ASSUME NEW c \in Collections, NEW v \in Cfgs, reindex_collection(r, c, v)
      PROVE  Settling'
  <2> DEFINE todo == {d \in Documents :
                        DocExists(d) /\ docColl[d] = c /\ docSrc[d]}
  <2>1. /\ IF todo = {} THEN Answer(r)
           ELSE Continue(r, "enqueue", todo, c, NoHash)
        /\ UNCHANGED <<collStatus, docColl, jobVars, chunkVars, workerVars,
                       lost, orphans>>
        /\ \A d \in Documents \ todo : docStatus'[d] = docStatus[d]
        /\ \A b \in Collections : b # c => collCfg'[b] = collCfg[b]
    BY <1>6 DEF reindex_collection, TypeOK, CollTypeOK
  <2> SUFFICES ASSUME NEW d \in Documents PROVE Settles(d)'
    BY DEF Settling
  <2>2. CASE d \in todo
    <3>1. Asked(d)'
      BY <2>1, <2>2, ContinueAt DEF Asked
    <3> QED
      BY <3>1 DEF Settles, Exempt
  <2>3. CASE d \notin todo
    <3>1. /\ DocExists(d)' <=> DocExists(d)
          /\ Unsettled(d)' = Unsettled(d) /\ ChunksOf(d)' = ChunksOf(d)
      BY <2>1, <2>3 DEF DocExists, Unsettled, ChunksOf
    <3>2. Asked(d) => Asked(d)'
      BY <1>0, <2>1, AskedByOthers, ContinueAt DEF Answer
    <3>3. Settles(d)
      BY DEF Settling
    <3>4. CASE docColl[d] # c
      <4>1. DocExists(d)' => collCfg'[docColl[d]] = collCfg[docColl[d]]
        BY <2>1, <3>1, <3>4 DEF Rest, ForeignKeys
      <4> QED
        BY <2>1, <2>3, <3>1, <3>2, <3>3, <4>1, SettlesAlone
    <3>5. CASE docColl[d] = c /\ DocExists(d)
      <4>1. ~docSrc[d]
        BY <2>3, <3>5
      <4>2. /\ docStatus'[d] # "indexed"
            /\ \A w \in Workers : wpc[w] \in Pipeline => jobDoc[wjob[w]] # d
        BY <2>1, <2>3, <4>1 DEF Sourced
      <4>3. Exempt(d) => Exempt(d)'
        BY <2>1, <3>1, <3>2 DEF Exempt, Stranded
      <4>4. LastJobFits(d) => LastJobFits(d)'
        BY <2>1, <3>1, <4>2 DEF LastJobFits, Unsettled, workerVars
      <4> QED
        BY <3>3, <4>2, <4>3, <4>4 DEF Settles
    <3>6. CASE ~DocExists(d)
      BY <3>1, <3>6 DEF Settles, Exempt
    <3> QED
      BY <3>4, <3>5, <3>6
  <2> QED
    BY <2>2, <2>3
<1> QED
  BY <1>2, <1>3, <1>4, <1>5, <1>6 DEF Call

\* Deleted documents take their jobs and chunks with them; the chunks of the
\* others stay unless they are in the collection that is deleted.
LEMMA SettlingDelete ==
    ASSUME TypeOK, Settling, NEW D \in SUBSET Documents, DeleteDocs(D),
           UNCHANGED <<collCfg, chunkCfg, workerVars, clientVars, lost, orphans>>,
           \A d \in Documents \ D : DocExists(d) => ChunksOf(d)' \subseteq ChunksOf(d),
           \A d \in Documents \ D : DocExists(d) /\ Fresh(d)
                                      => ChunksOf(d)' = ChunksOf(d)
    PROVE  Settling'
<1>0. /\ jobDoc \in [Jobs -> Documents \cup {None}]
      /\ UNCHANGED <<docColl, jobDoc, jobColl>>
  BY DEF DeleteDocs, TypeOK, JobTypeOK
<1> SUFFICES ASSUME NEW d \in Documents, ~Exempt(d)' PROVE Settles(d)'
  BY DEF Settling, Settles
<1>1. d \notin D /\ docStatus'[d] = docStatus[d]
  BY DEF DeleteDocs, Exempt, DocExists, DocStatus
<1>2. Unsettled(d)' = Unsettled(d)
  BY <1>0, <1>1 DEF DeleteDocs, Unsettled
<1>3. Asked(d)' <=> Asked(d)
  BY DEF Asked, clientVars
<1>4. ~Exempt(d)
  BY <1>1, <1>2, <1>3 DEF Exempt, Stranded, DocExists
<1>5. /\ LastJobFits(d)
      /\ docStatus[d] = "indexed" /\ Unsettled(d) = {} => Fresh(d)
  BY <1>4 DEF Settling, Settles
<1>6. LastJobFits(d)'
  BY <1>0, <1>2, <1>5 DEF LastJobFits, workerVars
<1>7. DocExists(d)
  BY <1>4 DEF Exempt
<1>8. Fresh(d) => Fresh(d)'
  BY <1>0, <1>1, <1>7 DEF Fresh
<1> QED
  BY <1>1, <1>2, <1>5, <1>6, <1>8 DEF Settles

LEMMA SettlingAtomic ==
    ASSUME TypeOK, Rest, "update_document" \notin Ops, Settling, CallAtomic
    PROVE  Settling'
<1> USE DEF collVars, docVars, jobVars, chunkVars
<1>0. UNCHANGED clientVars
  BY AtomicNoMove
<1>1. \A d \in Documents : Asked(d) => Asked(d)'
  BY <1>0 DEF Asked, clientVars
<1>2. ASSUME NEW d \in Documents, NEW c \in Collections, NEW src \in BOOLEAN,
             NEW h \in Hashes \cup {NoHash}, create_document(d, c, src, h)
      PROVE  Settling'
  BY <1>1, <1>2, SettlingCreate DEF create_document
<1>3. ASSUME NEW d \in Documents, NEW s \in DocStatus, update_document(d, s)
      PROVE  FALSE
  BY <1>3 DEF update_document, Request
<1>4. ASSUME NEW c \in Collections, NEW s \in {"active", "archived"},
             update_collection(c, s)
      PROVE  Settling'
  BY <1>1, <1>4, SettlingIdle DEF update_collection
<1>5. ASSUME NEW e \in Documents, delete_document(e) PROVE Settling'
  <2>1. \A d \in Documents \ {e} : ChunksOf(d)' = ChunksOf(d)
    BY <1>5 DEF delete_document, DeleteDocs, ChunksOf
  <2>2. {e} \in SUBSET Documents
    OBVIOUS
  <2> QED
    BY <1>0, <1>5, <2>1, <2>2, SettlingDelete DEF delete_document
<1>6. ASSUME NEW c \in Collections, delete_collection(c) PROVE Settling'
  <2> DEFINE D == {d \in Documents : DocExists(d) /\ docColl[d] = c}
  <2>1. /\ DeleteDocs(D) /\ UNCHANGED jobDoc
        /\ chunks' = {j \in chunks : jobDoc[j] \notin D /\ jobColl[j] # c}
        /\ UNCHANGED <<collCfg, chunkCfg, workerVars, clientVars, lost, orphans>>
        /\ D \in SUBSET Documents
    BY <1>6 DEF delete_collection, DeleteDocs
  <2>2. \A d \in Documents \ D : ChunksOf(d)' \subseteq ChunksOf(d)
    BY <2>1 DEF ChunksOf
  <2>3. ASSUME NEW d \in Documents \ D, DocExists(d), Fresh(d)
        PROVE  ChunksOf(d)' = ChunksOf(d)
    <3>1. \A j \in ChunksOf(d) : jobColl[j] # c /\ jobDoc[j] \notin D
      BY <2>3 DEF Fresh, ChunksOf
    <3> QED
      BY <2>1, <3>1 DEF ChunksOf
  <2> HIDE DEF D
  <2> QED
    BY <2>1, <2>2, <2>3, SettlingDelete
<1> QED
  BY <1>2, <1>3, <1>4, <1>5, <1>6 DEF CallAtomic

LEMMA FreshStep ==
    ASSUME SingleWorker, OneMover, "update_document" \notin Ops,
           TypeOK, Rest, OneWriter, FreshInv, [Next]_vars
    PROVE  FreshInv'
<1> USE DEF FreshInv
<1>1. CASE UNCHANGED vars
  <2>1. /\ RequestsAim' /\ Sourced'
    BY <1>1 DEF vars, docVars, jobVars, clientVars, workerVars, RequestsAim, Aims,
       Sourced, DocExists
  <2>2. OldestFirst' /\ LostUnheld' /\ OwnChunks'
    BY <1>1 DEF vars, jobVars, workerVars, OldestFirst, LostUnheld, OwnChunks
  <2>3. \A d \in Documents : Asked(d) => Asked(d)'
    BY <1>1 DEF vars, clientVars, Asked
  <2>4. Settling'
    BY <1>1, <2>3, SettlingIdle DEF vars, collVars, docVars
  <2> QED
    BY <2>1, <2>2, <2>4
<1>2. CASE Next
  <2>1. RequestsAim' /\ OwnChunks'
    BY <1>2, AimStep, OwnChunksStep
  <2>2. ASSUME NEW w \in Workers,
               Worker(w) \/ worker_crash(w) \/ run_pipeline_record_lost(w)
        PROVE  FreshInv'
    <3>1. Sourced' /\ OldestFirst' /\ LostUnheld'
      BY <2>2, SourcedWorker, OrderWorker
    <3>2. Settling'
      BY <2>2, SettlingSteady, SettlingBegin, SettlingEnd DEF Worker
    <3> QED
      BY <2>1, <3>1, <3>2
  <2>3. ASSUME \/ \E r \in Clients : Serve(r) \/ Call(r)
               \/ CallAtomic
               \/ \E r \in Clients :
                    request_crash(r) \/ upload_and_ingest_put_fails(r)
        PROVE  FreshInv'
    <3>1. Sourced' /\ OldestFirst' /\ LostUnheld'
      BY <2>3, SourcedRequest, OrderRequest
    <3>2. ASSUME NEW r \in Clients,
                 request_crash(r) \/ upload_and_ingest_put_fails(r)
          PROVE  Settling'
      BY <3>2, SettlingAbandon DEF request_crash, upload_and_ingest_put_fails
    <3>3. Settling'
      BY <2>3, <3>2, SettlingServe, SettlingCall, SettlingAtomic
    <3> QED
      BY <2>1, <3>1, <3>3
  <2> QED
    BY <1>2, <2>2, <2>3 DEF Next, Failure
<1> QED
  BY <1>1, <1>2

\* Once the jobs of an indexed document are done, search reads the chunks of
\* its own collection made with today's settings: for one worker and requests
\* that do not overlap, or overlap and move no document, whatever is crashed,
\* lost, deleted, moved or reindexed meanwhile.  (A caller who writes "indexed"
\* into a document by PUT promises an index that may not exist.)
THEOREM OneWorkerKeepsIndexFresh ==
    ASSUME SingleWorker, OneMover, "update_document" \notin Ops
    PROVE  Spec => []FreshIndex
<1>1. Init => OneWriter /\ ChunkCountExact /\ FreshInv
  <2> SUFFICES ASSUME Init PROVE OneWriter /\ ChunkCountExact /\ FreshInv
    OBVIOUS
  <2>1. OneWriter /\ ChunkCountExact
    BY DEF Init, OneWriter, ChunkCountExact, Pipeline
  <2>2. RequestsAim /\ OldestFirst /\ LostUnheld /\ OwnChunks
    BY DEF Init, RequestsAim, Aims, OldestFirst, LostUnheld, OwnChunks
  <2>3. Sourced
    BY DEF Init, Sourced, Pipeline
  <2>4. \A d \in Documents : Exempt(d)
    BY DEF Init, Exempt, DocExists, DocStatus
  <2>5. Settling
    BY <2>4 DEF Settling, Settles
  <2> QED
    BY <2>1, <2>2, <2>3, <2>5 DEF FreshInv
<1>2. IInv /\ OneWriter /\ ChunkCountExact /\ FreshInv /\ [Next]_vars
        => (OneWriter /\ ChunkCountExact /\ FreshInv)'
  <2> SUFFICES ASSUME TypeOK, Rest, OneWriter, ChunkCountExact, FreshInv, [Next]_vars
               PROVE  OneWriter' /\ ChunkCountExact' /\ FreshInv'
    BY DEF IInv, Rest
  <2> QED
    BY IndexStep, FreshStep
<1>3. FreshInv => FreshIndex
  <2> SUFFICES ASSUME FreshInv, NEW d \in Documents, docStatus[d] = "indexed",
                      Quiet(d), d \notin orphans
               PROVE  Fresh(d)
    BY DEF FreshIndex
  <2>1. Unsettled(d) = {} /\ ~Asked(d)
    BY DEF Quiet, Unsettled, Asked
  <2>2. ~Exempt(d)
    BY <2>1 DEF Exempt, Stranded, DocExists, DocStatus
  <2> QED
    BY <2>1, <2>2 DEF FreshInv, Settling, Settles
<1> QED
  BY <1>1, <1>2, <1>3, Invariance, PTL DEF Spec
==============================================================================
