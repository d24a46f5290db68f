# Argus RAG Studio: a TLA+ verification project

Argus RAG Studio is a RAG platform: documents are uploaded into *collections*
(knowledge bases), an asynchronous pipeline parses, chunks, embeds and indexes
them, and retrieval answers questions from the chunks. This directory models the
parts of it in which something can go wrong between two steps, model-checks them
with TLC on small instances, and proves the most important results with TLAPS
for every size of the system.

Source paths are relative to the repository (`backend/app/...` unless said
otherwise). `PROJECT.json` maps every definition to the lines it models.

## 1. Inventory

### 1.1 Processes and shared state

* **API process** (`main.py`): a FastAPI application on one asyncio event loop
  per process. Handlers run as coroutines, each with its own SQLAlchemy session
  (`expire_on_commit=False`), i.e. its own PostgreSQL transactions, READ
  COMMITTED. Its lifespan also starts the background loops below. Any number of
  replicas may run.
* **Worker processes** (`worker_main.py`): the same loops without the API.
* **PostgreSQL**: all shared state. Nothing is kept in memory across requests
  except a few TTL caches and the worker's heartbeat.
* **Object storage** (MinIO/S3), **embedding, rerank and detection servers**,
  **vector store** (pgvector by default: the vectors are a column of
  `rag_chunks`), **host agents** (`agent/`): external, reached over HTTP.

### 1.2 Components

| component | state | operations | hard part | correct means |
|---|---|---|---|---|
| ingestion jobs (`ingestion/service.py`, `worker.py`, `router.py`) | `rag_ingestion_jobs` (status, stage, document, collection) | enqueue, claim, run the pipeline, record failure | many workers, crashes, rows deleted or moved under a running job | a job is run once; every job and document comes to an end; the chunks are those of one job, of the newest settings |
| documents (`documents/`) | `rag_documents` (status, collection, source, hash, chunk_count) | create, update, delete (cascades) | handlers interleave with the pipeline | no document is forgotten; no duplicate content |
| collections (`collections/`) | `rag_collections` (status, indexing settings) | create, update, reindex, delete | reindex is a commit followed by one commit per document | reindexing reaches every document |
| routing (`routing/`) | policy versions, decision log, `rag_source_seen_files` | decide, scan, review (confirm, reassign), version policy | reassignment moves a document while its job runs; check-then-insert of versions | the document is indexed in the collection it is in |
| source watch (`sourcewatch/`) | watches (interval, next_run, failures), runs | create, update, delete, run now, claim due, record result | several replicas, a scan that outlasts its interval | one scan per watch at a time; a watch is never lost |
| evaluation and sweeps (`evaluation/`) | runs, sweeps, candidates, ephemeral collections | create, claim, plan, start, finalize, cancel, apply | the plan is several commits; cancel races the worker | a sweep ends, with every run counted once |
| host agents (`agent/`, `agentclient/`, `servermgr/`) | agents (status, last heartbeat) | heartbeat, disconnect check, approve | stale select before the update | an agent that sends heartbeats is not left disconnected |
| worker registry (`workers/`) | one row per worker (status, counters) | start, heartbeat, job started/finished, stop | the row is a copy written by a periodic task | the last write says stopped |
| deployment (`deploy/`) | services, endpoints cache (TTL), prepared models | deploy, stop, prepare, list | cached endpoints, streams broken half way | a stopped service is not handed out |
| pipelines (`pipelines/`) | append-only versions | create version, activate | max(version)+1 | versions are unique, one is active |
| retrieval, generation, rerank, embedding, llm | none (reads) | search, answer | numeric fusion of rankings | the fusion is the documented one |
| annotations, imagerecog, finetune, modelreg | projects, items, jobs | label, train, register | polling of external jobs | a job is followed to its end |
| auth, apikeys, permissions, usermgr, settings, pii, feedback, observability, s3browse, sources, storage, extservers, platform | rows of their own | CRUD | little concurrency | - |
| host agent (`agent/app`) | files, services, packages of a host | commands over HTTP, heartbeat, metrics | operating system calls | - |
| web console (`frontend/apps/web`) | the React state of the mounted page, the session in `sessionStorage` | some forty pages: lists with dialogs, polled monitors, editors, streams | handlers that await while the user goes on, answers out of order, debounced and polled requests, lost answers | no control waits for ever, no form is sent twice, a page shows its own writes, panels belong to the selection, polling catches up, the session is one session |
| host displays (`features/servers`, overview, permissions) | none of its own | commands to a host, charts | - | - |
| extension servers (`extensions/`) | models in memory | embed, rerank, detect, render | - | - |

### 1.3 Interactions

The tables couple the components: handlers enqueue jobs and return 202; workers
poll; reindexing, reassignment and deletion change rows that a worker has read
and still uses; deletions cascade through foreign keys (a document takes its
jobs and chunks with it, a collection its documents and chunks). Claims use
`SELECT ... FOR UPDATE SKIP LOCKED`. Nothing else is locked between a read and
the write it justifies. The console reaches all of this by HTTP: a page sees a
table only through its last answer, and its requests interleave with the workers
and with other users. The hazards this creates are listed, line by line, in
`PROJECT.json` under `hazards`; the sections below name further limits.

## 2. Plan

1. **Ingestion** (done, section 3): `Ingestion`, `JobQueue`, `MCIngestion` and
   the proof modules. The heart of the system: every document passes through it.
2. **Source watch and intake scan** (modelled, checked and proved, sections 4
   and 5): `SourceWatch` and `IntakeScan`.
3. **Web console** (modelled, checked and proved, section 6): the pages, one
   module per area, under one model of how a page of a browser executes. Of the
   invariants only `OwnWritesShown` is left without a proof.
4. **Session** (modelled, checked and proved, section 7): `AuthSession`.
5. **Evaluation sweeps**: `EvalSweep` (plan in several commits, runs, finalize,
   cancel); the sweep's accounting as an invariant, completion as liveness.
6. **Agents and workers**: `AgentLifecycle` (heartbeat against the disconnect
   checker), `WorkerRegistry` (the persisted status against the real one).
7. **Versions**: the policy and pipeline versions (max + 1 under a unique
   constraint, one active), and the external vector store beside `rag_chunks`.

## 3. Ingestion

### 3.1 Modules

* `Ingestion.tla` - the tables `rag_collections`, `rag_documents`,
  `rag_ingestion_jobs`, `rag_chunks`; the workers; the handlers.
* `JobQueue.tla` - the abstract specification: a queue that hands each job to
  at most one worker, and in which only that worker gives the verdict.
* `MCIngestion.tla` - constants and symmetry for TLC.
* `IngestionProofs.tla` - the inductive invariant and the safety theorems; the
  refinement of `JobQueue`, and that jobs only move forward; exactness and
  freshness of the index with one worker, and the check of contents.
* `JobQueueProofs.tla` - exclusion in the abstract queue.

### 3.2 State and actions

One step is one committed transaction. Rows are functions from primary keys;
`"none"` is a row not inserted yet and `"deleted"` one that is gone. A worker's
local variables are what the coroutine holds between commits: the job, the
collection settings and the `chunk_count` it read at the start, and the batches
its DELETE sees. A request's are the documents it still has to enqueue.

| action | code |
|---|---|
| `claim_next_job`, `claim_next_job_commit` | the SELECT ... FOR UPDATE SKIP LOCKED and its commit (`ingestion/service.py` 262-281) |
| `run_pipeline_gone`, `run_pipeline_no_collection`, `run_pipeline` | the job re-read by the loop (`worker.py` 42-45), the early return and the commit of `processing` (`service.py` 292-327) |
| `run_pipeline_load/parse/chunk/embed` | the stages, each ending in the commit of `_set_progress` |
| `run_pipeline_delete`, `run_pipeline_commit` | the index transaction: its DELETE, and its INSERTs and commit |
| `run_pipeline_error`, `run_pipeline_record_failure`, `run_pipeline_record_lost` | the except clause, the transaction that records the failure, and its own failure |
| `worker_crash` | the process is killed, or the lifespan cancels the task |
| `upload_and_ingest*`, `register_document*`, `enqueue_job`, `reindex_document` | `ingestion/router.py` |
| `create_document`, `update_document`, `delete_document` | `documents/service.py` |
| `reindex_collection`, `update_collection`, `delete_collection` | `collections/service.py` |
| `resolve_decision`, `resolve_decision_commit` | the reassignment branch of the routing review (`routing/service.py`) |
| `request_crash` | the API process dies between two commits of a request |

ORM behaviour that matters is kept: an attribute is written only when it differs
from the value read (so a stale `chunk_count` may suppress the write), an UPDATE
of a row that was deleted raises and leads to the except clause, a bulk UPDATE of
such a row is a no-op, and an INSERT whose foreign key is gone raises.

Abstractions: chunks are inserted and deleted in batches, named by their job; the
settings of a collection are a number, and `Pieces` says how many chunks a
document gives under them; parsing, embedding and storage may fail at any point;
the history variables `lost` and `orphans` record the jobs and documents that a
crash, a storage failure or a manual status left behind, so that the invariants
can say "except those". The snapshot object in storage is not a variable: losing
it is a failure of the load stage.

### 3.3 Properties

* `JobOwnedOnce` - a job is claimed and run by one worker only, and a job a
  worker runs is running, or was deleted under it.
* `RunningAccounted` - a running job has its worker, unless that worker crashed
  or could not record the failure: no exit of the pipeline forgets the job.
* `NoDocumentForgotten` - a document that is registered or processing has a job
  queued *for the collection it is in now*, a request about to enqueue one, or a
  worker at work, through every interleaving of moves, reindexes and deletes.
* `ChunkCountExact` - a document has the chunks of one job, and `chunk_count` is
  their number.
* `FreshIndex` - when the jobs of an indexed document are done, its chunks are in
  its own collection and of the settings that collection has now.
* `NoDuplicateHash` - a collection has no two documents of one content, as long as
  they come through the upload, the registration or a move (`create_document`
  takes the caller's hash without looking).
* `JobMovesForward` - verdicts are final, stages never go back.
* `ImplementsJobQueue` - every transaction is a step of `JobQueue` or a stutter.
* `QueuedJobSettles`, `DocumentSettles` - everything comes to an end.

### 3.4 Runs

| run | instance | shows |
|---|---|---|
| `ingestion_jobs` | 2 workers, 1 request at a time, 2 documents, 2 collections, 3 jobs, 3 requests, 1 fault of any kind, all handlers | type, ownership, accounting, no forgotten document, forward motion, refinement |
| `ingestion_index` | 1 worker, 1 request at a time, 2 documents, 3 jobs, 4 requests, 1 fault; registration, reindexing, moves, deletes, settings that change | `ChunkCountExact`, `FreshIndex`, `NoDuplicateHash` |
| `ingestion_live` | 2 workers, no crash, fairness | `QueuedJobSettles`, `DocumentSettles` |
| `ingestion_two_workers` | 2 workers | **violation** of `ChunkCountExact` |

The bounds: three jobs let two jobs of one document overlap while a third is
queued; two collections are what a move needs; three requests are enough for an
upload, a move or reindex, and a deletion in any order; one fault bites at any
step. `CHECK_DEADLOCK FALSE`: the bounded instance stops when its requests are
used up and the workers find nothing to claim, as the real system idles.
The violation is a finding of `PROJECT.json`, which quotes the documentation it
contradicts.

Known limits, without a run of their own; each shows in TLC when the instance is
changed as said:

* With two requests in flight (`Clients` of two, in `IngestionIndex.cfg`)
  `NoDuplicateHash` fails: check and INSERT are two transactions without a unique
  constraint, although `ingestion/router.py` 85 promises a 409.
* With a crash allowed in `IngestionLive.cfg`, `QueuedJobSettles` fails: a running
  job without a worker is never taken up again, although `service.py` 561 means to
  keep a job from staying in `running`.
* With two workers `FreshIndex` fails: a job that read the settings before a
  reindex may commit after the job the reindex enqueued.
* The exception `orphans` of `FreshIndex` is needed: `reindex_collection` commits
  once per document, so a document deleted meanwhile ends it with an exception and
  leaves the rest of the collection as it was.

### 3.5 Fairness

`FairSpec` assumes weak fairness of each worker's next transaction and of each
request in flight: an asyncio task that can run is run, and a worker sleeps only
when it found no job. `run_pipeline_error` is one of a worker's actions, so
fairness never requires a stage to succeed. Clients need not send requests, and
no fault need happen. Strong fairness is not used.

### 3.6 Proofs

Everything is proved for arbitrary sets of workers, requests, documents,
collections and hashes and arbitrary bounds, from the assumptions
`BoundsAssumption` (the bounds are naturals), `PiecesAssumption`,
`NoneAssumption` (the null values are not rows) and `OpsAssumption`.

* **Invariance**: `Spec => []IInv`. None of the safety
  invariants is inductive alone: that a claim does not collide needs the status
  of the jobs other workers hold (`WorkerJobs`, `DistinctJobs`); that a document
  is not forgotten when its job fails for want of a collection needs the foreign
  keys (`ForeignKeys`: a document's own collection exists, so a job for a
  missing one is not the job the document waits for), the numbering of jobs
  (`JobRows`) and what requests in flight refer to (`ClientRefs`). The proof has
  one lemma per group of actions for the type (`WorkerTypeStep`,
  `ClientTypeStep`, `AtomicTypeStep`, `FailureTypeStep`) and one for the rest
  (`WorkerStep`, `ClientStep`, `AtomicStep`, `FailureStep`). Its corollaries are
  `TypeCorrectness`, `JobsOwnedOnce`, `RunningJobsAccounted` and
  `NoDocumentIsForgotten`.
* **OneWorkerIndexesExactly**: with one worker
  `ChunkCountExact` holds. The strengthening `OneWriter` says that between its
  DELETE and its commit no batch of its document appears that it will not
  delete, and that the `chunk_count` it remembers is still the row's - which is
  why the write the ORM suppresses is not missed.
* **QueueRefinement**, **JobsMoveForward**: from `IInv`
  every step of `Next` is a step of `JobQueue` under the mapping in which `held`
  are the pairs of a worker and the job it works on; with `JobStages` (the stage
  column follows the worker) every step moves every job forward.
* **Exclusion** (`JobQueueProofs`): the abstract queue never gives one job to
  two workers.
* **OneRequestNoDuplicates**: with one request at a time
  and without `create_document`, `NoDuplicateHash` holds for any number of workers.
  The strengthening `HashesChecked` carries the result of the look-up from its
  transaction to the one that inserts or moves: what the workers, crashes,
  deletions and one-transaction handlers do in between adds no content. Both
  hypotheses are needed: two overlapping uploads pass the look-up together, and
  `create_document` stores the caller's hash unseen.
* **OneWorkerKeepsIndexFresh**: with one worker,
  `FreshIndex` holds, if requests do not overlap or do not move documents
  (`OneMover`) and no status is written by hand through `update_document`. The
  argument is about the *last* job of a document. Jobs are claimed oldest
  first (`OldestFirst`), so it is the last to write the index; it is for the
  collection the document is in, and once begun it uses the settings of today
  (`LastJobFits`, which needs `RequestsAim`: a request enqueues documents where
  they are). `Sourced` says that whatever is indexed has a source, so that
  `reindex_collection`, which leaves out the rest, forgets none; `LostUnheld` and
  `OwnChunks` keep lost jobs and other documents out of the account. The hypotheses
  are needed: with two workers an older job may commit last; of two requests one
  may move a document after the other has looked where it is, and the last job is
  then for the old collection; and a PUT may declare "indexed" what is not.

Only model-checked: the liveness properties `QueuedJobSettles` and
`DocumentSettles`.

## 4. Source watches

### 4.1 Model

`SourceWatch.tla` is the table `rag_source_watches`, the administrator's
handlers (`create_watch`, `update_watch`, `delete_watch`, `run_now` of
`sourcewatch/service.py`, with the guards of `sourcewatch/router.py`) and, for
each API process, the `SourceWatcher` loop (`sourcewatch/watcher.py`):

| action | code |
|---|---|
| `claim_due` | `tick` and `claim_due`: up to `Limit` due watches in the order of `next_run_at`, which moves on by the interval in the same transaction |
| `ScanEnds` | `_execute` up to the end of `run_scan`: complete, truncated, or an exception (with or without a text) |
| `RecordLoad`, `RecordStore` | the SELECT of `record_result`, and its flush and commit. No lock is held in between, and the ORM writes the columns whose value differs from the one loaded |
| `RecordRaises` | the except clause of `_execute`: a result that cannot be recorded is recorded as an error; if that fails too, it is only logged |
| `Crash` | `stop()` or a killed process: the rest of the batch is forgotten |
| `Tick` | time passes |

Time is relative: `watch[w].next` is `next_run_at` minus now. Once a watch is
overdue only the order of the overdue watches can be observed, so `Elapse` keeps
their ranks and the state space is finite without a bound on time.
`consecutive_failures` is counted up to `MaxFails`, from where on the back-off is
the cap for every interval (`FailsAssumption`), so this loses nothing. The history
variables `asked`, `wait` and `streak` are read by the properties only. The log of
runs (`rag_source_watch_runs`, with its limit) is left out: nothing reads it back.

### 4.2 Properties and runs

| property | says |
|---|---|
| `WatchTypeOK` | types; `next_run_at` is never further away than the longest interval or the cap |
| `NotBeforeInterval` | with one API process, or one interval, within the cap: a claimed watch is not due again before its interval is over, unless a request or a truncated scan asks for it |
| `FailuresTruthful` | `consecutive_failures` and `last_status` say what happened |
| `RequestOnlyLostToFailure` | an accepted "run now" keeps the watch due until it is claimed, unless the running scan fails |
| `WatchKeepsRunning` | an enabled watch is scanned again and again |
| `OneScanAtATime` | what a comment of the code promises and the code does not keep |

| run | instance | shows |
|---|---|---|
| `watch_schedule` | 1 process, 2 watches, `Limit` 1, intervals 1 and 2, cap 3, 4 requests, 1 crash, fairness | the four invariants and `WatchKeepsRunning` |

`Limit` 1 with two watches stands for the code's 3 with more than three: what
matters is that not every due watch fits. Cap 3 with intervals 1 and 2 gives
back-offs below, at and above the cap.

Known limits, without a run of their own:

* With two processes `OneScanAtATime` fails: a scan that outlasts its interval is
  joined by a second one, although the comment at `watcher.py` 71 says that the
  early `next_run_at` prevents it.
* With an exception whose text is empty `FailuresTruthful` fails: `record_result`
  asks `if error:`, and the failure is recorded as a success (`service.py` 148).
* An interval longer than the cap breaks `NotBeforeInterval`: the back-off of a
  failing watch is then *shorter* than its interval.
* A request accepted while a scan runs is replaced by the back-off if that scan
  fails; `RequestOnlyLostToFailure` states exactly this exception.
* With several processes `FailuresTruthful` and, if intervals differ,
  `NotBeforeInterval` fail: one that loaded the row before `update_watch` raised the
  interval, and stores a failure after another has claimed the watch with the new
  one, computes the back-off of the old; and of two results stored at once one
  may count its failure on top of a stale number. The window is one transaction.

Fairness: time passes, and each loop goes on claiming, scanning and recording. That
a scan ends is an assumption - the code sets no timeout - and listed as a hazard.
Requests and crashes are bounded and never required.

### 4.3 Proofs

`SourceWatchProofs`, for any finite set of watches, any intervals, cap, limit,
number of requests and crashes. The assumptions are those on the bounds, finiteness
of `Watches` and `Intervals` (a table and an Integer column), `NoRowAssumption` (the
empty local variable is not a row) and `PowersAssumption`, `2^f >= 2` for the
counted failures: a fact of arithmetic that the provers do not know of `^` and TLC
evaluates.

| theorem | hypotheses | property |
|---|---|---|
| `WatchTypes` | none | `WatchTypeOK` |
| `OneReplicaKeepsIntervals` | intervals within the cap; one API process *or* one interval | `NotBeforeInterval` |
| `OneReplicaCountsFailures` | one API process, no error with an empty text | `FailuresTruthful` |
| `OneReplicaKeepsRequests` | one API process | `RequestOnlyLostToFailure` |

The hypotheses are those of the known limits above: without each of them TLC finds
a counterexample. `WatchTypes` needs the operators `Elapse` (ranks of the overdue
watches), `Earliest` (the ordered batch) and the back-off to have the range their
definitions suggest, which `ElapseEffect`, `EarliestEffect` and `Backoff` prove.
The schedule rests on `WaitWithin`: what is left of the interval of the last claim
is at most the interval of the row, *and* of the copy that `record_result` has
loaded, since the back-off is computed from the copy. That is where several
processes with several intervals fail. The count of failures rests on `RowCurrent`
(the loaded copy is the row, unless the watch was deleted), the requests on
`RequestsInv`: a batch names no watch twice, and a request made after the claim is
intact until the scan in hand is recorded.

## 5. Intake scan

### 5.1 Model

`IntakeScan.tla` is `run_scan` (`routing/scan.py`) with what it reads and writes:
the folder of a source, the active policy version, the cache
`rag_source_seen_files` and the documents it registers. Several scans may overlap
(watch loops of several processes, requests to `intake-scan`).

| action | code |
|---|---|
| `run_scan` | the listing (cut at `ListMax`), the policy version, `should_skip_seen` on every entry, the limit |
| `fetch_from_source`, `fetch_fails` | the read of one file, which may have changed or gone since the listing; the source out of reach |
| `register_check`, `register_create`, `register_put`, `register_enqueue` | `decide` and `register_and_enqueue`, split at its commits |
| `register_put_fails` | the bytes cannot be stored: the rollback expires the session's rows, and the next access to the source's row ends the scan |
| `upsert_seen` | the cache row, with the fingerprint of the listing |
| `scan_aborts` | the process dies, or a write of the scan fails |
| `update_config`, `set_active`, `prune_seen` | `routing/service.py`, and the pruning by the watcher |
| `update_collection` | `collections/service.py`: a collection is archived, or made active again |
| `Drop`, `Remove` | the world outside writes and removes files (external) |

Files are numbers in the order of the listing, a version of a file stands for its
fingerprint and its bytes, `Content` gives the hash of a version and `Route` the
verdict of a policy version while a given set of collections is active: `decide`
offers a classifier the active collections only, while a rule may name an archived
one, which `register_check` then refuses. Both are cached as `no_route`. Pruning may remove any row at any time, which is more
than `last_seen_at` allows: the cache must never matter for correctness. Deletion
of documents is left out here (a file whose document was deleted on purpose is
meant to stay skipped).

### 5.2 Properties and runs

| property | says |
|---|---|
| `IntakeTypeOK` | types; a running scan has a file to work on |
| `SeenMeansIngested` | a file that is skipped as routed or duplicate is in the system with the bytes it has now |
| `NoDoubleIntake` | no collection gets one content twice |
| `FileCollected` | a file that stays, with a route to an active collection, is ingested in the end, unless its registration was cut short or it was scanned while its collection was archived |
| `NoRouteStands` | a file that is skipped as one without a route has none today: violated, see below |

| run | instance | shows |
|---|---|---|
| `intake_scans` | 2 scans that overlap, 2 files with equal first versions, 3 drops, 2 policies, limit 1, 1 failed fetch | `IntakeTypeOK`, `SeenMeansIngested` |
| `intake_folder` | 1 scan at a time, 2 files, limit 1, 3 drops, 2 policies (rules; a classifier), 2 collections of which one is archived and opened again at any time, pruned rows, failed storage and aborted scans, fairness | `NoDoubleIntake`, `FileCollected` |
| `intake_archived` | the same, without failures | **violation** of `NoRouteStands` |

`intake_archived` is a finding: a file is scanned while its collection is archived,
the cache keeps `no_route` with the policy version, the collection is made active
again, and `should_skip_seen` passes the file over until the policy or the file
changes. Its docstring (`scan.py` 301) takes for granted that the same policy gives
the same result. `FileCollected` therefore makes an exception for `PassedOver`.

Known limits, without a run of their own:

* With three files and a listing of two `FileCollected` fails: the adapters return
  the first entries every time and `run_scan` keeps no position, although
  `routing/router.py` 223 says that repeating the request processes the rest.
* Two scans that overlap break `NoDoubleIntake`: the lookup of the hash and the
  INSERT are two transactions.
* A registration cut short leaves a document without a job, and the next scan
  counts the file as its duplicate; `CutShort` is the exception for it in
  `FileCollected`.
* A read that fails once is kept as the verdict on that version of the file, so
  `FileCollected` needs a source that can be read.

Two files are enough for one to be the copy of the other and for a limit of one
to leave a file over; three drops let a file be rewritten twice, or both files
once and one of them again. `intake_scans` leaves the collections alone
(`Closable` is empty): its two properties speak of files that are routed already.
`CHECK_DEADLOCK FALSE`: the instance rests when every
file is known. Fairness: a scan is started again and again by its watch
(`WatchKeepsRunning` of section 4), and a scan that runs goes on.

### 5.3 Proofs

`IntakeScanProofs`, for any number of files, versions, policies, collections and
scans in flight, any listing size and limit, any contents and routes, and any collections archived
and opened again meanwhile.

| theorem | hypotheses | shows |
|---|---|---|
| `IntakeTypes` | none | `IntakeTypeOK` |
| `SeenMeansRegistered` | none | a file skipped for good has a document with its present bytes (`SeenHasDoc`) |
| `SeenIsIngested` | no failed upload, no aborted scan | `SeenMeansIngested`: that document also has its job, or a scan is about to queue it |
| `OneScanNoDoubleIntake` | one scan at a time | `NoDoubleIntake` |

`SeenHasDoc` is not inductive: a scan writes into the cache the fingerprint of its
*listing* and the verdict on the bytes it *read*, and the file may have been
rewritten in between. `FingerprintsOld` (no fingerprint is newer than the file) and
`HashCurrent` (if the file is still what the listing showed, what was read is what
it holds) are why a stale verdict never matches the file again; `ReportHasDoc`
covers the time between the registration and the cache row. `PendingOwned` adds
that a document without a job belongs to a scan that is about to queue it, which a
failed upload or an abort makes false. `OneScanNoDoubleIntake` allows every failure,
and needs `InsertChecked`: what the look-up found absent is absent when the row is
inserted. Two overlapping scans break it, as said above.

Only model-checked: `FileCollected` (liveness).

## 6. Web console

### 6.1 How a page executes

A page of the console is a React component whose handlers are `async` functions:
they run up to an `await`, the user goes on clicking, and the rest runs when the
answer arrives. Everything that goes wrong between a click and its answer is
therefore an interleaving, and one model of execution serves every page:

| module | content |
|---|---|
| `Browser` | requests in flight (`net`), the forms of a step: a handler that only sets state (`User`), one that starts a request (`Ask`), the continuation of a promise (`Resume`), a timer (`Fire`, `Tick`), a change from elsewhere (`World`) |
| `TablePage` | the shape most pages share: a table, a form dialog, a delete confirmation, a switch per row |
| `SourcePages`, `MonitorPages`, `EvaluationPages`, `ConfigPages`, `CollectionPages`, `RoutingPages`, `ImagePages`, `AnnotationPages`, `PipelinePages`, `FinetunePages`, `UserPages`, `FilePages` | the pages, by area |
| `Console` | the mounted page: `Init` (what mounting starts), the server (`Serve`, `Fault`), the steps and the properties, each as a table over the pages |
| `MCConsole` | the module TLC runs |

A behaviour is the life of one mounted page, named by `screen`. `ui` is its React
state, `db` what the server keeps for it. Each page `X` gives `XUi` and `XDb` (the
states at mount), `XUser` (its handlers up to the first `await`, under the
conditions its JSX puts on the controls), `XResume` (what follows each `await`,
the `catch` and `finally` branches included), `XAccepts`, `XEffect`, `XAnswer`
(the endpoint, as the page's `api.ts` uses it), and where the page has them
`XPoll` (intervals and timeouts) and `XWorld` (workers and other users). A handler
that awaits three times is three steps; everything between two `await`s is one.

A request is served at any moment, or fails, *before or after* the server acted on
it; its continuation runs at any later moment, in any order relative to the
others. A request may thus be lost, late, or answered after the page has moved on.
State that a closure captured when the handler started (a path, a filter, an
identifier) travels in the request's arguments, and state a continuation reads
afresh is read afresh: that difference is where most hazards of the pages lie.

Data is abstracted to what the properties tell apart: a row is its status or one
value, a form is empty or has one of two values, a page of a listing is its
query and its rows. `ui` has a few history variables (`own` and `moved` in the settings,
`drawn` in the labelling page, `at` and `from` for the request a display stems
from); each module names its own. The server's rules a page depends on are
written out where a page predicts them: `RunPolicy` is the router of
`backend/app/routing/base.py`, against which the editor's badge is checked.

### 6.2 Properties

| property | says |
|---|---|
| `SpinnersWaited` | a raised flag (spinner, disabled button) has a request in flight that lowers it: no early return, error path or overlap leaves a control disabled for ever |
| `OneSubmitAtATime` | a submission is not sent again while the first is out, also over closing and reopening its dialog |
| `OwnWritesShown` | with nothing in flight, nothing failed, no foreign change and no two answers out of order, the page shows what the server has |
| `PanelShowsSelection` | what a panel shows, and what its buttons act on, belongs to what is selected, whatever order answers come in |
| `ViewConverges` | once users and workers rest, a polled page comes to show the server's state and keeps showing it, whatever was lost or late before |
| `SwitchBackRestores` | the settings the administrator gave come back when the platform is switched back, through every order of applying, deriving, reverting and saving - but for a form that changed under a save, until it is reloaded |
| `BadgePredictsServer` | what the policy editor predicts for a stage is what the router does, at and between the thresholds |
| `BoxNumbersUnique`, `BoxInsideImage` | labels: one number per box; every box inside its image and not too small |
| `ExamplesContrast` | no training example uses a chunk both as positive and as negative |
| `EditsReachServer` | violated, see below |

`OwnWritesShown` needs its exception `mixed` (`Overtakes` of `Browser`): none of
the pages orders its answers, so two overlapping reads, two patches of one row or
a patch and a reload may be applied in the wrong order and stay so until the next
load. The property says that this is the only way to go stale.

`SwitchBackRestores` compares the form with the history `own`: what the server had,
what the administrator typed, and what a successful save *sent*. It has the
exception `moved`, a save that succeeds after the form changed under it:
`handleSave` then empties the previous values of the form on screen
(`settings/page.tsx` 425), not of the one it sent. As a rule the reload after the
save replaces the form; if it fails, the recommended values applied while the save
was out stay when the platform is switched back, and the administrator's are lost.

For `BadgePredictsServer` the editor's inputs offer scores of 40 and 90, stage
thresholds of 40 and 70, review thresholds of 50 and 90 and weights of 0 and 1, so
that a score equals either threshold, misses the one of the stage, or passes that
and waits for review.

### 6.3 Runs

| run | instance | shows |
|---|---|---|
| `console_pages` | 40 pages, 2 rows, 2 requests in flight, 2 user requests, 1 failure or foreign change | the seven invariants |
| `console_polled` | the polled pages and those whose handlers start several requests at once (12 pages), 3 requests in flight, 1 user request, 1 failure or foreign change, fairness | `ViewConverges` and four invariants |
| `labeling_autosave` | the labelling page | **violation** of `EditsReachServer` |

Two rows are enough for one to be acted on while another is selected; two user
requests for one to overtake the other and, with the load of the mount, for a
write to overlap a read; one event lets any single request fail, before or after
its effect, or one foreign change happen at any point. The polled pages get a
third slot because a poll may be out beside a load and a write. `CHECK_DEADLOCK
FALSE`: a page at rest, with its bounds used up, is a normal end.

Local bounds: one entry of browser history (explorer, object browser), one level
of folders, two files per upload, one row dialog waiting to be unmounted
(`UsersTimers`), a canvas of one dimension a few minimal boxes wide, two of the
fields that the platform switch overwrites.

Fairness (`FairSpec`): a request is served (or fails), a settled promise resumes,
and intervals fire: what `fetch` and the event loop guarantee. No user action, no
worker progress and no failure is required.

### 6.4 Known limits

The findings of `PROJECT.json` have runs. The last section of `Console` states
further promises of comments or of the pages' own headings that the code does not
keep; each has a counterexample of a few steps when listed as an invariant with
`Screens` set to its page:

| definition | page | counterexample |
|---|---|---|
| `SelectedAreChecked` | users | a user is checked and the table reloads: the bulk actions keep the users of the old rows (`users-table.tsx` 145, against `users-provider.tsx` 60) |
| `FilterKept` | feedback | two filters in a row, the answer to the first arrives last (`feedback/page.tsx` 143) |
| `TestedIsThisServer` | collections | the server is changed while its test is out (`collections/page.tsx` 175, against the comment at 157) |
| `CompletedIsLatest` | labelling | a box drawn while completion flushes its saves is not in the label (`annotation-editor.tsx` 496) |
| `FolderShown` | explorer | going back changes the path bar and loads nothing (`annotation-explorer.tsx` 104, against `use-tab-state.ts` 7) |
| `DetailIsOpenRun` | recognition history | two runs opened in a row, or a stream of one while another is open (`recognition/page.tsx` 677, 713) |
| `StreamHasItsTurn` | chat | the conversation is cleared while an answer streams in (`chat/page.tsx` 121, 187) |
| `FeedbackOnItsCollection` | playground, chat | the rating is filed under the collection selected now (`playground/page.tsx` 408, `chat/page.tsx` 244) |
| `UploadsOneByOne` | collection | a document is reindexed, a file uploaded meanwhile; the end of the reindexing lowers the `progress` that both share and that disables the upload button, and a second file goes out beside the first; `MaxCalls` and `MaxOps` of 3 show it (`collections/[id]/page.tsx` 587, 754) |
| `FiltersPreserved` | users | a new page size starts a second load without the filters (`users-provider.tsx` 148, against the comment at 162) |

Other races of the pages that the models contain and no text of the repository
rules out: a double click on a switch (the copy is flipped relative to itself), a
pipeline saved twice makes two versions, edits made during a save are replaced by
the reload after it, an example of the fine-tuning labels is saved with the query
in the field and the chunks of the query before, panels without a heading
(history of a watch, results of a run) show the answer that came last, files
dropped during an upload replace its list of progress, and a bulk action over
users that is refused for one of them leaves the others changed and the page as
it was.

### 6.5 Proofs

All for any set of pages, any rows and any number of requests in flight, clicks,
failures and foreign changes. The assumptions: there are rows, finitely many, and
at least two requests may be in flight (some pages are mounted with two)
(`BrowserAssumption`); the null value is no row, no value of a settings field and
none of the words that stand where null may stand (`FieldAssumption`,
`NullAssumption`); the bounds are naturals.

`ui` and `db` are records of another shape for every page, so an invariant is
stated for one page (`screen = "..." => ...`) and shown for the steps of that page;
`PageStays` proves, over all pages, that no step changes the page. `SendFills`,
`AskFills`, `AnswerFills` and `RestFrees` say once what sending, answering and
resuming do to the requests.

**`ConsoleProofs`: properties of one page.** Each invariant has three parts that
depend on each other: the state of the page, what the requests in flight carry,
and what the server has stored.

| theorem | property | invariant |
|---|---|---|
| `BoxesStayInside` | `BoxInsideImage` | `CanvasInv`: also the draft and the original of a drag under way are inside |
| `SavedExamplesContrast` | `ExamplesContrast` | `FtLabelInv`: the marks, every save in flight and every stored example keep positive and negatives apart |
| `SettingsSwitchBack` | `SwitchBackRestores` | `SettingsInv`: what the administrator gave can be worked out from the form and the recorded values (`Restorable`); only Databricks records any; a reading is out only while the form is hidden and nothing is recorded, and never beside a save (`SettingsCalls`). The first is claimed unless `moved` |
| `BadgesPredict` | `BadgePredictsServer` | `PolicyInv`: draft, requests and versions are policies. `BadgeAgrees` shows that editor and router agree on *every* policy with any number of stages |
| `BoxNumbersStayUnique` | `BoxNumbersUnique` | `LabelingInv`: numbers are apart, and bounded, in the editor, the requests and the images of the server |

`WeightSums` shows that the recursive sum of the weights is well defined, by way of
a least counterexample: the one form of induction over data used here.
`SettingsSwitchBack` holds because the form is hidden during a reload; were it
editable, an answer could replace the fields under recorded values.

**`ConsoleProofs`: panels.** `PanelsShowSelection` (`PanelShowsSelection`) rests on `PanelInv`, which
states for each of the five pages what the *requests in flight* know: the answer
for a folder carries the path it was asked for (`PickerPanel`), the tab polled is
the tab shown (`PolledPanel`), an application in flight carries a run of its own
sweep (`SweepPanel`), images that are not of the folder shown bear an older
request number (`ExplorerPanel`), and a deletion dialog excludes every other dialog
while its object is all that is selected (`ObjectChosen`).

**`ConsolePageProofs`, `ConsoleFlagProofs`: flags of all pages.** The theorems are
`SpinnersAreWaited` (`SpinnersWaited`) and `SubmitsAreSingle` (`OneSubmitAtATime`).
Neither property is inductive. That a flag is up only while its request is out
does not say *which* end lowers it when several handlers share a flag; that a form
is sent once follows from its flag only if the flag is up through all the requests
that the handler still awaits, although these are ordinary reloads to the network.
So the proofs describe what a page has in flight by *kinds* (`Kind`): the name of
the request, refined by the handler that awaits it ("awaited", "later", ...).
`Waits(p, net, K)` says that a request of a kind in `K` is out, `Alone` that at most
one is. A step keeps the kinds (`Same`), adds one (`More`), takes one away (`Less`),
puts one for another (`Swap`) or sends two (`Both`); the lemmas at the head of
`ConsolePageProofs` derive this from `Send`, `Rest` and the answers once, and the
rest of the proof is propositional.

For each page there is then one definition `<Page>Flags`, which relates every flag
to the kinds that lower it - "up exactly while one is out, and only one" for a flag
that also guards a button, "up while one is out" for a plain spinner - and a lemma
that it holds at mount, is kept by every step of the page, and gives both
properties. `FlagsInv` is their conjunction over all pages; `FlagsStart`,
`FlagsStep` and `FlagsEnough` put the pages together. Some pages need more than
kinds, namely what a request is about (`About`): which files a batch of the object
browser has still to upload, which answer of the playground or the chat is rated,
and which load of the explorer is out, since its operations await a load of their
own that the load of another folder may overtake.

Only model-checked: `OwnWritesShown`, which compares the page with the server's
state and so would need, for each page, an account of what every answer on its way
was computed from; and `ViewConverges` (liveness).

## 7. Session

### 7.1 Model

`AuthSession.tla` is `AuthProvider` (`features/auth/auth-context.tsx`) with the
guard, the login page, the page of the forced password change and the redirects
of `authFetch`. Stored tokens (`store`), `access` and `user` are three variables
that five asynchronous functions write: the initialisation of a page load, the
refresh timer, a login or password change, a logout, and the avatar. Each is a
process with a program counter; the server may refuse any of their requests.

| action | code |
|---|---|
| `InitStart`, `InitRefreshed`, `InitMe`, `InitFails`, `Reload` | the effect on mount: load the tokens, refresh them when nearly dead, `/me`, or give up; a full page load |
| `TimerFires`, `TimerAnswered` | the callback of `scheduleRefresh` |
| `Login`, `ChangePassword`, `SignTokens`, `SignMe` | `login`, the forced change, `establishSession` |
| `Logout`, `LogoutAnswered`, `CloseSession` | `logout`, and what the `catch` clauses clear |
| `SetAvatar`, `AvatarAnswered` | `setAvatar` |
| `Redirect`, `Destination` | the redirects of the guard, the login page, the home page and the password page |
| `TimePasses` | tokens age |

Token pairs have an owner, a name and a life (`fresh`, `ending`, `dead`), which
time shortens. `overlap` records that a function was started while another was
waiting, `stranded` that `/me` failed after a login had stored its tokens.

### 7.2 Properties and run

| property | says |
|---|---|
| `AuthTypeOK` | types, and that no function continues for a session that it has not |
| `OneSession` | at rest, without overlap and stranding: user, access token and stored tokens are all there or none, of one account and one pair |
| `LoadingEnds` | every page load gets past "Loading..." |
| `RoutesSettle` | the redirects come to rest on a page the session may see |

`auth_session` checks them with two accounts, three pairs of tokens and three user
actions, under weak fairness of the functions and redirects (the event loop and
the router run what is due; logins, clicks and the timer are not required). Three actions
allow a login, its loss or renewal, and a logout or second login.

Known limits: with overlapping functions a refresh that answers after a logout
stores its tokens again (`auth-context.tsx` 91); a login whose `/me` fails leaves
its tokens behind (162). `KeptAlive` states that a session is always renewed, as
the head of the file promises; it fails for tokens that have less than a minute to
live when they are loaded or issued (84).

### 7.3 Proof

`AuthProofs`, for any accounts, tokens and number of actions, from
`AuthAssumption` and `NullAssumption` (the null value is neither a token pair nor
an account). `OneSession` is not inductive: it speaks of the states at rest, and
what a continuation may assume depends on how far its function has come. `Phase`
says, for the one function that is under way, what it has written so far - e.g.
that after the tokens of a login are stored and before `/me` answers, the stored
pair is the one it holds, and that the timer's callback works on the account of
the stored pair. `SessionInv` is `AuthTypeOK` and, unless functions overlapped or
a login was stranded, `Phase`. `TypeStep` and `PhaseStep` prove its two halves
action by action; `SessionInvariance`, `SessionTypes` and `SessionIsOne` are the
theorems. `LoadingEnds` and `RoutesSettle` are liveness and only model-checked.

## 8. What is proved and what is only checked

Proved for every value of the constants: the theorems of sections 3.6, 4.3, 5.3,
6.5 and 7.3, some under hypotheses on the deployment (one worker, one API process,
one scan or request at a time) that are named there with what goes wrong without
them. The runs check the same properties on instances that satisfy the hypotheses.

Only model-checked:

* `QueuedJobSettles`, `DocumentSettles`, `WatchKeepsRunning`, `FileCollected`,
  `ViewConverges`, `LoadingEnds`, `RoutesSettle`: liveness under fairness is out of
  the prover's reach.
* `OwnWritesShown`: it relates page and server at rest on every page of the console;
  see section 6.5.

## 9. Not modelled

* Parsers, chunkers, image classification, embedding, rerank, retrieval and
  generation compute values and keep no state.
* Evaluation workers and sweeps, the worker and agent registries, deployments and
  external vector stores are in the plan.
* Server packages of rows with single-transaction handlers (users, keys, settings,
  feedback, annotations, pipelines): their endpoints appear as the effects and
  answers the pages use.
* Of the console: the displays of hosts and services, the overview, the table of
  permissions, terminals, file viewers and the component kit. They show what one
  request returns or pass one command on. Of modelled pages, the editors of single
  pipeline stages and routing rules, zoom, thumbnails, sorting and filters that
  only hide rows.
* The host agent and the extension servers: operating system calls and inference.

`PROJECT.json` lists every component with its status and reason.
