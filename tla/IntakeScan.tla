----------------------------- MODULE IntakeScan -----------------------------
(***************************************************************************)
(* The intake of a storage folder (run_scan): list the folder, skip the    *)
(* files the seen cache (rag_source_seen_files) knows, read, route and     *)
(* register the others, remember what became of each.  The same code runs  *)
(* for a watch and for a request of an administrator, so several scans of  *)
(* one folder may overlap.                                                 *)
(*                                                                         *)
(* Files are numbered in the order in which the source lists them.  A      *)
(* version of a file stands for its fingerprint (size and mtime) and for   *)
(* its bytes.  The routing policy is what decide() makes of it: for each   *)
(* file a collection, or none.  Collections are archived and opened again  *)
(* while all this goes on, and only an open one takes a file.              *)
(*                                                                         *)
(* Simplifications:                                                        *)
(*  - the listing, the policy and the cache are read in one step: between  *)
(*    them nothing is written;                                             *)
(*  - decide() reads the policy row the session already holds, so a scan   *)
(*    uses one version of the policy from its first to its last file;      *)
(*  - last_seen_at is left out: pruning may drop any row at any time;      *)
(*  - decide() and the check of its target see the same collections;       *)
(*  - a collection is archived, not deleted: deletion would take documents *)
(*    along, and to a scan a deleted collection is an archived one;        *)
(*  - a router that asks a server gets its answer.  Without one it has no  *)
(*    candidate, and the file is cached as one without a route, just as if *)
(*    its collection were archived;                                        *)
(*  - source_type, metadata and the decision log are left out, and so are  *)
(*    the jobs that the registered documents queue (module Ingestion);     *)
(*  - dry_run writes nothing and is left out.                              *)
(***************************************************************************)
EXTENDS Naturals, FiniteSets

CONSTANTS
    NFiles,       \* files that may ever be in the folder
    Scanners,     \* run_scan calls in flight: watchers and requests
    Collections,  \* primary keys of rag_collections
    Hashes,       \* values of content_hash
    None,         \* no collection, no row, no hash
    MaxVer,       \* bound: versions of a file
    MaxDrops,     \* bound: versions of all files together
    MaxPolicy,    \* bound: versions of the routing policy
    MaxFaults,    \* bound: failures and pruned rows
    ListMax,      \* MAX_LIST_ENTRIES
    ScanLimit,    \* SCAN_LIMIT, or the request's limit
    Content,      \* Content[f][v]: content_hash of version v of file f
    Route,        \* Route[p][A][f]: where version p of the policy sends f
                  \* while A are the open collections
    Closable,     \* bound: collections that are ever archived
    Faults        \* the failures that may happen in this instance

Files == 1..NFiles
Versions == 1..MaxVer
Policies == 1..MaxPolicy

ASSUME ScanBoundsAssumption ==
    /\ NFiles \in Nat /\ MaxVer \in Nat /\ MaxDrops \in Nat
    /\ MaxPolicy \in Nat \ {0} /\ MaxFaults \in Nat /\ ListMax \in Nat \ {0} /\ ScanLimit \in Nat \ {0}
ASSUME ContentAssumption == Content \in [Files -> [Versions -> Hashes]]
ASSUME RouteAssumption ==
    Route \in [Policies -> [SUBSET Collections -> [Files -> Collections \cup {None}]]]
ASSUME ClosableAssumption == Closable \subseteq Collections
ASSUME ScanNoneAssumption == None \notin Collections /\ None \notin Hashes
ASSUME FaultsAssumption ==
    Faults \subseteq {"prune", "fetch_fails", "put_fails", "abort"}

VARIABLES
    file,    \* file[f]: what the source holds under path f
    active,  \* active_version of the default routing policy
    latest,  \* highest version of the policy
    open,    \* collections with status 'active'; the others are archived
    seen,    \* seen[f]: the row of f in rag_source_seen_files
    docs,    \* registered documents; "queued" once their job is enqueued
    scan,    \* scan[s]: where the scan s stands
    faults   \* failures so far

vars == <<file, active, latest, open, seen, docs, scan, faults>>

Statuses == {"routed", "duplicate", "no_route", "failed"}
File == [present : BOOLEAN, ver : 0..MaxVer]
Seen == [ver : 0..MaxVer, status : Statuses, policy : Policies]
Doc == [hash : Hashes, col : Collections, by : Scanners,
        st : {"pending", "queued"}]
Scan == [pc : {"idle", "fetch", "check", "create", "put", "enqueue", "seen"},
         todo : SUBSET Files, entry : [Files -> 0..MaxVer],
         policy : Policies \cup {0}, hash : Hashes \cup {None},
         target : Collections \cup {None},
         status : Statuses \cup {"none"}]

Idle == [pc |-> "idle", todo |-> {}, entry |-> [f \in Files |-> 0],
         policy |-> 0, hash |-> None, target |-> None, status |-> "none"]

Init ==
    /\ file = [f \in Files |-> [present |-> FALSE, ver |-> 0]]
    /\ active = 1 /\ latest = 1
    /\ open = Collections
    /\ seen = [f \in Files |-> None]
    /\ docs = {}
    /\ scan = [s \in Scanners |-> Idle]
    /\ faults = 0

Fault(kind) == kind \in Faults /\ faults < MaxFaults /\ faults' = faults + 1

----------------------------------------------------------------------------
(* The folder and the policy.                                              *)

\* Somebody writes a new version of a file into the folder.
Drop(f) ==
    /\ file[f].ver < MaxVer
    /\ Cardinality({x \in Files \X Versions : x[2] <= file[x[1]].ver}) < MaxDrops
    /\ file' = [file EXCEPT ![f] = [present |-> TRUE, ver |-> @.ver + 1]]
    /\ UNCHANGED <<active, latest, open, seen, docs, scan, faults>>

Remove(f) ==
    /\ file[f].present
    /\ file' = [file EXCEPT ![f].present = FALSE]
    /\ UNCHANGED <<active, latest, open, seen, docs, scan, faults>>

\* A new version of the policy, active at once.
update_config ==
    /\ latest < MaxPolicy
    /\ latest' = latest + 1
    /\ active' = latest + 1
    /\ UNCHANGED <<file, open, seen, docs, scan, faults>>

\* Back to an earlier version.
set_active(p) ==
    /\ p \in 1..latest
    /\ p # active
    /\ active' = p
    /\ UNCHANGED <<file, latest, open, seen, docs, scan, faults>>

\* An administrator archives a collection, or makes it active again.
update_collection(c) ==
    /\ c \in Closable
    /\ open' = IF c \in open THEN open \ {c} ELSE open \cup {c}
    /\ UNCHANGED <<file, active, latest, seen, docs, scan, faults>>

\* prune_seen: rows nobody has touched for a long time.
prune_seen(f) ==
    /\ Fault("prune")
    /\ seen[f] # None
    /\ seen' = [seen EXCEPT ![f] = None]
    /\ UNCHANGED <<file, active, latest, open, docs, scan>>

----------------------------------------------------------------------------
(* One scan.                                                               *)

\* The first n members of a set of files, in the order of the listing.
FirstOf(S, n) == {f \in S : Cardinality({g \in S : g < f}) < n}

Listed == FirstOf({f \in Files : file[f].present}, ListMax)

\* True if the file is passed over unread.
should_skip_seen(f) ==
    /\ seen[f] # None
    /\ seen[f].ver = file[f].ver
    /\ \/ seen[f].status \in {"routed", "duplicate"}
       \/ seen[f].policy = active

\* Mutant: the limit cuts the listing before the cache is applied.
ToProcessCutFirst == {f \in FirstOf(Listed, ScanLimit) : ~should_skip_seen(f)}

\* The cache is applied to the whole listing; only what is left is limited.
ToProcess == FirstOf({f \in Listed : ~should_skip_seen(f)}, ScanLimit)

\* run_scan up to its loop.
run_scan(s) ==
    /\ scan[s].pc = "idle"
    /\ ToProcess # {}
    /\ scan' = [scan EXCEPT ![s] =
                  [Idle EXCEPT !.pc = "fetch", !.todo = ToProcess,
                               !.policy = active,
                               !.entry = [f \in Files |->
                                  IF f \in ToProcess THEN file[f].ver ELSE 0]]]
    /\ UNCHANGED <<file, active, latest, open, seen, docs, faults>>

Current(s) == CHOOSE f \in scan[s].todo : \A g \in scan[s].todo : f <= g

\* decide: what the policy of the scan says of the current file, now.
Target(s) == Route[scan[s].policy][open][Current(s)]

\* Mutant: the loop does not notice that it has come to the end.
NextFileEndless(s) ==
    [scan[s] EXCEPT !.pc = "fetch", !.todo = @ \ {Current(s)}, !.hash = None,
                    !.entry = [@ EXCEPT ![Current(s)] = 0], !.status = "none"]

\* The loop after the current file: the next one, or the report.
NextFile(s) ==
    LET left == scan[s].todo \ {Current(s)}
    IN  IF left = {} THEN Idle
        ELSE [scan[s] EXCEPT !.pc = "fetch", !.todo = left, !.hash = None,
                             !.entry = [@ EXCEPT ![Current(s)] = 0],
                             !.status = "none"]

Report(s, st) ==
    [scan[s] EXCEPT !.pc = "seen", !.target = None, !.status = st]

\* fetch_from_source reads what the file holds now, which may be newer than
\* the listing; a file that has gone is reported as failed.
fetch_from_source(s) ==
    /\ scan[s].pc = "fetch"
    /\ LET f == Current(s)
       IN  scan' = [scan EXCEPT ![s] =
                      IF file[f].present
                      THEN [@ EXCEPT !.pc = "check",
                                     !.hash = Content[f][file[f].ver]]
                      ELSE Report(s, "failed")]
    /\ UNCHANGED <<file, active, latest, open, seen, docs, faults>>

\* The source is down for a moment (502).
fetch_fails(s) ==
    /\ Fault("fetch_fails")
    /\ scan[s].pc = "fetch"
    /\ scan' = [scan EXCEPT ![s] = Report(s, "failed")]
    /\ UNCHANGED <<file, active, latest, open, seen, docs>>

Registered(h, c) == \E d \in docs : d.hash = h /\ d.col = c

\* Mutant: the cache is trusted and content_hash not looked up.
register_unchecked(s) ==
    /\ scan[s].pc = "check"
    /\ scan' = [scan EXCEPT ![s] =
                  IF Target(s) \notin open THEN Report(s, "no_route")
                  ELSE [@ EXCEPT !.pc = "create", !.target = Target(s)]]
    /\ UNCHANGED <<file, active, latest, open, seen, docs, faults>>

\* decide, then register_and_enqueue up to its duplicate check.  No target and
\* a target that is not active at this moment are refused alike, with 422.
register_check(s) ==
    /\ scan[s].pc = "check"
    /\ scan' = [scan EXCEPT ![s] =
                  IF Target(s) \notin open THEN Report(s, "no_route")
                  ELSE IF Registered(scan[s].hash, Target(s))
                  THEN Report(s, "duplicate")
                  ELSE [@ EXCEPT !.pc = "create", !.target = Target(s)]]
    /\ UNCHANGED <<file, active, latest, open, seen, docs, faults>>

NewDoc(s) == [hash |-> scan[s].hash, col |-> scan[s].target, by |-> s,
              st |-> "pending"]

\* create_pending_document commits the row before the bytes are stored.
register_create(s) ==
    /\ scan[s].pc = "create"
    /\ docs' = docs \cup {NewDoc(s)}
    /\ scan' = [scan EXCEPT ![s].pc = "put"]
    /\ UNCHANGED <<file, active, latest, open, seen, faults>>

register_put(s) ==
    /\ scan[s].pc = "put"
    /\ scan' = [scan EXCEPT ![s].pc = "enqueue"]
    /\ UNCHANGED <<file, active, latest, open, seen, docs, faults>>

\* put_object raises.  The rollback expires every row of the session, so the
\* next use of the source's row raises as well and ends the whole scan.
register_put_fails(s) ==
    /\ Fault("put_fails")
    /\ scan[s].pc = "put"
    /\ scan' = [scan EXCEPT ![s] = Idle]
    /\ UNCHANGED <<file, active, latest, open, seen, docs>>

register_enqueue(s) ==
    /\ scan[s].pc = "enqueue"
    /\ docs' = (docs \ {NewDoc(s)}) \cup {[NewDoc(s) EXCEPT !.st = "queued"]}
    /\ scan' = [scan EXCEPT ![s] = Report(s, "routed")]
    /\ UNCHANGED <<file, active, latest, open, seen, faults>>

\* Mutant: the cache keeps the fingerprint the file has after it was read.
upsert_seen_restat(s) ==
    /\ scan[s].pc = "seen"
    /\ seen' = [seen EXCEPT ![Current(s)] =
                  [ver |-> file[Current(s)].ver, status |-> scan[s].status,
                   policy |-> scan[s].policy]]
    /\ scan' = [scan EXCEPT ![s] = NextFile(s)]
    /\ UNCHANGED <<file, active, latest, open, docs, faults>>

\* The cache keeps the fingerprint of the listing, not of what was read.
upsert_seen(s) ==
    /\ scan[s].pc = "seen"
    /\ seen' = [seen EXCEPT ![Current(s)] =
                  [ver |-> scan[s].entry[Current(s)], status |-> scan[s].status,
                   policy |-> scan[s].policy]]
    /\ scan' = [scan EXCEPT ![s] = NextFile(s)]
    /\ UNCHANGED <<file, active, latest, open, docs, faults>>

\* The process is killed, or the database refuses one of the scan's writes.
scan_aborts(s) ==
    /\ Fault("abort")
    /\ scan[s].pc # "idle"
    /\ scan' = [scan EXCEPT ![s] = Idle]
    /\ UNCHANGED <<file, active, latest, open, seen, docs>>

----------------------------------------------------------------------------
Environment ==
    \/ \E f \in Files : Drop(f) \/ Remove(f) \/ prune_seen(f)
    \/ update_config
    \/ \E p \in Policies : set_active(p)
    \/ \E c \in Collections : update_collection(c)

Step(s) ==
    \/ fetch_from_source(s) \/ register_check(s) \/ register_create(s)
    \/ register_put(s) \/ register_enqueue(s) \/ upsert_seen(s)

Failure(s) == fetch_fails(s) \/ register_put_fails(s) \/ scan_aborts(s)

Next ==
    \/ Environment
    \/ \E s \in Scanners : run_scan(s) \/ Step(s) \/ Failure(s)

Spec == Init /\ [][Next]_vars

\* A watch starts a scan again and again, and a scan that runs goes on.
\* Nobody has to change the folder, the policy or a collection, and nothing has
\* to fail.
FairSpec ==
    /\ Spec
    /\ \A s \in Scanners : WF_vars(run_scan(s)) /\ WF_vars(Step(s))

----------------------------------------------------------------------------
(* Properties.                                                             *)

IntakeTypeOK ==
    /\ file \in [Files -> File]
    /\ active \in Policies /\ latest \in Policies /\ active <= latest
    /\ open \subseteq Collections
    /\ seen \in [Files -> Seen \cup {None}]
    /\ docs \subseteq Doc
    /\ scan \in [Scanners -> Scan]
    /\ \A s \in Scanners : scan[s].pc = "idle" <=> scan[s].todo = {}
    /\ faults \in 0..MaxFaults

Bytes(f) == Content[f][file[f].ver]

Ingested(h) == \E d \in docs : d.hash = h /\ d.st = "queued"

\* A scan that has inserted the document and has still to enqueue its job.
Registering(h) ==
    \E s \in Scanners : scan[s].pc \in {"put", "enqueue"} /\ scan[s].hash = h

\* A file the cache calls routed or duplicate is really in the system: its
\* present bytes belong to a document whose ingestion was queued, or is about
\* to be by a scan that is still running (should_skip_seen never reads it again).
SeenMeansIngested ==
    \A f \in Files :
        /\ file[f].present /\ seen[f] # None
        /\ seen[f].ver = file[f].ver
        /\ seen[f].status \in {"routed", "duplicate"}
        => Ingested(Bytes(f)) \/ Registering(Bytes(f))

\* The cache is only a cache: with rows pruned, files rewritten while they are
\* scanned and policies changed, no collection gets the same content twice.
NoDoubleIntake ==
    \A d, e \in docs : d.hash = e.hash /\ d.col = e.col => d = e

\* A document that was inserted, and no scan is left to enqueue its job.
CutShort(h) ==
    ~Registering(h) /\ \E d \in docs : d.hash = h /\ d.st = "pending"

\* There is an active collection for the file, by the policy of today.
Routed(f) == Route[active][open][f] \in open

\* The cache passes the file over as one without a route by the same policy.
PassedOver(f) ==
    /\ seen[f] # None
    /\ seen[f].ver = file[f].ver
    /\ seen[f].status = "no_route" /\ seen[f].policy = active

\* should_skip_seen passes over a file that had no route, since "the same policy
\* gives the same result" (scan.py): what is passed over has no route today.
\* The code does not keep this: the collection may have been archived when the
\* file was scanned, and be active again.
NoRouteStands == \A f \in Files : file[f].present /\ PassedOver(f) => ~Routed(f)

\* Whatever lies in the folder, unchanged and with a route to an active
\* collection, is ingested in the end: files beyond the limit of one scan by a
\* later one, files without a route once the policy has one, files rewritten
\* during a scan by the next.  There are two exceptions.  One is a file whose
\* registration a failure cut short: the document it left behind makes every
\* later scan report a duplicate.  The other is a file that was scanned while
\* its collection was archived: while the policy is the same, the cache passes
\* it over although the collection is active again (NoRouteStands fails).
FileCollected ==
    \A f \in Files, v \in Versions :
        LET waiting == file[f] = [present |-> TRUE, ver |-> v] /\ Routed(f)
        IN  waiting ~> \/ ~waiting
                       \/ Ingested(Content[f][v]) \/ CutShort(Content[f][v])
                       \/ PassedOver(f)
=============================================================================
