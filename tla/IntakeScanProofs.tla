-------------------------- MODULE IntakeScanProofs --------------------------
(***************************************************************************)
(* The intake for any number of files, versions, collections, policies and *)
(* scans in flight.  The first part needs nothing but the assumptions on   *)
(* the constants; the results about lost and doubled documents name the    *)
(* failures and the overlap they exclude.                                  *)
(***************************************************************************)
EXTENDS IntakeScan, WellFoundedInduction, TLAPS

\* A nonempty set of file numbers has a first one: the loop of run_scan has a
\* current file as long as it has files at all.
LEMMA Smallest ==
    ASSUME NEW S \in SUBSET Nat, S # {}
    PROVE  \E f \in S : \A g \in S : f <= g
<1>1. PICK f \in S : \A g \in S : ~(<<g, f>> \in OpToRel(<, Nat))
  BY NatLessThanWellFounded, WFMin
<1>2. ASSUME NEW g \in S, ~(<<g, f>> \in OpToRel(<, Nat)) PROVE f <= g
  BY <1>2 DEF OpToRel
<1> QED
  BY <1>1, <1>2, Zenon

LEMMA CurrentInTodo ==
    ASSUME NEW s \in Scanners, scan[s].todo \subseteq Files, scan[s].todo # {}
    PROVE  Current(s) \in scan[s].todo
<1>1. scan[s].todo \in SUBSET Nat
  BY DEF Files
<1>2. \E f \in scan[s].todo : \A g \in scan[s].todo : f <= g
  BY <1>1, Smallest
<1> QED
  BY <1>2 DEF Current

----------------------------------------------------------------------------
(* Types.                                                                  *)

\* What a file in the folder holds has a version; what a scan has worked out
\* so far is there when the next step of run_scan needs it.
Hashed == {"check", "create", "put", "enqueue"}

FilesHaveVersions == \A f \in Files : file[f].present => file[f].ver \in Versions

ScanProgress ==
    \A s \in Scanners :
        /\ scan[s].pc # "idle" => scan[s].policy \in Policies
        /\ scan[s].pc \in Hashed => scan[s].hash \in Hashes
        /\ scan[s].pc \in {"create", "put", "enqueue"} => scan[s].target \in Collections
        /\ scan[s].pc = "seen" => scan[s].status \in Statuses

TypeInv == IntakeTypeOK /\ FilesHaveVersions /\ ScanProgress

LEMMA ConstantTypes ==
    /\ NFiles \in Nat /\ MaxVer \in Nat /\ MaxPolicy \in Nat \ {0}
    /\ MaxFaults \in Nat
    /\ \A f \in Files, v \in Versions : Content[f][v] \in Hashes
    /\ \A p \in Policies, A \in SUBSET Collections, f \in Files :
          Route[p][A][f] \in Collections \cup {None}
BY ScanBoundsAssumption, ContentAssumption, RouteAssumption

\* What depends on the state of one scan only.
LEMMA SameScan ==
    ASSUME NEW s \in Scanners, scan'[s] = scan[s]
    PROVE  Current(s)' = Current(s) /\ NewDoc(s)' = NewDoc(s)
BY DEF Current, NewDoc

LEMMA TypeInit == Init => TypeInv
BY ConstantTypes DEF Init, TypeInv, IntakeTypeOK, FilesHaveVersions,
   ScanProgress, Idle, File, Scan, Policies, Hashed

\* A step changes scan s and no other.
OnlyScan(s) ==
    /\ scan' \in [Scanners -> Scan]
    /\ \A t \in Scanners \ {s} : scan'[t] = scan[t]

ScansOK ==
    /\ scan \in [Scanners -> Scan]
    /\ \A t \in Scanners : scan[t].pc = "idle" <=> scan[t].todo = {}
    /\ ScanProgress

\* Such a step leaves the scans well formed if it leaves s so.
LEMMA ScanMoves ==
    ASSUME TypeInv, NEW s \in Scanners, OnlyScan(s),
           scan'[s].pc = "idle" <=> scan'[s].todo = {},
           scan'[s].pc # "idle" => scan'[s].policy \in Policies,
           scan'[s].pc \in Hashed => scan'[s].hash \in Hashes,
           scan'[s].pc \in {"create", "put", "enqueue"} => scan'[s].target \in Collections,
           scan'[s].pc = "seen" => scan'[s].status \in Statuses
    PROVE  ScansOK'
<1>1. ScanProgress'
  BY DEF ScanProgress, TypeInv, OnlyScan
<1> QED
  BY <1>1 DEF TypeInv, IntakeTypeOK, OnlyScan, ScansOK

LEMMA Running ==
    ASSUME TypeInv, NEW s \in Scanners, scan[s].pc # "idle"
    PROVE  /\ scan[s] \in Scan /\ scan[s].todo \in SUBSET Files
           /\ Current(s) \in scan[s].todo /\ Current(s) \in Files
           /\ scan[s].policy \in Policies
<1>1. scan[s] \in Scan /\ scan[s].todo # {} /\ scan[s].policy \in Policies
  BY DEF TypeInv, IntakeTypeOK, ScanProgress
<1>2. scan[s].todo \in SUBSET Files
  BY <1>1 DEF Scan
<1>3. Current(s) \in scan[s].todo
  BY <1>1, <1>2, CurrentInTodo
<1> QED
  BY <1>1, <1>2, <1>3

\* The scan goes on with the same file.
LEMMA ScanGoesOn ==
    ASSUME TypeInv, NEW s \in Scanners, scan[s].pc # "idle", OnlyScan(s),
           scan'[s].todo = scan[s].todo, scan'[s].policy = scan[s].policy,
           scan'[s].pc \in Hashed \cup {"seen"},
           scan'[s].pc \in Hashed => scan'[s].hash \in Hashes,
           scan'[s].pc \in {"create", "put", "enqueue"} => scan'[s].target \in Collections,
           scan'[s].pc = "seen" => scan'[s].status \in Statuses
    PROVE  ScansOK'
<1>1. scan[s].todo # {} /\ scan[s].policy \in Policies
  BY Running DEF TypeInv, IntakeTypeOK
<1>2. scan'[s].pc # "idle"
  BY DEF Hashed
<1> QED
  BY <1>1, <1>2, ScanMoves

\* The scan is over.
LEMMA ScanEnds ==
    ASSUME TypeInv, NEW s \in Scanners, scan' = [scan EXCEPT ![s] = Idle]
    PROVE  ScansOK'
<1>1. Idle \in Scan /\ Idle.pc = "idle" /\ Idle.todo = {}
  BY ConstantTypes DEF Idle, Scan
<1>2. OnlyScan(s) /\ scan'[s] = Idle
  BY <1>1 DEF TypeInv, IntakeTypeOK, OnlyScan
<1>3. Idle.pc \notin Hashed
  BY <1>1 DEF Hashed
<1> QED
  BY <1>1, <1>2, <1>3, ScanMoves

\* The loop of run_scan goes to the next file or ends.
LEMMA NextFileType ==
    ASSUME TypeInv, NEW s \in Scanners, scan[s].pc # "idle",
           scan' = [scan EXCEPT ![s] = NextFile(s)]
    PROVE  ScansOK'
<1> DEFINE left == scan[s].todo \ {Current(s)}
<1>1. CASE left = {}
  BY <1>1, ScanEnds DEF NextFile
<1>2. CASE left # {}
  <2>1. /\ scan[s] \in Scan /\ scan[s].policy \in Policies
        /\ left \in SUBSET Files
    BY Running
  <2>2. [scan[s].entry EXCEPT ![Current(s)] = 0] \in [Files -> 0..MaxVer]
    <3>1. scan[s].entry \in [Files -> 0..MaxVer]
      BY <2>1 DEF Scan
    <3>2. 0 \in 0..MaxVer
      BY ConstantTypes
    <3> QED
      BY <3>1, <3>2
  <2>3. /\ NextFile(s) \in Scan /\ NextFile(s).pc = "fetch"
        /\ NextFile(s).todo = left /\ NextFile(s).policy = scan[s].policy
    BY <1>2, <2>1, <2>2 DEF NextFile, Scan
  <2>4. NextFile(s).pc \notin Hashed \cup {"idle", "seen"}
    BY <2>3 DEF Hashed
  <2>5. OnlyScan(s) /\ scan'[s] = NextFile(s)
    BY <2>3 DEF TypeInv, IntakeTypeOK, OnlyScan
  <2> HIDE DEF left
  <2> QED
    BY <1>2, <2>1, <2>3, <2>4, <2>5, ScanMoves DEF Hashed
<1> QED
  BY <1>1, <1>2

LEMMA FirstOfSubset == \A S, n : FirstOf(S, n) \subseteq S
BY DEF FirstOf

LEMMA ToProcessFiles == ToProcess \subseteq {f \in Files : file[f].present}
BY FirstOfSubset DEF ToProcess, Listed

LEMMA EnvironmentType ==
    ASSUME TypeInv, Environment
    PROVE  TypeInv'
<1> USE DEF TypeInv, IntakeTypeOK
<1>0. /\ file \in [Files -> File] /\ seen \in [Files -> Seen \cup {None}]
      /\ faults \in 0..MaxFaults /\ active \in Policies /\ latest \in Policies
      /\ open \subseteq Collections
  OBVIOUS
<1>1. scan' = scan
  BY DEF Environment, Drop, Remove, prune_seen, update_config, set_active,
     update_collection
<1>2. ScanProgress'
  BY <1>1 DEF ScanProgress
<1>3. ASSUME NEW f \in Files, Drop(f) PROVE TypeInv'
  <2>1. file[f].ver + 1 \in Versions /\ file[f].ver + 1 \in 0..MaxVer
    BY <1>0, <1>3, ConstantTypes DEF Drop, File, Versions
  <2>2. file' \in [Files -> File] /\ FilesHaveVersions'
    BY <1>0, <1>3, <2>1 DEF Drop, File, FilesHaveVersions
  <2> QED
    BY <1>2, <1>3, <2>2 DEF Drop
<1>4. ASSUME NEW f \in Files, Remove(f) PROVE TypeInv'
  <2>1. file' \in [Files -> File] /\ FilesHaveVersions'
    BY <1>0, <1>4 DEF Remove, File, FilesHaveVersions
  <2> QED
    BY <1>2, <1>4, <2>1 DEF Remove
<1>5. ASSUME NEW f \in Files, prune_seen(f) PROVE TypeInv'
  <2>1. faults' \in 0..MaxFaults
    BY <1>0, <1>5, ConstantTypes DEF prune_seen, Fault
  <2> QED
    BY <1>0, <1>2, <1>5, <2>1 DEF prune_seen, FilesHaveVersions
<1>6. ASSUME update_config PROVE TypeInv'
  <2>1. latest' \in Policies /\ active' \in Policies /\ active' <= latest'
    BY <1>0, <1>6, ConstantTypes DEF update_config, Policies
  <2> QED
    BY <1>2, <1>6, <2>1 DEF update_config, FilesHaveVersions
<1>7. ASSUME NEW p \in Policies, set_active(p) PROVE TypeInv'
  <2>1. p <= latest
    BY <1>0, <1>7 DEF set_active, Policies
  <2> QED
    BY <1>2, <1>7, <2>1 DEF set_active, FilesHaveVersions
<1>8. ASSUME NEW c \in Collections, update_collection(c) PROVE TypeInv'
  BY <1>0, <1>2, <1>8 DEF update_collection, FilesHaveVersions
<1> QED
  BY <1>3, <1>4, <1>5, <1>6, <1>7, <1>8 DEF Environment

LEMMA ScanType ==
    ASSUME TypeInv, NEW s \in Scanners, run_scan(s) \/ Step(s) \/ Failure(s)
    PROVE  TypeInv'
<1>0. /\ file \in [Files -> File] /\ seen \in [Files -> Seen \cup {None}]
      /\ faults \in 0..MaxFaults /\ active \in Policies
      /\ open \subseteq Collections
      /\ scan \in [Scanners -> Scan] /\ docs \subseteq Doc /\ scan[s] \in Scan
  BY DEF TypeInv, IntakeTypeOK
<1> DEFINE Others == UNCHANGED <<file, active, latest, open, seen, docs, faults>>
<1>1. ASSUME ScansOK', Others PROVE TypeInv'
  BY <1>1 DEF ScansOK, TypeInv, IntakeTypeOK, FilesHaveVersions
<1>2. CASE run_scan(s)
  <2> DEFINE e == [f \in Files |-> IF f \in ToProcess THEN file[f].ver ELSE 0]
             r == [Idle EXCEPT !.pc = "fetch", !.todo = ToProcess,
                               !.policy = active, !.entry = e]
  <2>1. e \in [Files -> 0..MaxVer]
    BY <1>0, ConstantTypes DEF File
  <2>2. r \in Scan /\ r.pc = "fetch" /\ r.todo = ToProcess /\ r.policy = active
    BY <1>0, <2>1, ToProcessFiles DEF Scan, Idle
  <2> HIDE DEF e
  <2>3. scan' = [scan EXCEPT ![s] = r] /\ ToProcess # {}
    BY <1>2 DEF run_scan, e
  <2> HIDE DEF r
  <2>4. OnlyScan(s) /\ scan'[s] = r
    BY <1>0, <2>2, <2>3 DEF OnlyScan
  <2>5. r.pc \notin Hashed \cup {"idle", "seen"}
    BY <2>2 DEF Hashed
  <2>6. ScansOK'
    BY <1>0, <2>2, <2>3, <2>4, <2>5, ScanMoves DEF Hashed
  <2> QED
    BY <1>1, <1>2, <2>6 DEF run_scan
<1>3. CASE fetch_from_source(s)
  <2>1. scan[s].pc # "idle" /\ Current(s) \in Files
    BY <1>3, Running DEF fetch_from_source
  <2>2. file[Current(s)].present
          => Content[Current(s)][file[Current(s)].ver] \in Hashes
    BY <2>1, ConstantTypes DEF TypeInv, FilesHaveVersions
  <2>3. /\ OnlyScan(s)
        /\ scan'[s].todo = scan[s].todo /\ scan'[s].policy = scan[s].policy
        /\ \/ scan'[s].pc = "check" /\ scan'[s].hash \in Hashes
           \/ scan'[s].pc = "seen" /\ scan'[s].status \in Statuses
    BY <1>0, <1>3, <2>2 DEF fetch_from_source, Report, OnlyScan, Scan, Statuses
  <2>4. ScansOK'
    BY <2>1, <2>3, ScanGoesOn DEF Hashed
  <2> QED
    BY <1>1, <1>3, <2>4 DEF fetch_from_source
<1>4. CASE register_check(s)
  <2>1. scan[s].pc # "idle"
    BY <1>4 DEF register_check
  <2>2. scan[s].hash \in Hashes
    BY <1>4 DEF register_check, TypeInv, ScanProgress, Hashed
  <2>3. /\ OnlyScan(s)
        /\ scan'[s].todo = scan[s].todo /\ scan'[s].policy = scan[s].policy
        /\ \/ /\ scan'[s].pc = "create" /\ scan'[s].hash \in Hashes
              /\ scan'[s].target \in Collections
           \/ scan'[s].pc = "seen" /\ scan'[s].status \in Statuses
    BY <1>0, <1>4, <2>1, <2>2
       DEF register_check, Report, OnlyScan, Scan, Statuses
  <2>4. ScansOK'
    BY <2>1, <2>3, ScanGoesOn DEF Hashed
  <2> QED
    BY <1>1, <1>4, <2>4 DEF register_check
<1>5. CASE register_put(s) \/ register_create(s) \/ register_enqueue(s)
  <2>1. /\ scan[s].pc # "idle" /\ scan[s].hash \in Hashes
        /\ scan[s].target \in Collections
    BY <1>5 DEF register_put, register_create, register_enqueue, TypeInv,
       ScanProgress, Hashed
  <2>2. /\ OnlyScan(s)
        /\ scan'[s].todo = scan[s].todo /\ scan'[s].policy = scan[s].policy
        /\ \/ /\ scan'[s].pc \in {"put", "enqueue"} /\ scan'[s].hash \in Hashes
              /\ scan'[s].target \in Collections
           \/ scan'[s].pc = "seen" /\ scan'[s].status \in Statuses
    <3>1. CASE register_put(s)
      BY <1>0, <2>1, <3>1 DEF register_put, OnlyScan, Scan
    <3>2. CASE register_create(s)
      BY <1>0, <2>1, <3>2 DEF register_create, OnlyScan, Scan
    <3>3. CASE register_enqueue(s)
      BY <1>0, <3>3 DEF register_enqueue, Report, OnlyScan, Scan, Statuses
    <3> QED
      BY <1>5, <3>1, <3>2, <3>3
  <2>3. ScansOK'
    BY <2>1, <2>2, ScanGoesOn DEF Hashed
  <2>4. docs' \subseteq Doc
    BY <1>0, <1>5, <2>1
       DEF register_put, register_create, register_enqueue, NewDoc, Doc
  <2> QED
    BY <1>5, <2>3, <2>4 DEF register_put, register_create, register_enqueue,
       ScansOK, TypeInv, IntakeTypeOK, FilesHaveVersions
<1>6. CASE upsert_seen(s)
  <2>1. scan[s].pc # "idle" /\ scan[s].policy \in Policies /\ Current(s) \in Files
    BY <1>6, Running DEF upsert_seen
  <2>2. ScansOK'
    BY <1>6, <2>1, NextFileType DEF upsert_seen
  <2>3. scan[s].status \in Statuses /\ scan[s].entry[Current(s)] \in 0..MaxVer
    BY <1>0, <1>6, <2>1 DEF upsert_seen, TypeInv, ScanProgress, Scan
  <2>4. seen' \in [Files -> Seen \cup {None}]
    BY <1>0, <1>6, <2>1, <2>3 DEF upsert_seen, Seen
  <2> QED
    BY <1>6, <2>2, <2>4
       DEF upsert_seen, ScansOK, TypeInv, IntakeTypeOK, FilesHaveVersions
<1>7. CASE fetch_fails(s)
  <2>1. scan[s].pc # "idle"
    BY <1>7 DEF fetch_fails
  <2>2. /\ OnlyScan(s)
        /\ scan'[s].todo = scan[s].todo /\ scan'[s].policy = scan[s].policy
        /\ scan'[s].pc = "seen" /\ scan'[s].status \in Statuses
    BY <1>0, <1>7 DEF fetch_fails, Report, OnlyScan, Scan, Statuses
  <2>3. ScansOK'
    BY <2>1, <2>2, ScanGoesOn DEF Hashed
  <2>4. faults' \in 0..MaxFaults
    BY <1>0, <1>7, ConstantTypes DEF fetch_fails, Fault
  <2> QED
    BY <1>7, <2>3, <2>4
       DEF fetch_fails, ScansOK, TypeInv, IntakeTypeOK, FilesHaveVersions
<1>8. CASE register_put_fails(s) \/ scan_aborts(s)
  <2>1. ScansOK'
    BY <1>8, ScanEnds DEF register_put_fails, scan_aborts
  <2>2. faults' \in 0..MaxFaults
    BY <1>0, <1>8, ConstantTypes DEF register_put_fails, scan_aborts, Fault
  <2> QED
    BY <1>8, <2>1, <2>2 DEF register_put_fails, scan_aborts, ScansOK, TypeInv,
       IntakeTypeOK, FilesHaveVersions
<1> QED
  BY <1>2, <1>3, <1>4, <1>5, <1>6, <1>7, <1>8 DEF Step, Failure

LEMMA TypeInvariance == Spec => []TypeInv
<1>1. TypeInv /\ UNCHANGED vars => TypeInv'
  BY DEF vars, TypeInv, IntakeTypeOK, FilesHaveVersions, ScanProgress
<1>2. TypeInv /\ Next => TypeInv'
  BY EnvironmentType, ScanType DEF Next
<1> QED
  BY <1>1, <1>2, TypeInit, PTL DEF Spec

\* run_scan and the handlers around it keep every column and every local
\* variable within its type, for any number of scans in flight.
THEOREM IntakeTypes == Spec => []IntakeTypeOK
<1>1. TypeInv => IntakeTypeOK
  BY DEF TypeInv
<1> QED
  BY <1>1, TypeInvariance, PTL

----------------------------------------------------------------------------
(* The seen cache.                                                         *)

Handled == {"routed", "duplicate"}

HasDoc(h) == \E d \in docs : d.hash = h

\* From the download to the report the scan knows the hash of what it read.
HoldsHash(s) ==
    scan[s].pc \in Hashed \/ (scan[s].pc = "seen" /\ scan[s].status \in Handled)

\* No fingerprint, of a listing or of the cache, is newer than the file.
FingerprintsOld ==
    \A f \in Files :
        /\ \A s \in Scanners : scan[s].entry[f] <= file[f].ver
        /\ seen[f] # None => seen[f].ver <= file[f].ver

\* If the file is still what the listing showed, what was read is what it holds.
HashCurrent ==
    \A s \in Scanners :
        HoldsHash(s) /\ scan[s].entry[Current(s)] = file[Current(s)].ver
            => scan[s].hash = Bytes(Current(s))

\* What a scan reports as routed or as a duplicate has a document.
ReportHasDoc ==
    \A s \in Scanners :
        scan[s].pc = "seen" /\ scan[s].status \in Handled => HasDoc(scan[s].hash)

\* And so has what the cache calls routed or a duplicate, while it is current.
SeenHasDoc ==
    \A f \in Files :
        /\ seen[f] # None
        /\ seen[f].ver = file[f].ver
        /\ seen[f].status \in Handled
        => HasDoc(Bytes(f))

SeenInv == FingerprintsOld /\ HashCurrent /\ ReportHasDoc /\ SeenHasDoc

\* A document that waits for its job belongs to the scan that inserted it, and
\* that scan is about to queue the job (it stands in put or enqueue).
PendingOwned ==
    \A d \in docs : d.st = "pending" =>
        scan[d.by].pc \in {"put", "enqueue"} /\ d = NewDoc(d.by)

\* The failures that leave a document without its job are excluded.
NothingCutShort == "put_fails" \notin Faults /\ "abort" \notin Faults

LEMMA SeenInit == Init => SeenInv /\ PendingOwned
BY DEF Init, SeenInv, FingerprintsOld, HashCurrent, ReportHasDoc, SeenHasDoc,
   PendingOwned, HoldsHash, Hashed, Idle, Statuses, Handled

\* A step of scan s keeps the invariant if it keeps what is said of s and of
\* the row of the cache it writes.
LEMMA SeenFrame ==
    ASSUME TypeInv, SeenInv, NEW s \in Scanners, OnlyScan(s), file' = file,
           \A h : HasDoc(h) => HasDoc(h)',
           \A f \in Files : scan'[s].entry[f] <= file[f].ver,
           HoldsHash(s)' /\ scan'[s].entry[Current(s)'] = file[Current(s)'].ver
               => scan'[s].hash = Bytes(Current(s)'),
           scan'[s].pc = "seen" /\ scan'[s].status \in Handled
               => HasDoc(scan[s].hash)',
           \A f \in Files : seen'[f] # seen[f] /\ seen'[f] # None =>
               /\ seen'[f].ver <= file[f].ver
               /\ seen'[f].ver = file[f].ver /\ seen'[f].status \in Handled
                    => HasDoc(Bytes(f))'
    PROVE  SeenInv'
<1>1. \A f : Bytes(f)' = Bytes(f)
  BY DEF Bytes
<1>2. FingerprintsOld'
  BY DEF SeenInv, FingerprintsOld, OnlyScan
<1>3. ASSUME NEW t \in Scanners, t # s
      PROVE  HoldsHash(t)' = HoldsHash(t) /\ Current(t)' = Current(t)
             /\ scan'[t] = scan[t]
  BY <1>3, SameScan DEF OnlyScan, HoldsHash
<1>4. HashCurrent'
  BY <1>1, <1>3 DEF SeenInv, HashCurrent, Bytes
<1>5. ReportHasDoc'
  BY <1>3 DEF SeenInv, ReportHasDoc, HasDoc
<1>6. SeenHasDoc'
  BY <1>1 DEF SeenInv, SeenHasDoc
<1> QED
  BY <1>2, <1>4, <1>5, <1>6 DEF SeenInv

LEMMA SeenEnvironment ==
    ASSUME TypeInv, SeenInv, Environment
    PROVE  SeenInv'
<1>1. scan' = scan /\ docs' = docs
  BY DEF Environment, Drop, Remove, prune_seen, update_config, set_active,
     update_collection
<1>2. \A s \in Scanners : /\ HoldsHash(s)' = HoldsHash(s)
                          /\ Current(s)' = Current(s)
  BY <1>1, SameScan DEF HoldsHash
<1>3. \A h : HasDoc(h)' = HasDoc(h)
  BY <1>1 DEF HasDoc
<1>4. ReportHasDoc'
  BY <1>1, <1>3 DEF SeenInv, ReportHasDoc
<1>5. \A s \in Scanners : HoldsHash(s) => Current(s) \in Files
  BY Running DEF HoldsHash, Hashed
<1>6. /\ file \in [Files -> File] /\ seen \in [Files -> Seen \cup {None}]
      /\ scan \in [Scanners -> Scan]
  BY DEF TypeInv, IntakeTypeOK
<1>7. \A f \in Files : /\ file[f].ver \in Nat
                       /\ seen[f] # None => seen[f].ver \in Nat
                       /\ \A s \in Scanners : scan[s].entry[f] \in Nat
  BY <1>6, ConstantTypes DEF File, Seen, Scan
<1>8. ASSUME NEW f \in Files, Drop(f) PROVE SeenInv'
  <2>1. /\ seen' = seen
        /\ \A g \in Files : /\ g # f => file'[g] = file[g]
                            /\ g = f => file'[g].ver = file[g].ver + 1
    BY <1>6, <1>8 DEF Drop
  <2>2. FingerprintsOld'
    BY <1>1, <1>7, <2>1 DEF SeenInv, FingerprintsOld
  <2>3. HashCurrent'
    <3> SUFFICES ASSUME NEW s \in Scanners, HoldsHash(s),
                        scan[s].entry[Current(s)] = file'[Current(s)].ver
                 PROVE  scan[s].hash = Bytes(Current(s))'
      BY <1>1, <1>2 DEF HashCurrent, Bytes
    <3>1. Current(s) \in Files /\ Current(s) # f
      BY <1>5, <1>7, <2>1 DEF SeenInv, FingerprintsOld
    <3> QED
      BY <2>1, <1>2, <3>1 DEF SeenInv, HashCurrent, Bytes
  <2>4. SeenHasDoc'
    <3> SUFFICES ASSUME NEW g \in Files, seen[g] # None,
                        seen[g].ver = file'[g].ver, seen[g].status \in Handled
                 PROVE  HasDoc(Bytes(g)')
      BY <1>3, <2>1 DEF SeenHasDoc, HasDoc
    <3>1. g # f
      BY <1>7, <2>1 DEF SeenInv, FingerprintsOld
    <3> QED
      BY <2>1, <3>1 DEF SeenInv, SeenHasDoc, Bytes
  <2> QED
    BY <1>4, <2>2, <2>3, <2>4 DEF SeenInv
<1>9. ASSUME \A f \in Files : file'[f].ver = file[f].ver,
             \A f \in Files : seen'[f] = seen[f] \/ seen'[f] = None
      PROVE  SeenInv'
  <2>1. \A f \in Files : Bytes(f)' = Bytes(f)
    BY <1>9 DEF Bytes
  <2>2. FingerprintsOld'
    BY <1>1, <1>9 DEF SeenInv, FingerprintsOld
  <2>3. HashCurrent'
    BY <1>1, <1>2, <1>5, <1>9, <2>1 DEF SeenInv, HashCurrent
  <2>4. SeenHasDoc'
    BY <1>3, <1>9, <2>1 DEF SeenInv, SeenHasDoc
  <2> QED
    BY <1>4, <2>2, <2>3, <2>4 DEF SeenInv
<1>10. ASSUME NEW f \in Files, Remove(f) \/ prune_seen(f) PROVE SeenInv'
  <2>1. CASE Remove(f)
    <3>1. \A g \in Files : file'[g].ver = file[g].ver
      BY <1>6, <2>1 DEF Remove, File
    <3> QED
      BY <1>9, <2>1, <3>1 DEF Remove
  <2>2. CASE prune_seen(f)
    BY <1>6, <1>9, <2>2 DEF prune_seen
  <2> QED
    BY <1>10, <2>1, <2>2
<1>11. CASE \/ update_config \/ \E p \in Policies : set_active(p)
            \/ \E c \in Collections : update_collection(c)
  BY <1>9, <1>11 DEF update_config, set_active, update_collection
<1> QED
  BY <1>8, <1>10, <1>11 DEF Environment

\* The entry of a scan that goes on, or over to the next file.
LEMMA EntriesOld ==
    ASSUME TypeInv, SeenInv, NEW s \in Scanners, OnlyScan(s),
           \A f \in Files : scan'[s].entry[f] \in {scan[s].entry[f], 0}
    PROVE  \A f \in Files : scan'[s].entry[f] <= file[f].ver
<1>1. \A f \in Files : file[f].ver \in Nat
  BY ConstantTypes DEF TypeInv, IntakeTypeOK, File
<1> QED
  BY <1>1 DEF SeenInv, FingerprintsOld

\* Steps that only move the scan on; "seen" is reached with the file unhandled,
\* or as a duplicate of a document that is there.
LEMMA SeenQuietStep ==
    ASSUME TypeInv, SeenInv, NEW s \in Scanners, OnlyScan(s), file' = file,
           seen' = seen, \A h : HasDoc(h) => HasDoc(h)',
           scan'[s].todo = scan[s].todo, scan'[s].entry = scan[s].entry,
           HoldsHash(s)' => HoldsHash(s) /\ scan'[s].hash = scan[s].hash,
           scan'[s].pc = "seen" /\ scan'[s].status \in Handled
               => HasDoc(scan[s].hash)'
    PROVE  SeenInv'
<1>1. Current(s)' = Current(s)
  BY DEF Current
<1>2. \A f \in Files : scan'[s].entry[f] <= file[f].ver
  BY EntriesOld
<1>3. HoldsHash(s)' /\ scan'[s].entry[Current(s)'] = file[Current(s)'].ver
               => scan'[s].hash = Bytes(Current(s)')
  BY <1>1 DEF SeenInv, HashCurrent
<1> QED
  BY <1>2, <1>3, SeenFrame

\* A scan without a hash: it has just started, it goes to the next file, or
\* it has ended.
LEMMA SeenFreshStep ==
    ASSUME TypeInv, SeenInv, NEW s \in Scanners, OnlyScan(s), file' = file,
           docs' = docs, scan'[s].pc \in {"idle", "fetch"},
           \A f \in Files : scan'[s].entry[f] <= file[f].ver,
           \A f \in Files : seen'[f] # seen[f] /\ seen'[f] # None =>
               /\ seen'[f].ver <= file[f].ver
               /\ seen'[f].ver = file[f].ver /\ seen'[f].status \in Handled
                    => HasDoc(Bytes(f))
    PROVE  SeenInv'
<1>1. ~HoldsHash(s)' /\ scan'[s].pc # "seen"
  BY DEF HoldsHash, Hashed
<1>2. \A h : HasDoc(h)' = HasDoc(h)
  BY DEF HasDoc
<1>3. \A f \in Files : HasDoc(Bytes(f)) => HasDoc(Bytes(f))'
  BY DEF HasDoc, Bytes
<1> QED
  BY <1>1, <1>2, <1>3, SeenFrame

LEMMA SeenScan ==
    ASSUME TypeInv, TypeInv', SeenInv, NEW s \in Scanners,
           run_scan(s) \/ Step(s) \/ Failure(s)
    PROVE  SeenInv'
<1>0. /\ scan \in [Scanners -> Scan] /\ scan' \in [Scanners -> Scan]
      /\ scan[s] \in Scan /\ scan[s].entry \in [Files -> 0..MaxVer]
      /\ file \in [Files -> File] /\ seen \in [Files -> Seen \cup {None}]
      /\ \A f \in Files : file[f].ver \in Nat
  BY ConstantTypes DEF TypeInv, IntakeTypeOK, Scan, File
<1>1. OnlyScan(s) /\ file' = file
  BY <1>0 DEF OnlyScan, Step, Failure, run_scan, fetch_from_source,
     register_check, register_create, register_put, register_enqueue,
     upsert_seen, fetch_fails, register_put_fails, scan_aborts
<1>2. CASE run_scan(s)
  <2>1. /\ scan'[s].pc = "fetch"
        /\ \A f \in Files : scan'[s].entry[f] \in {file[f].ver, 0}
    BY <1>0, <1>2 DEF run_scan, Idle
  <2>2. \A f \in Files : scan'[s].entry[f] <= file[f].ver
    BY <1>0, <2>1
  <2> QED
    BY <1>1, <1>2, <2>1, <2>2, SeenFreshStep DEF run_scan
<1>3. CASE fetch_from_source(s)
  <2>1. /\ scan'[s].todo = scan[s].todo /\ scan'[s].entry = scan[s].entry
        /\ \/ /\ scan'[s].pc = "check"
              /\ scan'[s].hash = Bytes(Current(s))
           \/ scan'[s].pc = "seen" /\ scan'[s].status = "failed"
    BY <1>0, <1>3 DEF fetch_from_source, Report, Scan, Bytes
  <2>2. Current(s)' = Current(s)
    BY <2>1 DEF Current
  <2>3. \A f \in Files : scan'[s].entry[f] <= file[f].ver
    BY <1>1, <2>1, EntriesOld
  <2>4. HoldsHash(s)' => scan'[s].hash = Bytes(Current(s)')
    BY <2>1, <2>2 DEF HoldsHash, Hashed, Handled
  <2>5. ~(scan'[s].pc = "seen" /\ scan'[s].status \in Handled)
    BY <2>1 DEF Handled
  <2>6. docs' = docs /\ seen' = seen
    BY <1>3 DEF fetch_from_source
  <2>7. \A h : HasDoc(h) => HasDoc(h)'
    BY <2>6 DEF HasDoc
  <2> QED
    BY <1>1, <2>3, <2>4, <2>5, <2>6, <2>7, SeenFrame
<1>4. CASE register_check(s)
  <2>1. /\ scan'[s].todo = scan[s].todo /\ scan'[s].entry = scan[s].entry
        /\ scan'[s].hash = scan[s].hash
        /\ \/ scan'[s].pc = "create"
           \/ scan'[s].pc = "seen" /\ scan'[s].status = "no_route"
           \/ HasDoc(scan[s].hash)
    BY <1>0, <1>4 DEF register_check, Report, Scan, Registered, HasDoc
  <2>2. HoldsHash(s)
    BY <1>4 DEF register_check, HoldsHash, Hashed
  <2>3. docs' = docs /\ seen' = seen
    BY <1>4 DEF register_check
  <2>4. scan'[s].pc = "seen" /\ scan'[s].status \in Handled
               => HasDoc(scan[s].hash)'
    BY <2>1, <2>3 DEF Handled, HasDoc
  <2>5. \A h : HasDoc(h) => HasDoc(h)'
    BY <2>3 DEF HasDoc
  <2> QED
    BY <1>1, <2>1, <2>2, <2>3, <2>4, <2>5, SeenQuietStep
<1>5. CASE register_create(s) \/ register_put(s)
  <2>1. /\ scan'[s].todo = scan[s].todo /\ scan'[s].entry = scan[s].entry
        /\ scan'[s].hash = scan[s].hash /\ scan'[s].pc # "seen"
        /\ docs \subseteq docs' /\ seen' = seen
    BY <1>0, <1>5 DEF register_create, register_put, Scan
  <2>2. HoldsHash(s)
    BY <1>5 DEF register_create, register_put, HoldsHash, Hashed
  <2>3. \A h : HasDoc(h) => HasDoc(h)'
    BY <2>1 DEF HasDoc
  <2> QED
    BY <1>1, <2>1, <2>2, <2>3, SeenQuietStep
<1>6. CASE register_enqueue(s)
  <2>1. /\ scan'[s].todo = scan[s].todo /\ scan'[s].entry = scan[s].entry
        /\ scan'[s].hash = scan[s].hash /\ seen' = seen
    BY <1>0, <1>6 DEF register_enqueue, Report, Scan
  <2>2. HoldsHash(s)
    BY <1>6 DEF register_enqueue, HoldsHash, Hashed
  <2> DEFINE q == [NewDoc(s) EXCEPT !.st = "queued"]
  <2>3. q.hash = scan[s].hash /\ NewDoc(s).hash = scan[s].hash
    BY DEF NewDoc
  <2>4. docs' = (docs \ {NewDoc(s)}) \cup {q}
    BY <1>6 DEF register_enqueue
  <2> HIDE DEF q
  <2>5. \A h : HasDoc(h) => HasDoc(h)'
    BY <2>3, <2>4 DEF HasDoc
  <2>6. HasDoc(scan[s].hash)'
    BY <2>1, <2>3, <2>4 DEF HasDoc
  <2> QED
    BY <1>1, <2>1, <2>2, <2>5, <2>6, SeenQuietStep
<1>7. CASE upsert_seen(s)
  <2>1. Current(s) \in Files
    BY <1>7, Running DEF upsert_seen
  <2>2. /\ scan'[s].pc \in {"idle", "fetch"}
        /\ \A f \in Files : scan'[s].entry[f] \in {scan[s].entry[f], 0}
    <3>1. scan'[s] = NextFile(s)
      BY <1>0, <1>7 DEF upsert_seen
    <3> QED
      BY <1>0, <3>1 DEF NextFile, Idle, Scan
  <2>3. \A f \in Files : scan'[s].entry[f] <= file[f].ver
    BY <1>1, <2>2, EntriesOld
  <2>4. ASSUME NEW f \in Files, seen'[f] # seen[f], seen'[f] # None
        PROVE  /\ seen'[f].ver <= file[f].ver
               /\ seen'[f].ver = file[f].ver /\ seen'[f].status \in Handled
                    => HasDoc(Bytes(f))
    <3>1. /\ f = Current(s) /\ seen'[f].ver = scan[s].entry[f]
          /\ seen'[f].status = scan[s].status
      BY <1>0, <1>7, <2>1, <2>4 DEF upsert_seen
    <3>2. seen'[f].ver <= file[f].ver
      BY <3>1 DEF SeenInv, FingerprintsOld
    <3>3. ASSUME scan[s].entry[f] = file[f].ver, scan[s].status \in Handled
          PROVE  HasDoc(Bytes(f))
      <4>1. scan[s].pc = "seen" /\ HoldsHash(s)
        BY <1>7, <3>3 DEF upsert_seen, HoldsHash
      <4>2. scan[s].hash = Bytes(f)
        BY <3>1, <3>3, <4>1 DEF SeenInv, HashCurrent
      <4> QED
        BY <3>3, <4>1, <4>2 DEF SeenInv, ReportHasDoc
    <3> QED
      BY <3>1, <3>2, <3>3
  <2> QED
    BY <1>1, <1>7, <2>2, <2>3, <2>4, SeenFreshStep DEF upsert_seen
<1>8. CASE fetch_fails(s)
  <2>1. /\ scan'[s].todo = scan[s].todo /\ scan'[s].entry = scan[s].entry
        /\ scan'[s].pc = "seen" /\ scan'[s].status = "failed"
        /\ docs' = docs /\ seen' = seen
    BY <1>0, <1>8 DEF fetch_fails, Report, Scan
  <2>2. ~HoldsHash(s)' /\ ~(scan'[s].status \in Handled)
    BY <2>1 DEF HoldsHash, Hashed, Handled
  <2>3. \A h : HasDoc(h) => HasDoc(h)'
    BY <2>1 DEF HasDoc
  <2> QED
    BY <1>1, <2>1, <2>2, <2>3, SeenQuietStep
<1>9. CASE register_put_fails(s) \/ scan_aborts(s)
  <2>1. /\ scan'[s].pc = "idle" /\ \A f \in Files : scan'[s].entry[f] = 0
        /\ docs' = docs /\ seen' = seen
    BY <1>0, <1>9 DEF register_put_fails, scan_aborts, Idle
  <2>2. \A f \in Files : scan'[s].entry[f] <= file[f].ver
    BY <1>0, <2>1
  <2> QED
    BY <1>1, <2>1, <2>2, SeenFreshStep
<1> QED
  BY <1>2, <1>3, <1>4, <1>5, <1>6, <1>7, <1>8, <1>9 DEF Step, Failure

LEMMA SeenInvariance == Spec => []SeenInv
<1>1. TypeInv /\ SeenInv /\ UNCHANGED vars => SeenInv'
  <2> SUFFICES ASSUME SeenInv, UNCHANGED vars PROVE SeenInv'
    OBVIOUS
  <2>1. \A s \in Scanners : Current(s)' = Current(s) /\ HoldsHash(s)' = HoldsHash(s)
    BY SameScan DEF vars, HoldsHash
  <2> QED
    BY <2>1 DEF vars, SeenInv, FingerprintsOld, HashCurrent, ReportHasDoc,
       SeenHasDoc, HasDoc, Bytes
<1>2. TypeInv /\ TypeInv' /\ SeenInv /\ Next => SeenInv'
  BY SeenEnvironment, SeenScan DEF Next
<1> QED
  BY <1>1, <1>2, SeenInit, TypeInvariance, PTL DEF Spec

\* Whatever fails, and however scans overlap: a file that should_skip_seen
\* passes over for good has a document with its present bytes.
THEOREM SeenMeansRegistered == Spec => []SeenHasDoc
<1>1. SeenInv => SeenHasDoc
  BY DEF SeenInv
<1> QED
  BY <1>1, SeenInvariance, PTL

LEMMA PendingStep ==
    ASSUME NothingCutShort, TypeInv, PendingOwned, Next
    PROVE  PendingOwned'
<1>0. scan \in [Scanners -> Scan] /\ docs \subseteq Doc
  BY DEF TypeInv, IntakeTypeOK
<1>1. CASE Environment
  <2>1. scan' = scan /\ docs' = docs
    BY <1>1 DEF Environment, Drop, Remove, prune_seen, update_config, set_active,
     update_collection
  <2> QED
    BY <1>0, <2>1, SameScan DEF PendingOwned, Doc
<1>2. ASSUME NEW s \in Scanners, run_scan(s) \/ Step(s) \/ Failure(s)
      PROVE  PendingOwned'
  <2>1. \A t \in Scanners \ {s} : scan'[t] = scan[t] /\ NewDoc(t)' = NewDoc(t)
    <3>1. \A t \in Scanners \ {s} : scan'[t] = scan[t]
      BY <1>0, <1>2 DEF Step, Failure, run_scan, fetch_from_source,
         register_check, register_create, register_put, register_enqueue,
         upsert_seen, fetch_fails, register_put_fails, scan_aborts
    <3> QED
      BY <3>1, SameScan
  <2>2. \A d \in docs : d.by \in Scanners /\ d.st \in {"pending", "queued"}
    BY <1>0 DEF Doc
  <2>3. ~register_put_fails(s) /\ ~scan_aborts(s)
    BY DEF NothingCutShort, register_put_fails, scan_aborts, Fault
  <2>4. ASSUME scan[s].pc \notin {"put", "enqueue"}, docs' = docs
        PROVE  PendingOwned'
    BY <2>1, <2>2, <2>4 DEF PendingOwned
  <2>5. CASE register_create(s)
    <3>1. /\ docs' = docs \cup {NewDoc(s)} /\ scan[s].pc = "create"
          /\ scan'[s].pc = "put" /\ scan'[s].hash = scan[s].hash
          /\ scan'[s].target = scan[s].target
      BY <1>0, <2>5 DEF register_create, Scan
    <3>2. NewDoc(s)' = NewDoc(s) /\ NewDoc(s).by = s
      BY <3>1 DEF NewDoc
    <3> QED
      BY <2>1, <2>2, <3>1, <3>2 DEF PendingOwned
  <2>6. CASE register_put(s)
    <3>1. /\ docs' = docs
          /\ scan'[s].pc = "enqueue" /\ scan'[s].hash = scan[s].hash
          /\ scan'[s].target = scan[s].target
      BY <1>0, <2>6 DEF register_put, Scan
    <3>2. NewDoc(s)' = NewDoc(s)
      BY <3>1 DEF NewDoc
    <3> QED
      BY <2>1, <2>2, <3>1, <3>2 DEF PendingOwned
  <2>7. CASE register_enqueue(s)
    <3> DEFINE q == [NewDoc(s) EXCEPT !.st = "queued"]
    <3>1. docs' = (docs \ {NewDoc(s)}) \cup {q} /\ q.st = "queued"
      BY <2>7 DEF register_enqueue, NewDoc
    <3> HIDE DEF q
    <3> QED
      BY <2>1, <2>2, <3>1 DEF PendingOwned
  <2>8. CASE run_scan(s) \/ fetch_from_source(s) \/ register_check(s)
             \/ upsert_seen(s) \/ fetch_fails(s)
    BY <2>4, <2>8 DEF run_scan, fetch_from_source, register_check,
       upsert_seen, fetch_fails
  <2> QED
    BY <1>2, <2>3, <2>5, <2>6, <2>7, <2>8 DEF Step, Failure
<1> QED
  BY <1>1, <1>2 DEF Next

\* As long as no registration is cut short by a failed upload or a crash, what
\* the cache calls routed or a duplicate is really ingested, or a scan is just
\* about to queue its job, for any number of overlapping scans.
THEOREM SeenIsIngested ==
    ASSUME NothingCutShort
    PROVE  Spec => []SeenMeansIngested
<1>1. TypeInv /\ PendingOwned /\ [Next]_vars => PendingOwned'
  <2> SUFFICES ASSUME TypeInv, PendingOwned, UNCHANGED vars PROVE PendingOwned'
    BY PendingStep
  <2>1. \A d \in docs : d.by \in Scanners
    BY DEF TypeInv, IntakeTypeOK, Doc
  <2> QED
    BY <2>1, SameScan DEF vars, PendingOwned
<1>2. TypeInv /\ SeenInv /\ PendingOwned => SeenMeansIngested
  <2> SUFFICES ASSUME TypeInv, SeenInv, PendingOwned, NEW f \in Files,
                      seen[f] # None, seen[f].ver = file[f].ver,
                      seen[f].status \in Handled
               PROVE  Ingested(Bytes(f)) \/ Registering(Bytes(f))
    BY DEF SeenMeansIngested, Handled
  <2>1. PICK d \in docs : d.hash = Bytes(f)
    BY DEF SeenInv, SeenHasDoc, HasDoc
  <2>2. d.st \in {"pending", "queued"} /\ d.by \in Scanners
    BY DEF TypeInv, IntakeTypeOK, Doc
  <2>3. CASE d.st = "queued"
    BY <2>1, <2>3 DEF Ingested
  <2>4. CASE d.st = "pending"
    <3>1. scan[d.by].pc \in {"put", "enqueue"} /\ d.hash = scan[d.by].hash
      BY <2>4 DEF PendingOwned, NewDoc
    <3> QED
      BY <2>1, <2>2, <3>1 DEF Registering
  <2> QED
    BY <2>2, <2>3, <2>4
<1> QED
  BY <1>1, <1>2, SeenInit, SeenInvariance, TypeInvariance, PTL DEF Spec

----------------------------------------------------------------------------
(* One scan at a time: no content is registered twice.                     *)

SingleScanner == \A s, t \in Scanners : s = t

\* Between the look-up of content_hash and the insert nothing else inserts;
\* what was inserted is there until its job is queued.
InsertChecked ==
    \A s \in Scanners :
        /\ scan[s].pc = "create" => ~Registered(scan[s].hash, scan[s].target)
        /\ scan[s].pc \in {"put", "enqueue"} => NewDoc(s) \in docs

LEMMA IntakeStep ==
    ASSUME SingleScanner, TypeInv, InsertChecked, NoDoubleIntake, Next
    PROVE  InsertChecked' /\ NoDoubleIntake'
<1>0. scan \in [Scanners -> Scan] /\ docs \subseteq Doc
  BY DEF TypeInv, IntakeTypeOK
<1>1. CASE Environment
  <2>1. scan' = scan /\ docs' = docs
    BY <1>1 DEF Environment, Drop, Remove, prune_seen, update_config, set_active,
     update_collection
  <2> QED
    BY <2>1, SameScan DEF InsertChecked, NoDoubleIntake, Registered
<1>2. ASSUME NEW s \in Scanners, run_scan(s) \/ Step(s) \/ Failure(s)
      PROVE  InsertChecked' /\ NoDoubleIntake'
  <2>0. Scanners = {s} /\ scan[s] \in Scan
    BY <1>0 DEF SingleScanner
  <2>1. ASSUME docs' = docs, scan'[s].pc \notin {"create", "put", "enqueue"}
        PROVE  InsertChecked' /\ NoDoubleIntake'
    BY <2>0, <2>1 DEF InsertChecked, NoDoubleIntake
  <2>2. CASE register_check(s)
    <3>1. CASE scan'[s].pc # "create"
      BY <1>0, <2>1, <2>2, <3>1 DEF register_check, Report, Scan
    <3>2. CASE scan'[s].pc = "create"
      <4>1. /\ ~Registered(scan[s].hash, Target(s)) /\ docs' = docs
            /\ scan'[s].hash = scan[s].hash
            /\ scan'[s].target = Target(s)
        BY <1>0, <2>0, <2>2, <3>2 DEF register_check, Report, Scan
      <4> QED
        BY <2>0, <3>2, <4>1 DEF InsertChecked, NoDoubleIntake, Registered
    <3> QED
      BY <3>1, <3>2
  <2>3. CASE register_create(s)
    <3>1. /\ docs' = docs \cup {NewDoc(s)} /\ scan'[s].pc = "put"
          /\ scan'[s].hash = scan[s].hash
          /\ scan'[s].target = scan[s].target
          /\ ~Registered(scan[s].hash, scan[s].target)
      BY <1>0, <2>0, <2>3 DEF register_create, Scan, InsertChecked
    <3>2. NewDoc(s)' = NewDoc(s)
      BY <3>1 DEF NewDoc
    <3>3. NewDoc(s).hash = scan[s].hash /\ NewDoc(s).col = scan[s].target
      BY DEF NewDoc
    <3> QED
      BY <2>0, <3>1, <3>2, <3>3 DEF InsertChecked, NoDoubleIntake, Registered
  <2>4. CASE register_put(s)
    <3>1. /\ docs' = docs /\ scan'[s].pc = "enqueue"
          /\ scan'[s].hash = scan[s].hash /\ NewDoc(s) \in docs
          /\ scan'[s].target = scan[s].target
      BY <1>0, <2>0, <2>4 DEF register_put, Scan, InsertChecked
    <3>2. NewDoc(s)' = NewDoc(s)
      BY <3>1 DEF NewDoc
    <3> QED
      BY <2>0, <3>1, <3>2 DEF InsertChecked, NoDoubleIntake
  <2>5. CASE register_enqueue(s)
    <3> DEFINE q == [NewDoc(s) EXCEPT !.st = "queued"]
    <3>1. /\ docs' = (docs \ {NewDoc(s)}) \cup {q}
          /\ q.hash = NewDoc(s).hash /\ q.col = NewDoc(s).col
          /\ NewDoc(s) \in docs
      BY <2>5 DEF register_enqueue, NewDoc, InsertChecked
    <3>2. scan'[s].pc = "seen"
      BY <1>0, <2>0, <2>5 DEF register_enqueue, Report, Scan
    <3> HIDE DEF q
    <3>3. NoDoubleIntake'
      BY <3>1 DEF NoDoubleIntake
    <3> QED
      BY <2>0, <3>2, <3>3 DEF InsertChecked
  <2>6. CASE upsert_seen(s)
    <3>1. scan'[s] = NextFile(s) /\ docs' = docs
      BY <1>0, <2>6 DEF upsert_seen
    <3>2. NextFile(s).pc \in {"idle", "fetch"}
      BY <2>0 DEF NextFile, Idle, Scan
    <3> QED
      BY <2>1, <3>1, <3>2
  <2>7. CASE run_scan(s) \/ fetch_from_source(s) \/ Failure(s)
    <3>1. docs' = docs
      BY <2>7 DEF run_scan, fetch_from_source, Failure, fetch_fails,
         register_put_fails, scan_aborts
    <3>2. CASE run_scan(s)
      BY <1>0, <2>1, <3>1, <3>2 DEF run_scan, Idle
    <3>3. CASE fetch_from_source(s)
      BY <1>0, <2>0, <2>1, <3>1, <3>3 DEF fetch_from_source, Report, Scan
    <3>4. CASE Failure(s)
      <4>1. scan'[s].pc \in {"seen", "idle"}
        <5>1. CASE fetch_fails(s)
          BY <1>0, <2>0, <5>1 DEF fetch_fails, Report, Scan
        <5>2. CASE register_put_fails(s) \/ scan_aborts(s)
          BY <1>0, <5>2 DEF register_put_fails, scan_aborts, Idle
        <5> QED
          BY <3>4, <5>1, <5>2 DEF Failure
      <4> QED
        BY <2>1, <3>1, <4>1
    <3> QED
      BY <2>7, <3>2, <3>3, <3>4
  <2> QED
    BY <1>2, <2>2, <2>3, <2>4, <2>5, <2>6, <2>7 DEF Step
<1> QED
  BY <1>1, <1>2 DEF Next

\* With one scan at a time register_and_enqueue's look-up of content_hash is
\* enough, whatever is pruned, rewritten, re-routed or cut short.
THEOREM OneScanNoDoubleIntake ==
    ASSUME SingleScanner
    PROVE  Spec => []NoDoubleIntake
<1>1. Init => InsertChecked /\ NoDoubleIntake
  BY DEF Init, InsertChecked, NoDoubleIntake, Idle
<1>2. TypeInv /\ InsertChecked /\ NoDoubleIntake /\ [Next]_vars
        => (InsertChecked /\ NoDoubleIntake)'
  <2> SUFFICES ASSUME InsertChecked, NoDoubleIntake, UNCHANGED vars
               PROVE  InsertChecked' /\ NoDoubleIntake'
    BY IntakeStep
  <2> QED
    BY SameScan DEF vars, InsertChecked, NoDoubleIntake, Registered
<1> QED
  BY <1>1, <1>2, TypeInvariance, PTL DEF Spec
=============================================================================
