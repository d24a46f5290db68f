---------------------------- MODULE SourceWatch ----------------------------
(***************************************************************************)
(* Source watches: periodic intake of a storage folder.  The table         *)
(* rag_source_watches, the administrator's handlers that edit it, and the  *)
(* SourceWatcher loop that runs in every API process: claim the watches    *)
(* whose next_run_at has come, scan them one after the other, record what  *)
(* came of each scan.                                                      *)
(*                                                                         *)
(* Time is a countdown: watch[w].next is next_run_at minus now, and Tick   *)
(* lets one unit pass.  Of two watches that are overdue only the order     *)
(* matters (claim_due sorts by next_run_at), so overdue values are kept    *)
(* as small as that order allows (see Elapse).                             *)
(*                                                                         *)
(* Simplifications:                                                        *)
(*  - claim_due is one step: it locks the rows it selects until it         *)
(*    commits, and a row another claim holds is skipped by one and no      *)
(*    longer due for the other;                                            *)
(*  - record_result is two steps, the SELECT and the flush, because it     *)
(*    locks nothing; its clock is read once, at the flush;                 *)
(*  - what a scan does to documents is left out here: it ends as complete, *)
(*    as truncated (more files are waiting) or with an exception;          *)
(*  - rag_source_watch_runs is a log that nothing reads back.              *)
(***************************************************************************)
EXTENDS Integers, Sequences, FiniteSets

CONSTANTS
    Watches,     \* primary keys of rag_source_watches, never reused
    Replicas,    \* API processes, each with one SourceWatcher loop
    Intervals,   \* values of interval_seconds administrators choose
    Cap,         \* BACKOFF_CAP_SECONDS
    Limit,       \* watches one tick claims (claim_due's limit)
    ErrorTexts,  \* "error": str(e) says something, "blank": it is empty
    NoRow,       \* record_result has loaded no row
    MaxFails,    \* consecutive_failures is counted up to here (exact, below)
    MaxOps,      \* bound: requests of administrators
    MaxCrashes   \* bound: API processes killed or stopped during a tick

\* interval_seconds is an Integer column of at least 1.
ASSUME IntervalsAssumption ==
    /\ Intervals \subseteq Nat \ {0} /\ IsFiniteSet(Intervals) /\ Intervals # {}
    /\ Cap \in Nat \ {0} /\ Limit \in Nat \ {0}
    /\ MaxOps \in Nat /\ MaxCrashes \in Nat
ASSUME WatchesAssumption == IsFiniteSet(Watches)
ASSUME ErrorsAssumption == ErrorTexts \subseteq {"error", "blank"}
\* From MaxFails failures on the delay is the cap: counting further would
\* change nothing.
ASSUME FailsAssumption ==
    /\ MaxFails \in Nat \ {0}
    /\ \A i \in Intervals : i * 2^MaxFails >= Cap
\* Doubling at least doubles: true in arithmetic, but no prover knows it of 2^f.
ASSUME PowersAssumption == \A f \in 1..MaxFails : 2^f >= 2

VARIABLES
    watch,   \* watch[w]: the row of w
    rep,     \* rep[r]: where the loop of replica r stands
    ops,     \* requests sent so far
    crashes, \* crashes so far
    asked,   \* asked[w]: "run now" was accepted and w not claimed since
    wait,    \* wait[w]: what is left of the interval w was last claimed with
    streak   \* streak[w]: failed scans recorded since the last good one

vars == <<watch, rep, ops, crashes, asked, wait, streak>>
observed == <<asked, wait, streak>>   \* history, read by no action

Results == {"none", "complete", "truncated"} \cup ErrorTexts
Fails == 0..MaxFails
Horizon == CHOOSE h \in Intervals \cup {Cap} :
               \A i \in Intervals \cup {Cap} : i <= h
Countdown == (-Cardinality(Watches))..Horizon

Row == [state : {"new", "live", "gone"}, enabled : BOOLEAN,
        interval : Intervals, next : Countdown, fails : Fails,
        status : {"never", "ok", "error"}]
Loaded == [interval : Intervals, fails : Fails,
           status : {"never", "ok", "error"}]
ASSUME NoRowAssumption == NoRow \notin Loaded
Loop == [pc : {"idle", "scan", "load", "store"}, batch : Seq(Watches),
         result : Results, row : Loaded \cup {NoRow}]

Absent(s) == [state |-> s, enabled |-> FALSE,
              interval |-> CHOOSE i \in Intervals : TRUE,
              next |-> 0, fails |-> 0, status |-> "never"]

Idle == [pc |-> "idle", batch |-> <<>>, result |-> "none", row |-> NoRow]

Live(w) == watch[w].state = "live"
Active(w) == Live(w) /\ watch[w].enabled
Scanning(r, w) == rep[r].pc = "scan" /\ Head(rep[r].batch) = w

\* Mutant: the back-off without its cap.
backoff_seconds_uncapped(i, f) == IF f = 0 THEN i ELSE i * 2^f

\* backoff_seconds: interval * 2^failures, at most the cap.
backoff_seconds(i, f) ==
    IF f = 0 THEN i
    ELSE IF i * 2^f < Cap THEN i * 2^f ELSE Cap

OneMore(f) == IF f < MaxFails THEN f + 1 ELSE f

Init ==
    /\ watch = [w \in Watches |-> Absent("new")]
    /\ rep = [r \in Replicas |-> Idle]
    /\ ops = 0 /\ crashes = 0
    /\ asked = [w \in Watches |-> FALSE]
    /\ wait = [w \in Watches |-> 0]
    /\ streak = [w \in Watches |-> 0]

----------------------------------------------------------------------------
(* Time.                                                                   *)

\* One unit later: a positive countdown shrinks; the overdue watches keep
\* their order and fill -1, -2, ... from the latest to the earliest.
Elapse(n) ==
    LET past(w) == Live(w) /\ n[w] <= 0
        rank(w) == Cardinality({n[v] : v \in {v \in Watches :
                                   past(v) /\ n[v] >= n[w]}})
    IN  [w \in Watches |-> IF past(w) THEN -rank(w)
                           ELSE IF Live(w) THEN n[w] - 1 ELSE n[w]]

Tick ==
    /\ watch' = LET e == Elapse([w \in Watches |-> watch[w].next])
                IN  [w \in Watches |-> [watch[w] EXCEPT !.next = e[w]]]
    /\ wait' = [w \in Watches |-> IF wait[w] > 0 THEN wait[w] - 1 ELSE 0]
    /\ UNCHANGED <<rep, ops, crashes, asked, streak>>

----------------------------------------------------------------------------
(* The administrator's requests.                                           *)

Request == ops < MaxOps /\ ops' = ops + 1 /\ UNCHANGED <<rep, crashes>>

\* A new watch is due at once.
create_watch(w, i, on) ==
    /\ Request
    /\ watch[w].state = "new"
    /\ watch' = [watch EXCEPT ![w].state = "live", ![w].enabled = on,
                              ![w].interval = i, ![w].next = 0]
    /\ UNCHANGED observed

\* next_run_at is not recomputed: a new interval counts from the next run.
update_watch(w, i, on) ==
    /\ Request
    /\ Live(w)
    /\ watch[w].interval # i \/ watch[w].enabled # on
    /\ watch' = [watch EXCEPT ![w].interval = i, ![w].enabled = on]
    /\ wait' = [wait EXCEPT ![w] = IF i < @ THEN i ELSE @]
    /\ UNCHANGED <<asked, streak>>

delete_watch(w) ==
    /\ Request
    /\ Live(w)
    /\ watch' = [watch EXCEPT ![w] = Absent("gone")]
    /\ asked' = [asked EXCEPT ![w] = FALSE]
    /\ wait' = [wait EXCEPT ![w] = 0]
    /\ streak' = [streak EXCEPT ![w] = 0]

\* 409 unless the watch is enabled; the loop of some replica does the work.
run_now(w) ==
    /\ Request
    /\ Active(w)
    /\ watch' = [watch EXCEPT ![w].next = 0]
    /\ asked' = [asked EXCEPT ![w] = TRUE]
    /\ wait' = [wait EXCEPT ![w] = 0]
    /\ UNCHANGED streak

----------------------------------------------------------------------------
(* The loop of a replica.                                                  *)

Due == {w \in Watches : Active(w) /\ watch[w].next <= 0}

\* Mutant: no ORDER BY next_run_at.
EarliestUnordered(S) ==
    LET n == IF Cardinality(S) < Limit THEN Cardinality(S) ELSE Limit
    IN  {b \in [1..n -> S] : \A j, k \in 1..n : j < k => b[j] # b[k]}

\* The first Limit watches of S in the order of next_run_at.
Earliest(S) ==
    LET n == IF Cardinality(S) < Limit THEN Cardinality(S) ELSE Limit
    IN  {b \in [1..n -> S] :
           /\ \A j, k \in 1..n : j < k => /\ b[j] # b[k]
                                          /\ watch[b[j]].next <= watch[b[k]].next
           /\ \A j \in 1..n : \A w \in S :
                (\A k \in 1..n : b[k] # w) => watch[b[j]].next <= watch[w].next}

Claimed(b, w) == \E k \in 1..Len(b) : b[k] = w

\* tick: next_run_at moves on by the interval before any scan starts.
claim_due(r) ==
    /\ rep[r].pc = "idle"
    /\ Due # {}
    /\ \E b \in Earliest(Due) :
         /\ rep' = [rep EXCEPT ![r].pc = "scan", ![r].batch = b]
         /\ watch' = [w \in Watches |->
                IF Claimed(b, w)
                THEN [watch[w] EXCEPT !.next = watch[w].interval]
                ELSE watch[w]]
         /\ asked' = [w \in Watches |-> asked[w] /\ ~Claimed(b, w)]
         /\ wait' = [w \in Watches |->
                IF Claimed(b, w) THEN watch[w].interval ELSE wait[w]]
    /\ UNCHANGED <<ops, crashes, streak>>

\* _execute: the scan of the first watch of the batch returns or raises.
ScanEnds(r) ==
    /\ rep[r].pc = "scan"
    /\ \E x \in Results \ {"none"} :
         rep' = [rep EXCEPT ![r].pc = "load", ![r].result = x]
    /\ UNCHANGED <<watch, ops, crashes, observed>>

\* The loop after one watch: the next of the batch, or the sleep.
NextOf(b) ==
    IF Len(b) = 1 THEN Idle
    ELSE [pc |-> "scan", batch |-> Tail(b), result |-> "none", row |-> NoRow]

\* record_result's SELECT; the watch may have been deleted meanwhile.
RecordLoad(r) ==
    LET w == Head(rep[r].batch)
    IN  /\ rep[r].pc = "load"
        /\ rep' = [rep EXCEPT ![r] =
                     IF ~Live(w) THEN NextOf(@.batch)
                     ELSE [@ EXCEPT !.pc = "store", !.row =
                             [interval |-> watch[w].interval,
                              fails |-> watch[w].fails,
                              status |-> watch[w].status]]]
        /\ UNCHANGED <<watch, ops, crashes, observed>>

\* Mutant: every good scan is continued at once.
RecordedDraining(row, old, x) ==
    [row EXCEPT !.fails = IF x = "error" THEN OneMore(old.fails) ELSE 0,
                !.status = IF x = "error" THEN "error" ELSE "ok",
                !.next = IF x = "error"
                         THEN backoff_seconds(old.interval, OneMore(old.fails))
                         ELSE 0]

\* Mutant: a good scan does not clear consecutive_failures.
RecordedSticky(row, old, x) ==
    [row EXCEPT !.fails = IF x = "error" THEN OneMore(old.fails) ELSE @,
                !.status = IF x = "error" THEN "error" ELSE "ok",
                !.next = CASE x = "error" ->
                                backoff_seconds(old.interval, OneMore(old.fails))
                           [] x = "truncated" -> 0
                           [] OTHER -> @]

\* Mutant: a good scan sets next_run_at again.
RecordedRescheduling(row, old, x) ==
    [row EXCEPT !.fails = IF x = "error" THEN OneMore(old.fails) ELSE 0,
                !.status = IF x = "error" THEN "error" ELSE "ok",
                !.next = IF x = "truncated" THEN 0 ELSE old.interval]

\* The flush writes the columns whose value differs from the loaded one.
\* next_run_at is assigned after an error and after a truncated scan only.
\* A failure whose text is empty takes the branch of a good scan (if error:).
Recorded(row, old, x) ==
    LET f == IF x = "error" THEN OneMore(old.fails) ELSE 0
        t == IF x = "error" THEN "error" ELSE "ok"
    IN  [row EXCEPT !.fails = IF f # old.fails THEN f ELSE @,
                    !.status = IF t # old.status THEN t ELSE @,
                    !.next = CASE x = "error" -> backoff_seconds(old.interval, f)
                               [] x = "truncated" -> 0
                               [] OTHER -> @]

RecordStore(r) ==
    LET w == Head(rep[r].batch)
        x == rep[r].result
    IN  /\ rep[r].pc = "store"
        /\ Live(w)
        /\ watch' = [watch EXCEPT ![w] = Recorded(@, rep[r].row, x)]
        /\ rep' = [rep EXCEPT ![r] = NextOf(@.batch)]
        /\ wait' = [wait EXCEPT ![w] = IF x = "truncated" THEN 0 ELSE @]
        /\ streak' = [streak EXCEPT ![w] =
                        IF x \in ErrorTexts THEN OneMore(@) ELSE 0]
        /\ UNCHANGED <<ops, crashes, asked>>

\* record_result raises (the database, or the row was deleted under it): a
\* good scan is then recorded as a failed one; if that raises too, the loop
\* logs it and goes on with the next watch.
RecordRaises(r) ==
    /\ rep[r].pc \in {"load", "store"}
    /\ \/ /\ rep[r].result \in {"complete", "truncated"}
          /\ \E x \in ErrorTexts :
               rep' = [rep EXCEPT ![r].pc = "load", ![r].result = x,
                                  ![r].row = NoRow]
       \/ /\ rep[r].result \in ErrorTexts
          /\ rep' = [rep EXCEPT ![r] = NextOf(@.batch)]
    /\ UNCHANGED <<watch, ops, crashes, observed>>

\* stop() or a crash: the rest of the batch is forgotten; the process that
\* is started again begins with an idle loop.
Crash(r) ==
    /\ crashes < MaxCrashes
    /\ rep[r].pc # "idle"
    /\ crashes' = crashes + 1
    /\ rep' = [rep EXCEPT ![r] = Idle]
    /\ UNCHANGED <<watch, ops, observed>>

----------------------------------------------------------------------------
Admin == \E w \in Watches :
    \/ \E i \in Intervals, on \in BOOLEAN :
         create_watch(w, i, on) \/ update_watch(w, i, on)
    \/ delete_watch(w)
    \/ run_now(w)

Record(r) == RecordLoad(r) \/ RecordStore(r) \/ RecordRaises(r)

Next ==
    \/ Tick
    \/ Admin
    \/ \E r \in Replicas : claim_due(r) \/ ScanEnds(r) \/ Record(r) \/ Crash(r)

Spec == Init /\ [][Next]_vars

\* Time passes, and a replica's loop goes on; nobody has to send requests.
FairSpec ==
    /\ Spec
    /\ WF_vars(Tick)
    /\ \A r \in Replicas :
         WF_vars(claim_due(r)) /\ WF_vars(ScanEnds(r)) /\ WF_vars(Record(r))

----------------------------------------------------------------------------
(* Properties.                                                             *)

\* Every column keeps its type; in particular next_run_at is never further
\* away than the longest interval or the back-off cap, whatever failed.
WatchTypeOK ==
    /\ watch \in [Watches -> Row]
    /\ rep \in [Replicas -> Loop]
    /\ \A r \in Replicas :
         /\ Len(rep[r].batch) <= Limit
         /\ rep[r].pc = "idle" <=> rep[r].batch = <<>>
         /\ rep[r].pc = "store" <=> rep[r].row # NoRow
         /\ rep[r].pc \in {"load", "store"} <=> rep[r].result # "none"
    /\ ops \in 0..MaxOps /\ crashes \in 0..MaxCrashes
    /\ asked \in [Watches -> BOOLEAN]
    /\ wait \in [Watches -> 0..Horizon]
    /\ streak \in [Watches -> Fails]

\* Once claimed, a watch is not due again before the interval it was claimed
\* with is over, unless an administrator asked for a run or a truncated scan
\* asked to be continued: claim_due moves next_run_at on before the scan, and the
\* record of a scan, however late, does not pull it back.  Promised for one API
\* process, or for one interval of all watches and times, and for intervals the
\* back-off cap does not undercut (OneReplicaKeepsIntervals).  With several
\* processes and an interval that is edited, the late record of a scan begun
\* under the shorter interval brings next_run_at forward under the longer one.
NotBeforeInterval ==
    \A w \in Watches : Live(w) /\ wait[w] > 0 => watch[w].next >= wait[w]

\* No watch is scanned by two replicas at the same time (watcher.tick:
\* "at most one at a time per watch is ensured by claim + early next_run").
OneScanAtATime ==
    \A w \in Watches, r, s \in Replicas :
        Scanning(r, w) /\ Scanning(s, w) => r = s

\* What the row says of failures is what happened: consecutive_failures is
\* the number of failed scans recorded since the last good one and last_status
\* is "error" exactly when that number is not 0 (_execute and record_result).
FailuresTruthful ==
    \A w \in Watches : Live(w) =>
        /\ watch[w].fails = streak[w]
        /\ watch[w].status = "error" <=> streak[w] > 0

\* "Run now" is put off by one thing only: the scan that was running when it
\* was asked for fails, and its back-off replaces the request.  A good scan
\* leaves the request alone.
RequestOnlyLostToFailure ==
    \A w \in Watches :
        Active(w) /\ asked[w] => watch[w].next <= 0 \/ watch[w].fails > 0

\* A watch that stays enabled is scanned again and again, whatever its scans
\* end with, whichever process dies and however many watches compete for the
\* Limit places of a tick.
WatchKeepsRunning ==
    \A w \in Watches :
        []<>(~Active(w) \/ \E r \in Replicas : Scanning(r, w))
=============================================================================
