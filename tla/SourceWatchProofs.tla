-------------------------- MODULE SourceWatchProofs -------------------------
(***************************************************************************)
(* The schedule of the source watches, for any number of watches, any set  *)
(* of intervals, any cap and any limit of a tick.  The types hold for any  *)
(* number of API processes; the three results about the schedule are those *)
(* of one process, the deployment they are true in.                        *)
(***************************************************************************)
EXTENDS SourceWatch, FiniteSetTheorems, SequenceTheorems,
        WellFoundedInduction, TLAPS

----------------------------------------------------------------------------
(* Numbers.                                                                *)

\* A finite nonempty set of numbers has a largest one.
LEMMA Largest ==
    ASSUME NEW S \in SUBSET Nat, IsFiniteSet(S), S # {}
    PROVE  \E m \in S : \A x \in S : x <= m
<1> DEFINE HasMax(X) == \E m \in X : \A x \in X : x <= m
           Bad == {X \in SUBSET S : X # {} /\ ~HasMax(X)}
<1> SUFFICES ASSUME ~HasMax(S) PROVE FALSE
  OBVIOUS
<1>1. Bad \subseteq FiniteSubsetsOf(S) /\ Bad # {}
  BY FS_Subset DEF FiniteSubsetsOf
<1>2. PICK X \in Bad : \A Y \in Bad : ~(<<Y, X>> \in StrictSubsetOrdering(S))
  BY <1>1, FS_StrictSubsetOrderingWellFounded, WFMin
<1>3. PICK x \in X : TRUE
  BY <1>2
<1> DEFINE Y == X \ {x}
<1>4. Y \notin Bad
  <2>1. Y \in SUBSET S /\ X \in SUBSET S /\ Y \subseteq X /\ Y # X
    BY <1>2, <1>3
  <2>2. <<Y, X>> \in StrictSubsetOrdering(S)
    BY <2>1 DEF StrictSubsetOrdering
  <2> QED
    BY <1>2, <2>2
<1>5. ~HasMax(X) /\ X \in SUBSET S
  BY <1>2
<1>6. CASE Y = {}
  <2>1. X = {x}
    BY <1>3, <1>6
  <2> QED
    BY <1>3, <1>5, <2>1
<1>7. CASE Y # {}
  <2>1. PICK m \in Y : \A y \in Y : y <= m
    BY <1>4, <1>5, <1>7
  <2>2. m \in Nat /\ x \in Nat /\ m \in X
    BY <1>3, <1>5, <2>1
  <2>3. CASE x <= m
    BY <1>5, <2>1, <2>2, <2>3
  <2>4. CASE m < x
    <3>1. \A y \in X : y \in Nat /\ y <= x
      BY <1>5, <2>1, <2>2, <2>4
    <3> QED
      BY <1>3, <1>5, <3>1
  <2> QED
    BY <2>2, <2>3, <2>4
<1> QED
  BY <1>6, <1>7

\* Horizon is what its definition says: no interval and no back-off is longer.
LEMMA HorizonMax ==
    /\ Horizon \in Nat /\ Cap <= Horizon
    /\ \A i \in Intervals : i \in Nat \ {0} /\ i <= Horizon
<1> DEFINE S == Intervals \cup {Cap}
<1>1. S \in SUBSET Nat /\ IsFiniteSet(S) /\ S # {}
  BY IntervalsAssumption, FS_AddElement
<1>2. \E h \in S : \A i \in S : i <= h
  BY <1>1, Largest
<1>3. Horizon \in S /\ \A i \in S : i <= Horizon
  BY <1>2 DEF Horizon
<1> QED
  BY <1>1, <1>3, IntervalsAssumption

LEMMA Times ==
    ASSUME NEW i \in Nat, NEW p \in Int, p >= 2
    PROVE  i * p \in Nat /\ i * p >= i
OBVIOUS

\* backoff_seconds never shortens an interval that is within the cap, and never
\* exceeds the cap once something has failed.
LEMMA Backoff ==
    ASSUME NEW i \in Intervals, NEW f \in 1..MaxFails
    PROVE  /\ backoff_seconds(i, f) \in 0..Cap
           /\ i <= Cap => backoff_seconds(i, f) >= i
<1>1. MaxFails \in Nat /\ f \in Nat /\ f # 0 /\ 2^f \in Int /\ 2^f >= 2
  BY FailsAssumption, PowersAssumption
<1>2. i \in Nat /\ Cap \in Nat
  BY IntervalsAssumption
<1>3. i * 2^f \in Nat /\ i * 2^f >= i
  BY <1>1, <1>2, Times
<1> QED
  BY <1>1, <1>2, <1>3 DEF backoff_seconds

LEMMA ConstantTypes ==
    /\ Cap \in Nat \ {0} /\ Limit \in Nat \ {0} /\ MaxFails \in Nat \ {0}
    /\ MaxOps \in Nat /\ MaxCrashes \in Nat /\ Cardinality(Watches) \in Nat
    /\ Horizon \in Nat
BY IntervalsAssumption, FailsAssumption, WatchesAssumption, HorizonMax,
   FS_CardinalityType

\* Any set of values of a function on a set of watches is as small as the set.
LEMMA ImageSize ==
    ASSUME NEW n, NEW S \in SUBSET Watches
    PROVE  Cardinality({n[v] : v \in S}) \in 0..Cardinality(Watches)
<1> DEFINE T == {n[v] : v \in S}
           g == [v \in S |-> n[v]]
<1>1. IsFiniteSet(S) /\ Cardinality(S) <= Cardinality(Watches)
  BY WatchesAssumption, FS_Subset
<1>2. g \in Surjection(S, T)
  BY DEF Surjection
<1>3. IsFiniteSet(T) /\ Cardinality(T) <= Cardinality(S)
  BY <1>1, <1>2, FS_Surjection
<1> HIDE DEF T
<1>4. Cardinality(T) \in Nat /\ Cardinality(S) \in Nat
  BY <1>1, <1>3, FS_CardinalityType
<1>5. Cardinality(T) \in 0..Cardinality(Watches)
  BY <1>1, <1>3, <1>4, ConstantTypes
<1> QED
  BY <1>5 DEF T

\* One unit of time: what is to come gets closer, what is overdue stays so.
LEMMA ElapseEffect ==
    ASSUME NEW n \in [Watches -> Countdown]
    PROVE  /\ Elapse(n) \in [Watches -> Countdown]
           /\ \A w \in Watches :
                /\ Live(w) /\ n[w] <= 0 => Elapse(n)[w] <= 0
                /\ Live(w) /\ n[w] > 0 => Elapse(n)[w] = n[w] - 1
                /\ ~Live(w) => Elapse(n)[w] = n[w]
<1> DEFINE Late(w) == {v \in Watches : (Live(v) /\ n[v] <= 0) /\ n[v] >= n[w]}
           rank(w) == Cardinality({n[v] : v \in Late(w)})
<1>1. ASSUME NEW w \in Watches PROVE rank(w) \in 0..Cardinality(Watches)
  BY ImageSize
<1>2. Elapse(n) = [w \in Watches |-> IF Live(w) /\ n[w] <= 0 THEN -rank(w)
                           ELSE IF Live(w) THEN n[w] - 1 ELSE n[w]]
  BY DEF Elapse
<1> HIDE DEF rank
<1>3. ASSUME NEW w \in Watches
      PROVE  /\ Elapse(n)[w] \in Countdown
             /\ Live(w) /\ n[w] <= 0 => Elapse(n)[w] <= 0
             /\ Live(w) /\ n[w] > 0 => Elapse(n)[w] = n[w] - 1
             /\ ~Live(w) => Elapse(n)[w] = n[w]
  BY <1>1, <1>2, ConstantTypes DEF Countdown
<1> QED
  BY <1>2, <1>3

\* The batch of a tick: at least one watch, at most Limit, all of them due and
\* no one twice.
LEMMA EarliestEffect ==
    ASSUME NEW S \in SUBSET Watches, S # {}, NEW b \in Earliest(S)
    PROVE  /\ b \in Seq(Watches) /\ b # <<>> /\ Len(b) <= Limit
           /\ \A k \in 1..Len(b) : b[k] \in S
           /\ \A j, k \in 1..Len(b) : j # k => b[j] # b[k]
<1> DEFINE n == IF Cardinality(S) < Limit THEN Cardinality(S) ELSE Limit
<1>1. IsFiniteSet(S)
  BY WatchesAssumption, FS_Subset
<1>2. Cardinality(S) \in Nat \ {0}
  BY <1>1, FS_CardinalityType, FS_EmptySet
<1>3. n \in Nat \ {0} /\ n <= Limit
  BY <1>2, ConstantTypes
<1>4. b \in [1..n -> S] /\ \A j, k \in 1..n : j < k => b[j] # b[k]
  BY DEF Earliest
<1> HIDE DEF n
<1>5. b \in [1..n -> Watches]
  BY <1>4
<1>6. b \in Seq(Watches) /\ Len(b) = n
  <2>1. b \in Seq(Watches)
    BY <1>3, <1>5, SeqDef
  <2> QED
    BY <1>3, <1>5, <2>1, LenProperties
<1> QED
  BY <1>3, <1>4, <1>6

----------------------------------------------------------------------------
(* Types.                                                                  *)

\* What WatchTypeOK says of one loop, of all loops and of the rows.
LoopOK(x) ==
    /\ x \in Loop
    /\ Len(x.batch) <= Limit
    /\ x.pc = "idle" <=> x.batch = <<>>
    /\ x.pc = "store" <=> x.row # NoRow
    /\ x.pc \in {"load", "store"} <=> x.result # "none"

LoopsOK == rep \in [Replicas -> Loop] /\ \A r \in Replicas : LoopOK(rep[r])

HistoryOK ==
    /\ asked \in [Watches -> BOOLEAN]
    /\ wait \in [Watches -> 0..Horizon]
    /\ streak \in [Watches -> Fails]

LEMMA TypeParts ==
    WatchTypeOK <=> /\ watch \in [Watches -> Row]
                    /\ LoopsOK /\ HistoryOK
                    /\ ops \in 0..MaxOps /\ crashes \in 0..MaxCrashes
BY DEF WatchTypeOK, LoopsOK, LoopOK, HistoryOK

\* A step of one replica: its loop changes and no other.
LEMMA LoopMoves ==
    ASSUME WatchTypeOK, NEW r \in Replicas, NEW x, LoopOK(x),
           rep' = [rep EXCEPT ![r] = x]
    PROVE  LoopsOK'
BY TypeParts DEF LoopsOK, LoopOK

LEMMA IdleOK == LoopOK(Idle)
<1>1. Idle.batch = <<>> /\ Len(<<>>) = 0 /\ <<>> \in Seq(Watches)
  BY EmptySeq DEF Idle
<1> QED
  BY <1>1, ConstantTypes DEF LoopOK, Idle, Loop, Results

\* The loop after one watch of its batch.
LEMMA NextOfOK ==
    ASSUME NEW b \in Seq(Watches), b # <<>>, Len(b) <= Limit
    PROVE  LoopOK(NextOf(b))
<1>1. CASE Len(b) = 1
  BY <1>1, IdleOK DEF NextOf
<1>2. CASE Len(b) # 1
  <2>1. Len(b) \in Nat \ {0} /\ Tail(b) \in Seq(Watches) /\ Len(Tail(b)) = Len(b) - 1
    BY EmptySeq, HeadTailProperties
  <2>2. Tail(b) # <<>> /\ Len(Tail(b)) <= Limit
    <3>1. Len(Tail(b)) \in Nat \ {0} /\ Len(Tail(b)) <= Limit
      BY <1>2, <2>1, ConstantTypes
    <3>2. Tail(b) = <<>> => Len(Tail(b)) = 0
      BY EmptySeq
    <3> QED
      BY <3>1, <3>2
  <2> QED
    BY <1>2, <2>1, <2>2 DEF NextOf, LoopOK, Loop, Results
<1> QED
  BY <1>1, <1>2

\* A loop that is not idle has a watch in hand.
LEMMA InHand ==
    ASSUME WatchTypeOK, NEW r \in Replicas, rep[r].pc # "idle"
    PROVE  /\ LoopOK(rep[r]) /\ rep[r] \in Loop
           /\ rep[r].batch \in Seq(Watches) /\ rep[r].batch # <<>>
           /\ Len(rep[r].batch) <= Limit /\ Head(rep[r].batch) \in Watches
<1>1. LoopOK(rep[r]) /\ rep[r] \in Loop
  BY TypeParts DEF LoopsOK
<1>2. /\ rep[r].batch \in Seq(Watches) /\ rep[r].batch # <<>>
      /\ Len(rep[r].batch) <= Limit
  BY <1>1 DEF LoopOK, Loop
<1> QED
  BY <1>1, <1>2, HeadTailProperties

LEMMA AbsentOK == \A s \in {"new", "gone"} : Absent(s) \in Row
<1>1. (CHOOSE i \in Intervals : TRUE) \in Intervals
  BY IntervalsAssumption
<1>2. 0 \in Countdown /\ 0 \in Fails
  BY ConstantTypes DEF Countdown, Fails
<1> QED
  BY <1>1, <1>2 DEF Absent, Row

LEMMA TypeInit == Init => WatchTypeOK
<1> SUFFICES ASSUME Init PROVE WatchTypeOK
  OBVIOUS
<1>1. watch \in [Watches -> Row]
  BY AbsentOK DEF Init
<1>2. LoopsOK
  <2>1. LoopOK(Idle) /\ Idle \in Loop
    BY IdleOK DEF LoopOK
  <2> QED
    BY <2>1 DEF Init, LoopsOK
<1>3. HistoryOK
  BY ConstantTypes DEF Init, HistoryOK, Fails
<1> QED
  BY <1>1, <1>2, <1>3, ConstantTypes, TypeParts DEF Init

\* record_result leaves a row of the right type.
LEMMA RecordedOK ==
    ASSUME NEW row \in Row, NEW old \in Loaded, NEW x \in Results
    PROVE  /\ Recorded(row, old, x) \in Row
           /\ Recorded(row, old, x).state = row.state
           /\ Recorded(row, old, x).enabled = row.enabled
           /\ Recorded(row, old, x).interval = row.interval
<1>1. /\ old.fails \in Fails /\ old.interval \in Intervals
      /\ row.fails \in Fails /\ row.next \in Countdown
      /\ row.status \in {"never", "ok", "error"}
  BY DEF Row, Loaded
<1>2. 0 \in Fails /\ 0 \in Countdown
  BY ConstantTypes DEF Fails, Countdown
<1>3. OneMore(old.fails) \in 1..MaxFails
  BY <1>1, ConstantTypes DEF Fails, OneMore
<1>4. OneMore(old.fails) \in Fails
  BY <1>3, ConstantTypes DEF Fails
<1>5. backoff_seconds(old.interval, OneMore(old.fails)) \in Countdown
  <2>1. backoff_seconds(old.interval, OneMore(old.fails)) \in 0..Cap
    BY <1>1, <1>3, Backoff
  <2> QED
    BY <2>1, HorizonMax, ConstantTypes DEF Countdown
<1>6. CASE x = "error"
  BY <1>1, <1>4, <1>5, <1>6 DEF Recorded, Row
<1>7. CASE x = "truncated"
  BY <1>1, <1>2, <1>7 DEF Recorded, Row
<1>8. CASE x \notin {"error", "truncated"}
  BY <1>1, <1>2, <1>8 DEF Recorded, Row
<1> QED
  BY <1>6, <1>7, <1>8

LEMMA TickType ==
    ASSUME WatchTypeOK, Tick
    PROVE  /\ WatchTypeOK'
           /\ \A w \in Watches :
                /\ watch'[w] = [watch[w] EXCEPT !.next = watch'[w].next]
                /\ Live(w) /\ watch[w].next <= 0 => watch'[w].next <= 0
                /\ Live(w) /\ watch[w].next > 0
                     => watch'[w].next = watch[w].next - 1
<1> DEFINE n == [w \in Watches |-> watch[w].next]
<1>0. /\ watch \in [Watches -> Row] /\ LoopsOK /\ HistoryOK
      /\ ops \in 0..MaxOps /\ crashes \in 0..MaxCrashes
  BY TypeParts
<1>1. n \in [Watches -> Countdown] /\ \A w \in Watches : n[w] = watch[w].next
  BY <1>0 DEF Row
<1>2. watch' = [w \in Watches |-> [watch[w] EXCEPT !.next = Elapse(n)[w]]]
  BY DEF Tick
<1> HIDE DEF n
<1>3. \A w \in Watches : watch'[w] = [watch[w] EXCEPT !.next = Elapse(n)[w]]
  BY <1>2
<1>4. Elapse(n) \in [Watches -> Countdown]
  BY <1>1, ElapseEffect
<1>5. ASSUME NEW w \in Watches PROVE watch'[w] \in Row /\ watch'[w].next = Elapse(n)[w]
  <2>1. watch[w] \in Row /\ Elapse(n)[w] \in Countdown
    BY <1>0, <1>4
  <2> QED
    BY <1>3, <2>1 DEF Row
<1>6. watch' \in [Watches -> Row]
  BY <1>2, <1>5
<1>7. HistoryOK'
  BY <1>0, ConstantTypes DEF Tick, HistoryOK
<1>8. LoopsOK' /\ ops' = ops /\ crashes' = crashes
  BY <1>0 DEF Tick, LoopsOK, LoopOK
<1>9. WatchTypeOK'
  BY <1>0, <1>6, <1>7, <1>8, TypeParts DEF WatchTypeOK, HistoryOK, LoopsOK, LoopOK
<1>10. \A w \in Watches :
         /\ Live(w) /\ watch[w].next <= 0 => watch'[w].next <= 0
         /\ Live(w) /\ watch[w].next > 0 => watch'[w].next = watch[w].next - 1
  BY <1>1, <1>5, ElapseEffect
<1> QED
  BY <1>3, <1>5, <1>9, <1>10

LEMMA AdminType ==
    ASSUME WatchTypeOK, Admin
    PROVE  WatchTypeOK'
<1>0. /\ watch \in [Watches -> Row] /\ LoopsOK /\ HistoryOK
      /\ ops \in 0..MaxOps /\ crashes \in 0..MaxCrashes
  BY TypeParts
<1>1. ASSUME Request PROVE LoopsOK' /\ ops' \in 0..MaxOps /\ crashes' \in 0..MaxCrashes
  BY <1>0, <1>1, ConstantTypes DEF Request, LoopsOK, LoopOK
<1>2. 0 \in Countdown /\ 0 \in Fails /\ 0 \in 0..Horizon
  BY ConstantTypes DEF Countdown, Fails
<1>3. ASSUME NEW w \in Watches, NEW i \in Intervals, NEW on \in BOOLEAN,
             create_watch(w, i, on)
      PROVE  WatchTypeOK'
  <2>1. watch' \in [Watches -> Row]
    <3> DEFINE r == [watch[w] EXCEPT !.state = "live", !.enabled = on,
                                     !.interval = i, !.next = 0]
    <3>1. watch' = [watch EXCEPT ![w] = r]
      BY <1>0, <1>3 DEF create_watch
    <3>2. r \in Row
      BY <1>0, <1>2 DEF Row
    <3> QED
      BY <1>0, <3>1, <3>2
  <2>2. HistoryOK'
    BY <1>0, <1>3 DEF create_watch, observed, HistoryOK
  <2> QED
    BY <1>1, <1>3, <2>1, <2>2 DEF create_watch, WatchTypeOK, HistoryOK, LoopsOK, LoopOK
<1>4. ASSUME NEW w \in Watches, NEW i \in Intervals, NEW on \in BOOLEAN,
             update_watch(w, i, on)
      PROVE  WatchTypeOK'
  <2>1. watch' \in [Watches -> Row]
    <3> DEFINE r == [watch[w] EXCEPT !.interval = i, !.enabled = on]
    <3>1. watch' = [watch EXCEPT ![w] = r]
      BY <1>0, <1>4 DEF update_watch
    <3>2. r \in Row
      BY <1>0 DEF Row
    <3> QED
      BY <1>0, <3>1, <3>2
  <2>2. HistoryOK'
    <3>1. (IF i < wait[w] THEN i ELSE wait[w]) \in 0..Horizon
      BY <1>0, HorizonMax DEF HistoryOK
    <3> QED
      BY <1>0, <1>4, <3>1 DEF update_watch, HistoryOK
  <2> QED
    BY <1>1, <1>4, <2>1, <2>2 DEF update_watch, WatchTypeOK, HistoryOK, LoopsOK, LoopOK
<1>5. ASSUME NEW w \in Watches, delete_watch(w) PROVE WatchTypeOK'
  <2>1. watch' \in [Watches -> Row]
    BY <1>0, <1>5, AbsentOK DEF delete_watch
  <2>2. HistoryOK'
    BY <1>0, <1>2, <1>5 DEF delete_watch, HistoryOK
  <2> QED
    BY <1>1, <1>5, <2>1, <2>2 DEF delete_watch, WatchTypeOK, HistoryOK, LoopsOK, LoopOK
<1>6. ASSUME NEW w \in Watches, run_now(w) PROVE WatchTypeOK'
  <2>1. watch' \in [Watches -> Row]
    BY <1>0, <1>2, <1>6 DEF run_now, Row
  <2>2. HistoryOK'
    BY <1>0, <1>2, <1>6 DEF run_now, HistoryOK
  <2> QED
    BY <1>1, <1>6, <2>1, <2>2 DEF run_now, WatchTypeOK, HistoryOK, LoopsOK, LoopOK
<1> QED
  BY <1>3, <1>4, <1>5, <1>6 DEF Admin

LEMMA LoopType ==
    ASSUME WatchTypeOK, NEW r \in Replicas,
           claim_due(r) \/ ScanEnds(r) \/ Record(r) \/ Crash(r)
    PROVE  WatchTypeOK'
<1>0. /\ watch \in [Watches -> Row] /\ LoopsOK /\ HistoryOK
      /\ ops \in 0..MaxOps /\ crashes \in 0..MaxCrashes
      /\ rep \in [Replicas -> Loop] /\ LoopOK(rep[r]) /\ rep[r] \in Loop
  BY TypeParts DEF LoopsOK
<1>1. ASSUME LoopsOK', UNCHANGED <<watch, ops, observed>>,
             crashes' \in 0..MaxCrashes
      PROVE  WatchTypeOK'
  BY <1>0, <1>1 DEF observed, WatchTypeOK, HistoryOK, LoopsOK, LoopOK
<1>2. CASE claim_due(r)
  <2>1. PICK b \in Earliest(Due) :
          /\ rep' = [rep EXCEPT ![r].pc = "scan", ![r].batch = b]
          /\ watch' = [w \in Watches |->
                IF Claimed(b, w)
                THEN [watch[w] EXCEPT !.next = watch[w].interval]
                ELSE watch[w]]
          /\ asked' = [w \in Watches |-> asked[w] /\ ~Claimed(b, w)]
          /\ wait' = [w \in Watches |->
                IF Claimed(b, w) THEN watch[w].interval ELSE wait[w]]
    BY <1>2 DEF claim_due
  <2>2. rep[r].pc = "idle" /\ Due # {} /\ Due \in SUBSET Watches
    BY <1>2 DEF claim_due, Due
  <2>3. b \in Seq(Watches) /\ b # <<>> /\ Len(b) <= Limit
    BY <2>1, <2>2, EarliestEffect
  <2>4. LoopsOK'
    <3> DEFINE x == [rep[r] EXCEPT !.pc = "scan", !.batch = b]
    <3>1. rep' = [rep EXCEPT ![r] = x]
      BY <1>0, <2>1
    <3>2. LoopOK(x)
      BY <1>0, <2>2, <2>3 DEF LoopOK, Loop
    <3> HIDE DEF x
    <3> QED
      BY <3>1, <3>2, LoopMoves
  <2>5. ASSUME NEW w \in Watches
        PROVE  watch[w].interval \in Countdown /\ watch[w].interval \in 0..Horizon
    <3>1. watch[w].interval \in Intervals
      BY <1>0 DEF Row
    <3> QED
      BY <3>1, HorizonMax, ConstantTypes DEF Countdown
  <2>6. watch' \in [Watches -> Row]
    BY <1>0, <2>1, <2>5 DEF Row
  <2>7. HistoryOK'
    <3>1. wait' \in [Watches -> 0..Horizon]
      BY <1>0, <2>1, <2>5 DEF HistoryOK
    <3>2. asked' \in [Watches -> BOOLEAN]
      BY <2>1
    <3>3. streak' \in [Watches -> Fails]
      BY <1>0, <1>2 DEF claim_due, HistoryOK
    <3> QED
      BY <3>1, <3>2, <3>3 DEF HistoryOK
  <2> QED
    BY <1>0, <1>2, <2>4, <2>6, <2>7
       DEF claim_due, WatchTypeOK, HistoryOK, LoopsOK, LoopOK
<1>3. CASE ScanEnds(r)
  <2>1. PICK res \in Results \ {"none"} :
          rep' = [rep EXCEPT ![r].pc = "load", ![r].result = res]
    BY <1>3 DEF ScanEnds
  <2> DEFINE x == [rep[r] EXCEPT !.pc = "load", !.result = res]
  <2>2. rep' = [rep EXCEPT ![r] = x]
    BY <1>0, <2>1
  <2>3. LoopOK(x)
    BY <1>0, <1>3 DEF ScanEnds, LoopOK, Loop
  <2> HIDE DEF x
  <2>4. LoopsOK'
    BY <2>2, <2>3, LoopMoves
  <2> QED
    BY <1>0, <1>1, <1>3, <2>4 DEF ScanEnds
<1>4. ASSUME rep' = [rep EXCEPT ![r] = NextOf(@.batch)], rep[r].pc # "idle"
      PROVE  LoopsOK'
  <2>1. LoopOK(NextOf(rep[r].batch))
    BY <1>4, InHand, NextOfOK
  <2>2. rep' = [rep EXCEPT ![r] = NextOf(rep[r].batch)]
    BY <1>4
  <2> QED
    BY <2>1, <2>2, LoopMoves
<1>5. CASE RecordLoad(r)
  <2> DEFINE w == Head(rep[r].batch)
  <2>1. w \in Watches /\ rep[r].pc = "load"
    BY <1>5, InHand DEF RecordLoad
  <2>2. CASE ~Live(w)
    <3>1. rep' = [rep EXCEPT ![r] = NextOf(@.batch)]
      BY <1>5, <2>2 DEF RecordLoad
    <3> QED
      BY <1>0, <1>1, <1>4, <1>5, <2>1, <3>1 DEF RecordLoad
  <2>3. CASE Live(w)
    <3> DEFINE row == [interval |-> watch[w].interval, fails |-> watch[w].fails,
                       status |-> watch[w].status]
               x == [rep[r] EXCEPT !.pc = "store", !.row = row]
    <3>1. rep' = [rep EXCEPT ![r] = x]
      BY <1>5, <2>3 DEF RecordLoad
    <3>2. row \in Loaded /\ row # NoRow
      BY <1>0, <2>1, NoRowAssumption DEF Row, Loaded
    <3> HIDE DEF row
    <3>3. LoopOK(x)
      BY <1>0, <2>1, <3>2 DEF LoopOK, Loop
    <3> HIDE DEF x
    <3>4. LoopsOK'
      BY <3>1, <3>3, LoopMoves
    <3> QED
      BY <1>0, <1>1, <1>5, <3>4 DEF RecordLoad
  <2> QED
    BY <2>2, <2>3
<1>6. CASE RecordStore(r)
  <2> DEFINE w == Head(rep[r].batch)
  <2>1. w \in Watches /\ rep[r].pc = "store"
    BY <1>6, InHand DEF RecordStore
  <2>2. rep[r].row \in Loaded /\ rep[r].result \in Results
    BY <1>0, <2>1 DEF LoopOK, Loop
  <2>3. LoopsOK'
    BY <1>4, <1>6, <2>1 DEF RecordStore
  <2>4. watch' \in [Watches -> Row]
    <3>1. watch' = [watch EXCEPT ![w] =
                      Recorded(watch[w], rep[r].row, rep[r].result)]
      BY <1>6 DEF RecordStore
    <3>2. Recorded(watch[w], rep[r].row, rep[r].result) \in Row
      BY <1>0, <2>1, <2>2, RecordedOK
    <3> QED
      BY <1>0, <2>1, <3>1, <3>2
  <2>5. HistoryOK'
    BY <1>0, <1>6, <2>1, ConstantTypes DEF RecordStore, HistoryOK, Fails, OneMore
  <2> QED
    BY <1>0, <1>6, <2>3, <2>4, <2>5
       DEF RecordStore, WatchTypeOK, HistoryOK, LoopsOK, LoopOK
<1>7. CASE RecordRaises(r)
  <2>1. rep[r].pc \in {"load", "store"}
        /\ UNCHANGED <<watch, ops, crashes, observed>>
    BY <1>7 DEF RecordRaises
  <2>2. CASE \E e \in ErrorTexts :
               rep' = [rep EXCEPT ![r].pc = "load", ![r].result = e,
                                  ![r].row = NoRow]
    <3>1. PICK e \in ErrorTexts :
               rep' = [rep EXCEPT ![r].pc = "load", ![r].result = e,
                                  ![r].row = NoRow]
      BY <2>2
    <3> DEFINE x == [rep[r] EXCEPT !.pc = "load", !.result = e, !.row = NoRow]
    <3>2. rep' = [rep EXCEPT ![r] = x]
      BY <1>0, <3>1
    <3>3. e \in Results /\ e # "none"
      BY ErrorsAssumption DEF Results
    <3>4. LoopOK(x)
      BY <1>0, <2>1, <3>3 DEF LoopOK, Loop
    <3> HIDE DEF x
    <3> QED
      BY <1>0, <1>1, <2>1, <3>2, <3>4, LoopMoves
  <2>3. CASE rep' = [rep EXCEPT ![r] = NextOf(@.batch)]
    BY <1>0, <1>1, <1>4, <2>1, <2>3
  <2> QED
    BY <1>7, <2>2, <2>3 DEF RecordRaises
<1>8. CASE Crash(r)
  <2>1. LoopsOK'
    BY <1>8, IdleOK, LoopMoves DEF Crash
  <2> QED
    BY <1>0, <1>1, <1>8, <2>1, ConstantTypes DEF Crash
<1> QED
  BY <1>2, <1>3, <1>5, <1>6, <1>7, <1>8 DEF Record

\* In particular next_run_at is never further away than the longest interval
\* or the back-off cap (WatchTypeOK: Countdown), whatever the replicas,
\* administrators, failures and crashes do.
THEOREM WatchTypes == Spec => []WatchTypeOK
<1>1. WatchTypeOK /\ UNCHANGED vars => WatchTypeOK'
  BY DEF vars, WatchTypeOK
<1>2. WatchTypeOK /\ Next => WatchTypeOK'
  BY TickType, AdminType, LoopType DEF Next
<1> QED
  BY <1>1, <1>2, TypeInit, PTL DEF Spec

----------------------------------------------------------------------------
(* The schedule.                                                           *)

SingleReplica == \A r, s \in Replicas : r = s

InHandOf(r) == Head(rep[r].batch)

\* What is left of the interval of the last claim is no more than the interval,
\* also as record_result has loaded it.
WaitWithin ==
    /\ \A w \in Watches : wait[w] > 0 => Live(w) /\ wait[w] <= watch[w].interval
    /\ \A r \in Replicas :
         rep[r].pc = "store" => wait[InHandOf(r)] <= rep[r].row.interval

ScheduleInv == WaitWithin /\ NotBeforeInterval

\* The row that record_result has loaded is still the row, unless the watch was
\* deleted; ids are not reused, so it cannot come back.
RowCurrent ==
    \A r \in Replicas : rep[r].pc = "store" =>
        LET w == InHandOf(r)
        IN  /\ watch[w].state # "new"
            /\ Live(w) => /\ watch[w].fails = rep[r].row.fails
                          /\ watch[w].status = rep[r].row.status

\* FailuresTruthful, of rows that do not exist yet or any more as well.
CountsTrue ==
    \A w \in Watches :
        /\ watch[w].fails = streak[w]
        /\ watch[w].status = "error" <=> streak[w] > 0

\* A request that came after the claim of a scan still in hand is intact: only
\* the record of that scan can put it off, and a batch names no watch twice.
RequestsInv ==
    /\ \A r \in Replicas : \A j, k \in 1..Len(rep[r].batch) :
         j # k => rep[r].batch[j] # rep[r].batch[k]
    /\ \A r \in Replicas : \A k \in 1..Len(rep[r].batch) :
         asked[rep[r].batch[k]] => watch[rep[r].batch[k]].next <= 0
    /\ \A w \in Watches :
         asked[w] => Live(w) /\ (watch[w].next <= 0 \/ watch[w].fails > 0)

\* The administrator's handlers touch no loop.
LEMMA AdminLeavesLoops == Admin => rep' = rep
<1>1. ASSUME NEW w, NEW i, NEW on, create_watch(w, i, on) \/ update_watch(w, i, on)
      PROVE  rep' = rep
  BY <1>1 DEF create_watch, update_watch, Request
<1>2. ASSUME NEW w, delete_watch(w) \/ run_now(w) PROVE rep' = rep
  BY <1>2 DEF delete_watch, run_now, Request
<1> QED
  BY <1>1, <1>2, Zenon DEF Admin

\* What a tick of the clock leaves alone.
LEMMA TickKeeps ==
    ASSUME WatchTypeOK, Tick, NEW w \in Watches
    PROVE  /\ watch'[w].state = watch[w].state /\ watch'[w].fails = watch[w].fails
           /\ watch'[w].interval = watch[w].interval
           /\ watch'[w].status = watch[w].status
           /\ Live(w)' = Live(w)
<1>1. watch'[w] = [watch[w] EXCEPT !.next = watch'[w].next] /\ watch[w] \in Row
  BY TickType DEF WatchTypeOK
<1> QED
  BY <1>1 DEF Row, Live

\* What a claim does, as seen from a watch and from the loops.
LEMMA ClaimEffect ==
    ASSUME WatchTypeOK, NEW r \in Replicas, claim_due(r)
    PROVE  \E b \in Seq(Watches) :
             /\ rep[r].pc = "idle" /\ b # <<>>
             /\ \A j, k \in 1..Len(b) : j # k => b[j] # b[k]
             /\ rep'[r].pc = "scan" /\ rep'[r].batch = b
             /\ \A s \in Replicas \ {r} : rep'[s] = rep[s]
             /\ \A w \in Watches :
                  /\ Claimed(b, w) => Live(w)
                  /\ watch'[w] = IF Claimed(b, w)
                                 THEN [watch[w] EXCEPT !.next = watch[w].interval]
                                 ELSE watch[w]
                  /\ asked'[w] = (asked[w] /\ ~Claimed(b, w))
                  /\ wait'[w] = IF Claimed(b, w) THEN watch[w].interval ELSE wait[w]
             /\ UNCHANGED <<ops, crashes, streak>>
<1>1. PICK b \in Earliest(Due) :
          /\ rep' = [rep EXCEPT ![r].pc = "scan", ![r].batch = b]
          /\ watch' = [w \in Watches |->
                IF Claimed(b, w)
                THEN [watch[w] EXCEPT !.next = watch[w].interval]
                ELSE watch[w]]
          /\ asked' = [w \in Watches |-> asked[w] /\ ~Claimed(b, w)]
          /\ wait' = [w \in Watches |->
                IF Claimed(b, w) THEN watch[w].interval ELSE wait[w]]
  BY DEF claim_due
<1>2. rep[r].pc = "idle" /\ Due # {} /\ Due \in SUBSET Watches
  BY DEF claim_due, Due
<1>3. /\ b \in Seq(Watches) /\ b # <<>>
      /\ \A k \in 1..Len(b) : b[k] \in Due
      /\ \A j, k \in 1..Len(b) : j # k => b[j] # b[k]
  BY <1>2, EarliestEffect
<1>4. \A w \in Watches : Claimed(b, w) => Live(w)
  BY <1>3 DEF Claimed, Due, Active
<1>5. /\ rep'[r].pc = "scan" /\ rep'[r].batch = b
      /\ \A s \in Replicas \ {r} : rep'[s] = rep[s]
  <2>1. rep \in [Replicas -> Loop] /\ rep[r] \in Loop
    BY DEF WatchTypeOK
  <2> QED
    BY <1>1, <2>1 DEF Loop
<1>6. \A w \in Watches :
        /\ watch'[w] = IF Claimed(b, w)
                       THEN [watch[w] EXCEPT !.next = watch[w].interval]
                       ELSE watch[w]
        /\ asked'[w] = (asked[w] /\ ~Claimed(b, w))
        /\ wait'[w] = IF Claimed(b, w) THEN watch[w].interval ELSE wait[w]
  BY <1>1
<1>7. UNCHANGED <<ops, crashes, streak>>
  BY DEF claim_due
<1> QED
  BY <1>2, <1>3, <1>4, <1>5, <1>6, <1>7

\* The columns after record_result, when the loaded row was the row.
LEMMA RecordedColumns ==
    ASSUME NEW row \in Row, NEW old \in Loaded, NEW x \in Results
    PROVE  /\ x = "error" => Recorded(row, old, x).next
                               = backoff_seconds(old.interval, OneMore(old.fails))
           /\ x = "truncated" => Recorded(row, old, x).next = 0
           /\ x \notin {"error", "truncated"}
                => Recorded(row, old, x).next = row.next
           /\ row.fails = old.fails => Recorded(row, old, x).fails
                               = IF x = "error" THEN OneMore(old.fails) ELSE 0
           /\ row.status = old.status => Recorded(row, old, x).status
                               = IF x = "error" THEN "error" ELSE "ok"
BY DEF Recorded, Row

LEMMA OneMoreRange == \A f \in Fails : OneMore(f) \in 1..MaxFails
BY ConstantTypes DEF Fails, OneMore

\* The flush of record_result, as seen from the watch in hand.
LEMMA StoreEffect ==
    ASSUME WatchTypeOK, NEW r \in Replicas, RecordStore(r)
    PROVE  LET w == InHandOf(r)
               x == rep[r].result
               old == rep[r].row
           IN  /\ rep[r].pc = "store" /\ w \in Watches /\ Live(w)
               /\ old \in Loaded /\ x \in Results \ {"none"}
               /\ watch[w] \in Row
               /\ watch'[w] = Recorded(watch[w], old, x)
               /\ watch'[w].interval = watch[w].interval
               /\ watch'[w].state = watch[w].state
               /\ wait'[w] = IF x = "truncated" THEN 0 ELSE wait[w]
               /\ streak'[w] = IF x \in ErrorTexts THEN OneMore(streak[w]) ELSE 0
               /\ \A v \in Watches \ {w} :
                    watch'[v] = watch[v] /\ wait'[v] = wait[v] /\ streak'[v] = streak[v]
               /\ rep'[r] = NextOf(rep[r].batch)
               /\ \A s \in Replicas \ {r} : rep'[s] = rep[s]
               /\ asked' = asked
<1> DEFINE w == InHandOf(r)
           x == rep[r].result
           old == rep[r].row
<1>0. /\ watch \in [Watches -> Row] /\ rep \in [Replicas -> Loop]
      /\ wait \in [Watches -> 0..Horizon] /\ streak \in [Watches -> Fails]
  BY DEF WatchTypeOK
<1>1. w \in Watches /\ rep[r].pc = "store" /\ rep[r] \in Loop /\ LoopOK(rep[r])
  BY InHand DEF RecordStore, InHandOf
<1>2. old \in Loaded /\ x \in Results \ {"none"} /\ watch[w] \in Row
  BY <1>0, <1>1 DEF LoopOK, Loop
<1>3. /\ Live(w) /\ asked' = asked
      /\ watch' = [watch EXCEPT ![w] = Recorded(watch[w], old, x)]
      /\ rep' = [rep EXCEPT ![r] = NextOf(rep[r].batch)]
      /\ wait' = [wait EXCEPT ![w] = IF x = "truncated" THEN 0 ELSE wait[w]]
      /\ streak' = [streak EXCEPT ![w] =
                      IF x \in ErrorTexts THEN OneMore(streak[w]) ELSE 0]
  BY DEF RecordStore, InHandOf
<1> HIDE DEF w, x, old
<1>4. /\ watch'[w] = Recorded(watch[w], old, x)
      /\ wait'[w] = IF x = "truncated" THEN 0 ELSE wait[w]
      /\ streak'[w] = IF x \in ErrorTexts THEN OneMore(streak[w]) ELSE 0
      /\ \A v \in Watches \ {w} :
           watch'[v] = watch[v] /\ wait'[v] = wait[v] /\ streak'[v] = streak[v]
      /\ rep'[r] = NextOf(rep[r].batch)
      /\ \A s \in Replicas \ {r} : rep'[s] = rep[s]
  BY <1>0, <1>1, <1>3
<1>5. watch'[w].interval = watch[w].interval /\ watch'[w].state = watch[w].state
  BY <1>2, <1>4, RecordedOK
<1> QED
  BY <1>1, <1>2, <1>3, <1>4, <1>5 DEF w, x, old

\* Only record_result's SELECT leads to its flush, with the row as it is.
LEMMA LoadEffect ==
    ASSUME WatchTypeOK, NEW r \in Replicas,
           RecordLoad(r) \/ RecordRaises(r) \/ ScanEnds(r) \/ Crash(r),
           rep'[r].pc = "store"
    PROVE  LET w == InHandOf(r)
           IN  /\ w \in Watches /\ Live(w) /\ InHandOf(r)' = w
               /\ rep'[r].row.interval = watch[w].interval
               /\ rep'[r].row.fails = watch[w].fails
               /\ rep'[r].row.status = watch[w].status
<1>0. rep \in [Replicas -> Loop] /\ rep[r] \in Loop
  BY DEF WatchTypeOK
<1>1. ~ScanEnds(r) /\ ~Crash(r)
  BY <1>0 DEF ScanEnds, Crash, Idle, Loop
<1>2. ~RecordRaises(r)
  <2>1. rep' # [rep EXCEPT ![r] = NextOf(@.batch)]
    BY <1>0 DEF NextOf, Idle
  <2>2. \A e : rep' # [rep EXCEPT ![r].pc = "load", ![r].result = e,
                                  ![r].row = NoRow]
    BY <1>0 DEF Loop
  <2> QED
    BY <2>1, <2>2 DEF RecordRaises
<1>3. RecordLoad(r)
  BY <1>1, <1>2
<1>4. /\ rep[r].pc = "load" /\ Live(InHandOf(r)) /\ rep'[r].batch = rep[r].batch
      /\ rep'[r].row.interval = watch[InHandOf(r)].interval
      /\ rep'[r].row.fails = watch[InHandOf(r)].fails
      /\ rep'[r].row.status = watch[InHandOf(r)].status
  BY <1>0, <1>3 DEF RecordLoad, NextOf, Idle, InHandOf, Loop
<1>5. InHandOf(r) \in Watches /\ InHandOf(r)' = InHandOf(r)
  BY <1>4, InHand DEF InHandOf
<1> QED
  BY <1>4, <1>5

IntervalsWithinCap == \A i \in Intervals : i <= Cap
OneInterval == \A i, j \in Intervals : i = j

LEMMA ScheduleStep ==
    ASSUME IntervalsWithinCap, SingleReplica \/ OneInterval,
           WatchTypeOK, WatchTypeOK', ScheduleInv, Next
    PROVE  ScheduleInv'
<1> DEFINE Waits == \A w \in Watches :
                      wait[w] > 0 => Live(w) /\ wait[w] <= watch[w].interval
           Stores == \A r \in Replicas : rep[r].pc = "store" =>
                       wait[InHandOf(r)] <= rep[r].row.interval
<1>0. /\ watch \in [Watches -> Row] /\ wait \in [Watches -> 0..Horizon]
      /\ wait' \in [Watches -> 0..Horizon] /\ watch' \in [Watches -> Row]
      /\ rep \in [Replicas -> Loop] /\ Waits /\ Stores /\ NotBeforeInterval
  BY DEF WatchTypeOK, ScheduleInv, WaitWithin
<1>1. \A w \in Watches : /\ wait[w] \in Nat /\ wait'[w] \in Nat
                         /\ watch[w].interval \in Nat /\ watch[w].next \in Int
                         /\ watch'[w].next \in Int /\ watch'[w].interval \in Nat
  BY <1>0, HorizonMax, ConstantTypes DEF Row, Countdown
<1>2. \A r \in Replicas : rep[r].pc = "store" =>
         /\ InHandOf(r) \in Watches /\ rep[r].row.interval \in Intervals
         /\ rep[r].row.interval \in Nat
  <2> SUFFICES ASSUME NEW r \in Replicas, rep[r].pc = "store"
               PROVE  InHandOf(r) \in Watches /\ rep[r].row.interval \in Intervals
    BY HorizonMax
  <2>1. InHandOf(r) \in Watches /\ rep[r] \in Loop /\ LoopOK(rep[r])
    BY InHand DEF InHandOf
  <2>2. rep[r].row \in Loaded
    BY <2>1 DEF LoopOK, Loop
  <2> QED
    BY <2>1, <2>2 DEF Loaded
<1>3. ASSUME Waits', NotBeforeInterval',
             SingleReplica => Stores'
      PROVE  ScheduleInv'
  <2>1. CASE SingleReplica
    BY <1>3, <2>1 DEF ScheduleInv, WaitWithin
  <2>2. CASE OneInterval
    <3>1. ASSUME NEW r \in Replicas, rep'[r].pc = "store"
          PROVE  wait'[InHandOf(r)'] <= rep'[r].row.interval
      <4>1. /\ rep'[r].batch \in Seq(Watches) /\ rep'[r].batch # <<>>
            /\ rep'[r].row \in Loaded
        BY <3>1 DEF WatchTypeOK, Loop
      <4>2. InHandOf(r)' \in Watches
        BY <4>1, HeadTailProperties DEF InHandOf
      <4>3. /\ rep'[r].row.interval = watch'[InHandOf(r)'].interval
            /\ rep'[r].row.interval \in Nat
        BY <1>0, <2>2, <4>1, <4>2, HorizonMax DEF Row, Loaded, OneInterval
      <4> QED
        BY <1>1, <1>3, <4>2, <4>3
    <3> QED
      BY <1>3, <3>1 DEF ScheduleInv, WaitWithin, InHandOf
  <2> QED
    BY <2>1, <2>2
<1>4. CASE Tick
  <2>1. \A w \in Watches :
          /\ wait'[w] = IF wait[w] > 0 THEN wait[w] - 1 ELSE 0
          /\ watch'[w].interval = watch[w].interval
          /\ Live(w)' = Live(w)
          /\ Live(w) /\ watch[w].next > 0 => watch'[w].next = watch[w].next - 1
    BY <1>4, TickType, TickKeeps DEF Tick
  <2>2. Waits'
    BY <1>0, <1>1, <2>1
  <2>3. NotBeforeInterval'
    BY <1>0, <1>1, <2>1 DEF NotBeforeInterval
  <2>4. Stores'
    <3>1. rep' = rep
      BY <1>4 DEF Tick
    <3>2. \A r \in Replicas : InHandOf(r)' = InHandOf(r)
      BY <3>1 DEF InHandOf
    <3> QED
      BY <1>0, <1>1, <1>2, <2>1, <3>1, <3>2
  <2> QED
    BY <1>3, <2>2, <2>3, <2>4
<1>5. CASE Admin
  <2>1. rep' = rep
    BY <1>5, AdminLeavesLoops
  <2>2. \A r \in Replicas : InHandOf(r)' = InHandOf(r)
    BY <2>1 DEF InHandOf
  <2>3. ASSUME NEW w \in Watches,
               \A v \in Watches \ {w} : watch'[v] = watch[v] /\ wait'[v] = wait[v],
               wait'[w] <= wait[w],
               wait'[w] > 0 => /\ watch'[w].state = watch[w].state
                               /\ wait'[w] <= watch'[w].interval
                               /\ watch'[w].next = watch[w].next
        PROVE  ScheduleInv'
    <3>1. \A v \in Watches : wait'[v] <= wait[v] /\ (v # w => Live(v)' = Live(v))
      BY <1>1, <2>3 DEF Live
    <3>2. wait'[w] > 0 => Live(w)' = Live(w) /\ Live(w)
      BY <1>0, <1>1, <2>3 DEF Live
    <3>3. Waits'
      BY <1>0, <1>1, <2>3, <3>1, <3>2
    <3>4. NotBeforeInterval'
      BY <1>0, <1>1, <2>3, <3>1, <3>2 DEF NotBeforeInterval
    <3>5. Stores'
      BY <1>0, <1>1, <1>2, <2>1, <2>2, <3>1
    <3> QED
      BY <1>3, <3>3, <3>4, <3>5
  <2>4. ASSUME NEW w \in Watches, NEW i \in Intervals, NEW on \in BOOLEAN,
               create_watch(w, i, on)
        PROVE  ScheduleInv'
    <3>1. wait[w] = 0 /\ wait' = wait
      BY <1>0, <1>1, <2>4 DEF create_watch, observed, Live
    <3>2. \A v \in Watches \ {w} : watch'[v] = watch[v]
      BY <1>0, <2>4 DEF create_watch
    <3> QED
      BY <2>3, <3>1, <3>2
  <2>5. ASSUME NEW w \in Watches, NEW i \in Intervals, NEW on \in BOOLEAN,
               update_watch(w, i, on)
        PROVE  ScheduleInv'
    <3>1. wait'[w] = IF i < wait[w] THEN i ELSE wait[w]
      BY <1>0, <2>5 DEF update_watch
    <3>2. /\ watch'[w].state = watch[w].state /\ watch'[w].interval = i
          /\ watch'[w].next = watch[w].next
      BY <1>0, <2>5 DEF update_watch, Row
    <3>3. \A v \in Watches \ {w} : watch'[v] = watch[v] /\ wait'[v] = wait[v]
      BY <1>0, <2>5 DEF update_watch
    <3>4. i \in Nat
      BY HorizonMax
    <3> QED
      BY <1>1, <2>3, <3>1, <3>2, <3>3, <3>4
  <2>6. ASSUME NEW w \in Watches, delete_watch(w) \/ run_now(w)
        PROVE  ScheduleInv'
    <3>1. /\ wait'[w] = 0
          /\ \A v \in Watches \ {w} : watch'[v] = watch[v] /\ wait'[v] = wait[v]
      BY <1>0, <2>6 DEF delete_watch, run_now
    <3> QED
      BY <1>1, <2>3, <3>1
  <2> QED
    BY <1>5, <2>4, <2>5, <2>6 DEF Admin
<1>6. ASSUME NEW r \in Replicas, claim_due(r) PROVE ScheduleInv'
  <2>1. PICK b \in Seq(Watches) :
             /\ rep[r].pc = "idle"
             /\ rep'[r].pc = "scan"
             /\ \A w \in Watches :
                  /\ Claimed(b, w) => Live(w)
                  /\ watch'[w] = IF Claimed(b, w)
                                 THEN [watch[w] EXCEPT !.next = watch[w].interval]
                                 ELSE watch[w]
                  /\ wait'[w] = IF Claimed(b, w) THEN watch[w].interval ELSE wait[w]
    BY <1>6, ClaimEffect
  <2>2. ASSUME NEW w \in Watches
        PROVE  /\ watch'[w].interval = watch[w].interval /\ Live(w)' = Live(w)
               /\ Claimed(b, w) => /\ watch'[w].next = watch[w].interval
                                   /\ wait'[w] = watch[w].interval
               /\ ~Claimed(b, w) => /\ watch'[w].next = watch[w].next
                                    /\ wait'[w] = wait[w]
    BY <1>0, <2>1, SMTT(30) DEF Row, Live
  <2>3. Waits'
    BY <1>0, <1>1, <2>1, <2>2
  <2>4. NotBeforeInterval'
    <3> SUFFICES ASSUME NEW w \in Watches, Live(w), wait'[w] > 0
                 PROVE  watch'[w].next >= wait'[w]
      BY <2>2 DEF NotBeforeInterval
    <3>1. CASE Claimed(b, w)
      BY <1>1, <2>2, <3>1
    <3>2. CASE ~Claimed(b, w)
      BY <1>0, <2>2, <3>2 DEF NotBeforeInterval
    <3> QED
      BY <3>1, <3>2
  <2>5. SingleReplica => Stores'
    BY <2>1 DEF SingleReplica
  <2> QED
    BY <1>3, <2>3, <2>4, <2>5
<1>7. ASSUME NEW r \in Replicas, RecordStore(r) PROVE ScheduleInv'
  <2> DEFINE w == InHandOf(r)
             x == rep[r].result
             old == rep[r].row
  <2>1. /\ rep[r].pc = "store" /\ w \in Watches /\ Live(w)
        /\ old \in Loaded /\ x \in Results \ {"none"} /\ watch[w] \in Row
        /\ watch'[w] = Recorded(watch[w], old, x)
        /\ watch'[w].interval = watch[w].interval
        /\ watch'[w].state = watch[w].state
        /\ wait'[w] = IF x = "truncated" THEN 0 ELSE wait[w]
        /\ \A v \in Watches \ {w} : watch'[v] = watch[v] /\ wait'[v] = wait[v]
        /\ rep'[r] = NextOf(rep[r].batch)
    BY <1>7, StoreEffect
  <2>2. wait[w] <= old.interval /\ old.interval \in Intervals /\ old.fails \in Fails
    BY <1>0, <2>1 DEF Loaded
  <2> HIDE DEF w, x, old
  <2>3. x = "error" => watch'[w].next >= wait[w]
    <3>1. OneMore(old.fails) \in 1..MaxFails
      BY <2>2, OneMoreRange
    <3>2. /\ backoff_seconds(old.interval, OneMore(old.fails)) >= old.interval
          /\ backoff_seconds(old.interval, OneMore(old.fails)) \in 0..Cap
      BY <2>2, <3>1, Backoff DEF IntervalsWithinCap
    <3>3. old.interval \in Nat
      BY <2>2, HorizonMax
    <3> QED
      BY <1>1, <2>1, <2>2, <3>2, <3>3, ConstantTypes, RecordedColumns
  <2>4. x \notin {"error", "truncated"} => watch'[w].next = watch[w].next
    BY <2>1, RecordedColumns
  <2>5. \A v \in Watches : Live(v)' = Live(v)
    BY <2>1 DEF Live
  <2>6. Waits'
    BY <1>0, <1>1, <2>1, <2>5
  <2>7. NotBeforeInterval'
    BY <1>0, <1>1, <2>1, <2>3, <2>4, <2>5 DEF NotBeforeInterval
  <2>8. rep'[r].pc # "store"
    BY <2>1 DEF NextOf, Idle
  <2>9. SingleReplica => Stores'
    BY <2>8 DEF SingleReplica
  <2> QED
    BY <1>3, <2>6, <2>7, <2>9
<1>8. ASSUME NEW r \in Replicas,
             RecordLoad(r) \/ RecordRaises(r) \/ ScanEnds(r) \/ Crash(r)
      PROVE  ScheduleInv'
  <2>1. watch' = watch /\ wait' = wait
    BY <1>8 DEF RecordLoad, RecordRaises, ScanEnds, Crash, observed
  <2>2. Waits' /\ NotBeforeInterval'
    BY <1>0, <2>1 DEF NotBeforeInterval, Live
  <2>3. SingleReplica => Stores'
    <3> SUFFICES ASSUME rep'[r].pc = "store"
                 PROVE  wait'[InHandOf(r)'] <= rep'[r].row.interval
      BY DEF SingleReplica, InHandOf
    <3>1. /\ InHandOf(r) \in Watches /\ Live(InHandOf(r))
          /\ InHandOf(r)' = InHandOf(r)
          /\ rep'[r].row.interval = watch[InHandOf(r)].interval
      BY <1>8, LoadEffect
    <3> QED
      BY <1>0, <1>1, <2>1, <3>1
  <2> QED
    BY <1>3, <2>2, <2>3
<1> QED
  BY <1>4, <1>5, <1>6, <1>7, <1>8 DEF Next, Record

\* A claimed watch is not due again before its interval is over, but for a
\* request or a truncated scan.  True of one API process; of several as well
\* if all watches have one interval.  The intervals must be within the cap:
\* the back-off of a longer one is shorter than the interval itself.
THEOREM OneReplicaKeepsIntervals ==
    ASSUME IntervalsWithinCap, SingleReplica \/ OneInterval
    PROVE  Spec => []NotBeforeInterval
<1>1. Init => ScheduleInv
  BY DEF Init, ScheduleInv, WaitWithin, NotBeforeInterval, Idle
<1>2. WatchTypeOK /\ WatchTypeOK' /\ ScheduleInv /\ [Next]_vars => ScheduleInv'
  <2>1. ScheduleInv /\ UNCHANGED vars => ScheduleInv'
    BY DEF vars, ScheduleInv, WaitWithin, NotBeforeInterval, Live, InHandOf
  <2> QED
    BY <2>1, ScheduleStep
<1>3. ScheduleInv => NotBeforeInterval
  BY DEF ScheduleInv
<1> QED
  BY <1>1, <1>2, <1>3, WatchTypes, PTL DEF Spec

----------------------------------------------------------------------------
(* What the row says of failures.                                          *)

LEMMA RowCurrentStep ==
    ASSUME SingleReplica, WatchTypeOK, RowCurrent, Next
    PROVE  RowCurrent'
<1>0. watch \in [Watches -> Row] /\ rep \in [Replicas -> Loop]
  BY DEF WatchTypeOK
<1>1. \A r \in Replicas : rep[r].pc = "store" =>
         /\ InHandOf(r) \in Watches /\ watch[InHandOf(r)].state # "new"
         /\ Live(InHandOf(r)) => /\ watch[InHandOf(r)].fails = rep[r].row.fails
                                 /\ watch[InHandOf(r)].status = rep[r].row.status
  BY InHand DEF RowCurrent, InHandOf
<1>2. ASSUME rep' = rep,
             \A w \in Watches :
               watch[w].state # "new" =>
                 /\ watch'[w].state # "new"
                 /\ watch'[w].state = "live" =>
                      /\ watch[w].state = "live" /\ watch'[w].fails = watch[w].fails
                      /\ watch'[w].status = watch[w].status
      PROVE  RowCurrent'
  BY <1>1, <1>2 DEF RowCurrent, InHandOf, Live
<1>3. CASE Tick
  BY <1>2, <1>3, TickKeeps DEF Tick
<1>4. CASE Admin
  <2>1. rep' = rep
    BY <1>4, AdminLeavesLoops
  <2>2. ASSUME NEW w \in Watches, NEW i \in Intervals, NEW on \in BOOLEAN,
               create_watch(w, i, on)
        PROVE  RowCurrent'
    <3>1. watch[w].state = "new" /\ \A v \in Watches \ {w} : watch'[v] = watch[v]
      BY <1>0, <2>2 DEF create_watch
    <3> QED
      BY <1>2, <2>1, <3>1
  <2>3. ASSUME NEW w \in Watches, NEW i \in Intervals, NEW on \in BOOLEAN,
               update_watch(w, i, on) \/ run_now(w)
        PROVE  RowCurrent'
    <3>1. \A v \in Watches : /\ watch'[v].state = watch[v].state
                             /\ watch'[v].fails = watch[v].fails
                             /\ watch'[v].status = watch[v].status
      <4>1. CASE update_watch(w, i, on)
        BY <1>0, <4>1 DEF update_watch, Row
      <4>2. CASE run_now(w)
        BY <1>0, <4>2 DEF run_now, Row
      <4> QED
        BY <2>3, <4>1, <4>2
    <3> QED
      BY <1>2, <2>1, <3>1
  <2>4. ASSUME NEW w \in Watches, delete_watch(w) PROVE RowCurrent'
    <3>1. watch'[w].state = "gone" /\ \A v \in Watches \ {w} : watch'[v] = watch[v]
      BY <1>0, <2>4 DEF delete_watch, Absent
    <3> QED
      BY <1>2, <2>1, <3>1
  <2>5. \A w \in Watches : run_now(w) => RowCurrent'
    BY <2>3, IntervalsAssumption
  <2> QED
    BY <1>4, <2>2, <2>3, <2>4, <2>5 DEF Admin
<1>5. ASSUME NEW r \in Replicas, rep'[r].pc # "store" PROVE RowCurrent'
  BY <1>5 DEF SingleReplica, RowCurrent
<1>6. ASSUME NEW r \in Replicas, claim_due(r) PROVE RowCurrent'
  <2>1. rep'[r].pc = "scan"
    BY <1>6, ClaimEffect
  <2> QED
    BY <1>5, <2>1
<1>7. ASSUME NEW r \in Replicas, RecordStore(r) PROVE RowCurrent'
  <2>1. rep'[r] = NextOf(rep[r].batch)
    BY <1>7, StoreEffect
  <2> QED
    BY <1>5, <2>1 DEF NextOf, Idle
<1>8. ASSUME NEW r \in Replicas,
             RecordLoad(r) \/ RecordRaises(r) \/ ScanEnds(r) \/ Crash(r)
      PROVE  RowCurrent'
  <2>1. watch' = watch
    BY <1>8 DEF RecordLoad, RecordRaises, ScanEnds, Crash
  <2>2. CASE rep'[r].pc = "store"
    <3>1. /\ InHandOf(r) \in Watches /\ Live(InHandOf(r))
          /\ InHandOf(r)' = InHandOf(r)
          /\ rep'[r].row.fails = watch[InHandOf(r)].fails
          /\ rep'[r].row.status = watch[InHandOf(r)].status
      BY <1>8, <2>2, LoadEffect
    <3>2. watch'[InHandOf(r)'].state # "new"
      BY <2>1, <3>1 DEF Live
    <3>3. \A s \in Replicas : s = r
      BY DEF SingleReplica
    <3> QED
      BY <2>1, <3>1, <3>2, <3>3 DEF RowCurrent, InHandOf
  <2> QED
    BY <1>5, <2>2
<1> QED
  BY <1>3, <1>4, <1>6, <1>7, <1>8 DEF Next, Record

LEMMA CountsStep ==
    ASSUME SingleReplica, "blank" \notin ErrorTexts,
           WatchTypeOK, RowCurrent, CountsTrue, Next
    PROVE  CountsTrue'
<1>0. /\ watch \in [Watches -> Row] /\ rep \in [Replicas -> Loop]
      /\ streak \in [Watches -> Fails]
  BY DEF WatchTypeOK
<1>1. CASE Tick
  BY <1>1, TickKeeps DEF Tick, CountsTrue
<1>2. ASSUME NEW w \in Watches, NEW i \in Intervals, NEW on \in BOOLEAN,
             create_watch(w, i, on) \/ update_watch(w, i, on) \/ run_now(w)
      PROVE  CountsTrue'
  <2>1. streak' = streak
    BY <1>2 DEF create_watch, update_watch, run_now, observed
  <2>2. \A v \in Watches : /\ watch'[v].fails = watch[v].fails
                           /\ watch'[v].status = watch[v].status
    <3>1. CASE create_watch(w, i, on)
      BY <1>0, <3>1 DEF create_watch, Row
    <3>2. CASE update_watch(w, i, on)
      BY <1>0, <3>2 DEF update_watch, Row
    <3>3. CASE run_now(w)
      BY <1>0, <3>3 DEF run_now, Row
    <3> QED
      BY <1>2, <3>1, <3>2, <3>3
  <2> QED
    BY <2>1, <2>2 DEF CountsTrue
<1>3. ASSUME NEW w \in Watches, delete_watch(w) PROVE CountsTrue'
  BY <1>0, <1>3 DEF delete_watch, Absent, CountsTrue
<1>4. CASE Admin
  <2>1. \A w \in Watches : run_now(w) => CountsTrue'
    BY <1>2, IntervalsAssumption
  <2> QED
    BY <1>2, <1>3, <1>4, <2>1 DEF Admin
<1>5. ASSUME NEW r \in Replicas, claim_due(r) PROVE CountsTrue'
  <2>1. PICK b \in Seq(Watches) :
             /\ \A w \in Watches :
                  watch'[w] = IF Claimed(b, w)
                              THEN [watch[w] EXCEPT !.next = watch[w].interval]
                              ELSE watch[w]
             /\ streak' = streak
    BY <1>5, ClaimEffect
  <2>2. \A v \in Watches : /\ watch'[v].fails = watch[v].fails
                           /\ watch'[v].status = watch[v].status
    BY <1>0, <2>1 DEF Row
  <2> QED
    BY <2>1, <2>2 DEF CountsTrue
<1>6. ASSUME NEW r \in Replicas, RecordStore(r) PROVE CountsTrue'
  <2> DEFINE w == InHandOf(r)
             x == rep[r].result
             old == rep[r].row
  <2>1. /\ rep[r].pc = "store" /\ w \in Watches /\ Live(w)
        /\ old \in Loaded /\ x \in Results \ {"none"} /\ watch[w] \in Row
        /\ watch'[w] = Recorded(watch[w], old, x)
        /\ streak'[w] = IF x \in ErrorTexts THEN OneMore(streak[w]) ELSE 0
        /\ \A v \in Watches \ {w} : watch'[v] = watch[v] /\ streak'[v] = streak[v]
    BY <1>6, StoreEffect
  <2>2. watch[w].fails = old.fails /\ watch[w].status = old.status
    BY <2>1 DEF RowCurrent
  <2> HIDE DEF w, x, old
  <2>3. /\ watch'[w].fails = IF x = "error" THEN OneMore(old.fails) ELSE 0
        /\ watch'[w].status = IF x = "error" THEN "error" ELSE "ok"
    BY <2>1, <2>2, RecordedColumns
  <2>4. x \in ErrorTexts <=> x = "error"
    BY <2>1, ErrorsAssumption DEF Results
  <2>5. watch[w].fails = streak[w] /\ OneMore(streak[w]) \in 1..MaxFails
    BY <1>0, <2>1, OneMoreRange DEF CountsTrue
  <2>6. /\ watch'[w].fails = streak'[w]
        /\ watch'[w].status = "error" <=> streak'[w] > 0
    BY <2>1, <2>2, <2>3, <2>4, <2>5
  <2> QED
    BY <2>1, <2>6 DEF CountsTrue
<1>7. ASSUME NEW r \in Replicas,
             RecordLoad(r) \/ RecordRaises(r) \/ ScanEnds(r) \/ Crash(r)
      PROVE  CountsTrue'
  BY <1>7 DEF RecordLoad, RecordRaises, ScanEnds, Crash, observed, CountsTrue
<1> QED
  BY <1>1, <1>4, <1>5, <1>6, <1>7 DEF Next, Record

LEMMA InitRows == Init => RowCurrent /\ CountsTrue
BY DEF Init, RowCurrent, CountsTrue, Idle, Absent

LEMMA RowCurrentInvariance ==
    ASSUME SingleReplica
    PROVE  Spec => []RowCurrent
<1>1. RowCurrent /\ UNCHANGED vars => RowCurrent'
  BY DEF vars, RowCurrent, Live, InHandOf
<1>2. WatchTypeOK /\ RowCurrent /\ Next => RowCurrent'
  BY RowCurrentStep
<1> QED
  BY <1>1, <1>2, InitRows, WatchTypes, PTL DEF Spec

\* With one API process, and errors that say something, consecutive_failures
\* and last_status tell the truth, whatever is deleted, changed, requested or
\* killed while a scan runs.  (An error whose text is empty is recorded as a
\* good scan, and two processes can overwrite each other's count.)
THEOREM OneReplicaCountsFailures ==
    ASSUME SingleReplica, "blank" \notin ErrorTexts
    PROVE  Spec => []FailuresTruthful
<1>1. CountsTrue /\ UNCHANGED vars => CountsTrue'
  BY DEF vars, CountsTrue
<1>2. WatchTypeOK /\ RowCurrent /\ CountsTrue /\ Next => CountsTrue'
  BY CountsStep
<1>3. CountsTrue => FailuresTruthful
  BY DEF CountsTrue, FailuresTruthful
<1> QED
  BY <1>1, <1>2, <1>3, InitRows, RowCurrentInvariance, WatchTypes, PTL DEF Spec

----------------------------------------------------------------------------
(* "Run now".                                                              *)

\* The three parts of RequestsInv for a batch b in hand.
Intact(b) ==
    /\ \A j, k \in 1..Len(b) : j # k => b[j] # b[k]
    /\ \A k \in 1..Len(b) : asked[b[k]] => watch[b[k]].next <= 0

Kept(w) == asked[w] => Live(w) /\ (watch[w].next <= 0 \/ watch[w].fails > 0)

LEMMA RequestParts ==
    RequestsInv <=> /\ \A r \in Replicas : Intact(rep[r].batch)
                    /\ \A w \in Watches : Kept(w)
BY DEF RequestsInv, Intact, Kept

LEMMA EmptyIntact == Intact(<<>>)
<1>1. Len(<<>>) = 0
  BY EmptySeq
<1> QED
  BY <1>1 DEF Intact

\* What is left of a batch after its first watch: the others, and not it.
LEMMA RestOfBatch ==
    ASSUME NEW b \in Seq(Watches), b # <<>>,
           \A j, k \in 1..Len(b) : j # k => b[j] # b[k]
    PROVE  LET c == NextOf(b).batch
           IN  /\ \A j, k \in 1..Len(c) : j # k => c[j] # c[k]
               /\ \A k \in 1..Len(c) : /\ c[k] # Head(b)
                                       /\ \E j \in 1..Len(b) : c[k] = b[j]
<1>1. CASE Len(b) = 1
  <2>1. NextOf(b).batch = <<>> /\ Len(<<>>) = 0
    BY <1>1, EmptySeq DEF NextOf, Idle
  <2> QED
    BY <2>1
<1>2. CASE Len(b) # 1
  <2>1. NextOf(b).batch = Tail(b)
    BY <1>2 DEF NextOf
  <2>2. /\ Len(b) \in Nat \ {0} /\ Len(Tail(b)) = Len(b) - 1
        /\ \A k \in 1..Len(Tail(b)) : Tail(b)[k] = b[k + 1]
        /\ Head(b) = b[1]
    BY EmptySeq, HeadTailProperties
  <2>3. \A k \in 1..Len(Tail(b)) : k + 1 \in 1..Len(b) /\ k + 1 # 1
    BY <2>2
  <2>4. 1 \in 1..Len(b)
    BY <2>2
  <2>5. ASSUME NEW j \in 1..Len(Tail(b)), NEW k \in 1..Len(Tail(b)), j # k
        PROVE  Tail(b)[j] # Tail(b)[k]
    <3>1. j + 1 # k + 1
      BY <2>2, <2>5
    <3> QED
      BY <2>2, <2>3, <3>1
  <2>6. ASSUME NEW k \in 1..Len(Tail(b))
        PROVE  Tail(b)[k] # Head(b) /\ \E j \in 1..Len(b) : Tail(b)[k] = b[j]
    BY <2>2, <2>3, <2>4
  <2> QED
    BY <2>1, <2>5, <2>6
<1> QED
  BY <1>1, <1>2

LEMMA RequestsStep ==
    ASSUME SingleReplica, WatchTypeOK, RowCurrent, RequestsInv, Next
    PROVE  RequestsInv'
<1>0. /\ watch \in [Watches -> Row] /\ rep \in [Replicas -> Loop]
      /\ asked \in [Watches -> BOOLEAN]
      /\ \A r \in Replicas : rep[r].batch \in Seq(Watches)
  BY DEF WatchTypeOK, Loop
<1>1. /\ \A r \in Replicas : Intact(rep[r].batch)
      /\ \A w \in Watches : Kept(w)
  BY RequestParts
<1>2. \A r \in Replicas : \A k \in 1..Len(rep[r].batch) : rep[r].batch[k] \in Watches
  BY <1>0, ElementOfSeq
\* A step that leaves the batches alone and no request worse off.
<1>3. ASSUME rep' = rep,
             \A w \in Watches : asked'[w] =>
               /\ watch'[w].state = "live"
               /\ \/ watch'[w].next <= 0
                  \/ /\ asked[w] /\ watch[w].next > 0
                     /\ watch'[w].fails = watch[w].fails
      PROVE  RequestsInv'
  <2>1. \A r \in Replicas : \A k \in 1..Len(rep[r].batch) :
          asked'[rep[r].batch[k]] => watch'[rep[r].batch[k]].next <= 0
    <3> SUFFICES ASSUME NEW r \in Replicas, NEW k \in 1..Len(rep[r].batch),
                        asked'[rep[r].batch[k]]
                 PROVE  watch'[rep[r].batch[k]].next <= 0
      OBVIOUS
    <3> DEFINE w == rep[r].batch[k]
    <3>1. w \in Watches /\ (asked[w] => watch[w].next <= 0)
      BY <1>1, <1>2 DEF Intact
    <3>2. watch[w].next \in Int
      BY <1>0, <3>1, ConstantTypes DEF Row, Countdown
    <3> QED
      BY <1>3, <3>1, <3>2
  <2>2. \A w \in Watches : asked'[w] =>
          watch'[w].state = "live" /\ (watch'[w].next <= 0 \/ watch'[w].fails > 0)
    <3> SUFFICES ASSUME NEW w \in Watches, asked'[w]
                 PROVE  /\ watch'[w].state = "live"
                        /\ watch'[w].next <= 0 \/ watch'[w].fails > 0
      OBVIOUS
    <3>1. asked[w] => watch[w].next <= 0 \/ watch[w].fails > 0
      BY <1>1 DEF Kept
    <3>2. watch[w].next \in Int
      BY <1>0, ConstantTypes DEF Row, Countdown
    <3> QED
      BY <1>3, <3>1, <3>2
  <2> QED
    BY <1>1, <1>3, <2>1, <2>2 DEF RequestsInv, Intact, Live
<1>4. \A w \in Watches : asked[w] => watch[w].state = "live"
  BY <1>1 DEF Kept, Live
<1>5. CASE Tick
  <2>1. rep' = rep /\ asked' = asked
    BY <1>5 DEF Tick
  <2>2. \A w \in Watches :
          /\ watch'[w].state = watch[w].state /\ watch'[w].fails = watch[w].fails
          /\ watch[w].state = "live" /\ watch[w].next <= 0 => watch'[w].next <= 0
    BY <1>5, TickType, TickKeeps DEF Live
  <2>3. \A w \in Watches : watch[w].next \in Int
    BY <1>0, ConstantTypes DEF Row, Countdown
  <2> QED
    BY <1>3, <1>4, <2>1, <2>2, <2>3
<1>6. CASE Admin
  <2>1. rep' = rep
    BY <1>6, AdminLeavesLoops
  <2>2. \A w \in Watches : watch[w].next \in Int
    BY <1>0, ConstantTypes DEF Row, Countdown
  <2>3. ASSUME NEW w \in Watches,
               \A v \in Watches \ {w} : watch'[v] = watch[v] /\ asked'[v] = asked[v],
               asked'[w] => \/ watch'[w].state = "live" /\ watch'[w].next = 0
                            \/ /\ asked[w] /\ watch'[w].next = watch[w].next
                               /\ watch'[w].fails = watch[w].fails
                               /\ watch'[w].state = watch[w].state
        PROVE  RequestsInv'
    BY <1>3, <1>4, <2>1, <2>2, <2>3
  <2>4. ASSUME NEW w \in Watches, NEW i \in Intervals, NEW on \in BOOLEAN,
               create_watch(w, i, on)
        PROVE  RequestsInv'
    <3>1. ~asked[w] /\ asked' = asked
      BY <1>4, <2>4 DEF create_watch, observed
    <3>2. \A v \in Watches \ {w} : watch'[v] = watch[v]
      BY <1>0, <2>4 DEF create_watch
    <3> QED
      BY <2>3, <3>1, <3>2
  <2>5. ASSUME NEW w \in Watches, NEW i \in Intervals, NEW on \in BOOLEAN,
               update_watch(w, i, on)
        PROVE  RequestsInv'
    <3>1. /\ watch'[w].state = watch[w].state /\ watch'[w].fails = watch[w].fails
          /\ watch'[w].next = watch[w].next
      BY <1>0, <2>5 DEF update_watch, Row
    <3>2. asked' = asked /\ \A v \in Watches \ {w} : watch'[v] = watch[v]
      BY <1>0, <2>5 DEF update_watch
    <3> QED
      BY <2>3, <3>1, <3>2
  <2>6. ASSUME NEW w \in Watches, delete_watch(w) PROVE RequestsInv'
    <3>1. /\ ~asked'[w]
          /\ \A v \in Watches \ {w} : watch'[v] = watch[v] /\ asked'[v] = asked[v]
      BY <1>0, <2>6 DEF delete_watch
    <3> QED
      BY <2>3, <3>1
  <2>7. ASSUME NEW w \in Watches, run_now(w) PROVE RequestsInv'
    <3>1. /\ watch'[w].state = "live" /\ watch'[w].next = 0
          /\ \A v \in Watches \ {w} : watch'[v] = watch[v] /\ asked'[v] = asked[v]
      BY <1>0, <2>7 DEF run_now, Active, Live, Row
    <3> QED
      BY <2>3, <3>1
  <2> QED
    BY <1>6, <2>4, <2>5, <2>6, <2>7 DEF Admin
<1>7. ASSUME NEW r \in Replicas, claim_due(r) PROVE RequestsInv'
  <2>1. PICK b \in Seq(Watches) :
             /\ \A j, k \in 1..Len(b) : j # k => b[j] # b[k]
             /\ rep'[r].batch = b
             /\ \A w \in Watches :
                  /\ watch'[w] = IF Claimed(b, w)
                                 THEN [watch[w] EXCEPT !.next = watch[w].interval]
                                 ELSE watch[w]
                  /\ asked'[w] = (asked[w] /\ ~Claimed(b, w))
    BY <1>7, ClaimEffect
  <2>2. \A k \in 1..Len(b) : b[k] \in Watches /\ ~asked'[b[k]]
    BY <2>1, ElementOfSeq DEF Claimed
  <2>3. \A w \in Watches : asked'[w] => asked[w] /\ watch'[w] = watch[w]
    BY <2>1
  <2>4. \A s \in Replicas : s = r
    BY DEF SingleReplica
  <2>5. \A w \in Watches : Kept(w)'
    BY <1>1, <2>3 DEF Kept, Live
  <2>6. \A s \in Replicas : Intact(rep[s].batch)'
    BY <2>1, <2>2, <2>4 DEF Intact
  <2> QED
    BY <2>5, <2>6 DEF RequestsInv, Kept, Intact
\* The loop goes on to the rest of its batch.
<1>8. ASSUME NEW r \in Replicas, rep[r].pc # "idle",
             rep'[r].batch \in {rep[r].batch, <<>>, NextOf(rep[r].batch).batch},
             asked' = asked, watch' = watch
      PROVE  RequestsInv'
  <2>1. \A w \in Watches : Kept(w)'
    BY <1>1, <1>8 DEF Kept, Live
  <2>2. Intact(rep'[r].batch)
    <3>1. CASE rep'[r].batch = NextOf(rep[r].batch).batch
      <4>1. rep[r].batch # <<>>
        BY <1>8, InHand
      <4>2. LET c == NextOf(rep[r].batch).batch
            IN  /\ \A j, k \in 1..Len(c) : j # k => c[j] # c[k]
                /\ \A k \in 1..Len(c) :
                     \E j \in 1..Len(rep[r].batch) : c[k] = rep[r].batch[j]
        BY <1>0, <1>1, <4>1, RestOfBatch DEF Intact
      <4> QED
        BY <1>1, <3>1, <4>2, SMTT(30) DEF Intact
    <3> QED
      BY <1>1, <1>8, <3>1, EmptyIntact
  <2>3. \A s \in Replicas : s = r
    BY DEF SingleReplica
  <2> QED
    BY <1>8, <2>1, <2>2, <2>3 DEF RequestsInv, Kept, Intact
<1>9. ASSUME NEW r \in Replicas, RecordStore(r) PROVE RequestsInv'
  <2> DEFINE w == InHandOf(r)
             x == rep[r].result
             old == rep[r].row
             b == rep[r].batch
             c == NextOf(b).batch
  <2>1. /\ rep[r].pc = "store" /\ w \in Watches /\ Live(w)
        /\ old \in Loaded /\ x \in Results \ {"none"} /\ watch[w] \in Row
        /\ watch'[w] = Recorded(watch[w], old, x)
        /\ watch'[w].state = watch[w].state
        /\ \A v \in Watches \ {w} : watch'[v] = watch[v]
        /\ rep'[r] = NextOf(b) /\ asked' = asked
    BY <1>9, StoreEffect
  <2>2. b \in Seq(Watches) /\ b # <<>> /\ w = b[1] /\ 1 \in 1..Len(b)
    <3>1. b \in Seq(Watches) /\ b # <<>>
      BY <2>1, InHand
    <3>2. Len(b) \in Nat \ {0} /\ Head(b) = b[1]
      BY <3>1, EmptySeq, HeadTailProperties
    <3> QED
      BY <3>1, <3>2 DEF InHandOf
  <2>3. asked[w] => watch[w].next <= 0
    BY <1>1, <2>2 DEF Intact
  <2>4. /\ \A j, k \in 1..Len(c) : j # k => c[j] # c[k]
        /\ \A k \in 1..Len(c) : c[k] # w /\ \E j \in 1..Len(b) : c[k] = b[j]
    BY <1>1, <2>2, RestOfBatch DEF Intact, InHandOf
  <2>5. watch[w].fails = old.fails /\ old.fails \in Fails
    BY <2>1 DEF RowCurrent, Loaded
  <2> HIDE DEF w, x, old, b, c
  <2>6. asked[w] => watch'[w].next <= 0 \/ watch'[w].fails > 0
    <3>1. CASE x = "error"
      BY <2>1, <2>5, <3>1, OneMoreRange, RecordedColumns
    <3>2. CASE x = "truncated"
      BY <2>1, <3>2, RecordedColumns
    <3>3. CASE x \notin {"error", "truncated"}
      BY <2>1, <2>3, <3>3, RecordedColumns
    <3> QED
      BY <3>1, <3>2, <3>3
  <2>7. \A v \in Watches : asked'[v] =>
          watch'[v].state = "live" /\ (watch'[v].next <= 0 \/ watch'[v].fails > 0)
    BY <1>1, <2>1, <2>6 DEF Kept, Live
  <2>8. \A k \in 1..Len(c) : asked'[c[k]] => watch'[c[k]].next <= 0
    <3> SUFFICES ASSUME NEW k \in 1..Len(c), asked[c[k]]
                 PROVE  watch'[c[k]].next <= 0
      BY <2>1
    <3>1. PICK j \in 1..Len(b) : c[k] = b[j]
      BY <2>4
    <3>2. c[k] # w /\ c[k] \in Watches
      BY <1>2, <2>4, <3>1 DEF b
    <3>3. watch[c[k]].next <= 0
      BY <1>1, <3>1 DEF Intact, b
    <3> QED
      BY <2>1, <3>2, <3>3
  <2>9. rep'[r].batch = c /\ \A s \in Replicas : s = r
    BY <2>1 DEF SingleReplica, c
  <2> QED
    BY <2>4, <2>7, <2>8, <2>9 DEF RequestsInv, Live
<1>10. ASSUME NEW r \in Replicas,
              RecordLoad(r) \/ RecordRaises(r) \/ ScanEnds(r) \/ Crash(r)
       PROVE  RequestsInv'
  <2>1. asked' = asked /\ watch' = watch /\ rep[r].pc # "idle"
    BY <1>10 DEF RecordLoad, RecordRaises, ScanEnds, Crash, observed
  <2>2. rep'[r].batch \in {rep[r].batch, <<>>, NextOf(rep[r].batch).batch}
    <3>1. CASE RecordLoad(r)
      BY <1>0, <3>1 DEF RecordLoad, Loop
    <3>2. CASE RecordRaises(r)
      <4>1. rep = [x \in Replicas |-> rep[x]] /\ rep[r] \in Loop
        BY <1>0
      <4>2. ASSUME NEW x, rep' = [rep EXCEPT ![r].pc = "load", ![r].result = x,
                                             ![r].row = NoRow]
            PROVE  rep'[r].batch = rep[r].batch
        BY <4>1, <4>2 DEF Loop
      <4>3. ASSUME rep' = [rep EXCEPT ![r] = NextOf(@.batch)]
            PROVE  rep'[r].batch = NextOf(rep[r].batch).batch
        BY <4>1, <4>3
      <4> QED
        BY <3>2, <4>2, <4>3, Zenon DEF RecordRaises
    <3>3. CASE ScanEnds(r) \/ Crash(r)
      BY <1>0, <3>3 DEF ScanEnds, Crash, Loop, Idle
    <3> QED
      BY <1>10, <3>1, <3>2, <3>3
  <2> QED
    BY <1>8, <2>1, <2>2
<1> QED
  BY <1>5, <1>6, <1>7, <1>9, <1>10 DEF Next, Record

\* With one API process a "run now" that was accepted is honoured unless the
\* scan that was running then fails: run_now's next_run_at is overwritten by
\* record_result's back-off and by nothing else.
THEOREM OneReplicaKeepsRequests ==
    ASSUME SingleReplica
    PROVE  Spec => []RequestOnlyLostToFailure
<1>1. Init => RequestsInv
  <2> SUFFICES ASSUME Init PROVE RequestsInv
    OBVIOUS
  <2>1. \A r \in Replicas : rep[r].batch = <<>>
    BY DEF Init, Idle
  <2> QED
    BY <2>1, EmptySeq DEF Init, RequestsInv
<1>2. RequestsInv /\ UNCHANGED vars => RequestsInv'
  BY DEF vars, RequestsInv, Live
<1>3. WatchTypeOK /\ RowCurrent /\ RequestsInv /\ Next => RequestsInv'
  BY RequestsStep
<1>4. RequestsInv => RequestOnlyLostToFailure
  BY DEF RequestsInv, RequestOnlyLostToFailure
<1> QED
  BY <1>1, <1>2, <1>3, <1>4, RowCurrentInvariance, WatchTypes, PTL DEF Spec
=============================================================================
