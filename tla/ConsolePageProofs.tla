------------------------- MODULE ConsolePageProofs -------------------------
(***************************************************************************)
(* No page of the console is left waiting for nothing, and no form is sent *)
(* twice at once: SpinnersWaited and OneSubmitAtATime, for any rows, any   *)
(* number of requests in flight and any number of clicks, failures and     *)
(* foreign changes.                                                        *)
(*                                                                         *)
(* A page is described by the kinds of requests it has in flight: a step   *)
(* keeps them (Same), adds one (More), takes one away (Less), or both.     *)
(* The invariant of a page says of each flag which kinds it waits for; and *)
(* where a flag also guards a button, that it is up exactly while one of   *)
(* these is out, and only one is.                                          *)
(***************************************************************************)
EXTENDS ConsoleProofs

----------------------------------------------------------------------------
(* Kinds of requests.                                                      *)

\* Names for requests that a handler awaits after its own request, so that its
\* flag outlives that one; the argument tells them from those of others.
Marks == {"awaited", "later", "doc", "all", "databricks", "embedding", "storage"}

\* The argument of a request of an editor.
EditorsCall(a) == "gone" \in DOMAIN a /\ "then" \in DOMAIN a

EditorKind(k, a) ==
    IF ~EditorsCall(a) THEN "doc"
    ELSE IF a.gone THEN "other"
    ELSE IF k \in {"boxes", "meta", "crops"} /\ a.then = "split" THEN "awaited"
    ELSE IF k \in {"boxes", "meta"} /\ a.then \notin {"json", "completed"} THEN "later"
    ELSE IF k \in Marks THEN "other"
    ELSE k

\* The files a batch has still to upload.
Left(a) == {j \in Nat : a.i <= j /\ j <= Len(a.q)}
IsBatch(a) == "i" \in DOMAIN a /\ "q" \in DOMAIN a /\ a.i \in Nat /\ Len(a.q) \in Nat

\* The operations of the explorer, and the loads that follow them: fin names
\* the operation that awaits a load.
Works == {"upload", "convert", "remove"}
IsLoad(k, a) == a.fin \in {"no"} \cup Works \cup (IF k = "kids" THEN {"mkdir", "rmdir"} ELSE {})

\* Some pages show more than which requests are out: these name what each one
\* is about (the answer rated, the folder loaded), and are empty for the others.
About(p, k, a) ==
    CASE p = "ratings" /\ k = "rate" -> {a.key}
      [] p = "turns" /\ k = "rate" -> {<<a.turn, a.key>>}
      [] p = "loads" /\ k = "images" /\ a.page = 1 -> {a.rid}
      [] p = "drops" /\ k = "drop" -> Left(a)
      [] p = "ops" /\ k \in Works -> {"op"}
      [] OTHER -> {}

\* The kind of the request k with argument a on page p.
Kind(p, k, a) ==
    IF p \in {"ratings", "turns", "loads", "drops", "ops"} THEN About(p, k, a) ELSE
    CASE p = "labeling" /\ k # "list" -> EditorKind(k, a)
      [] p = "watches" /\ k = "list" /\ a = "submit" -> "awaited"
      [] p = "profiles" /\ k = "list" /\ a = "recompute" -> "awaited"
      [] p = "ftlist" /\ k = "list" /\ a # None -> "awaited"
      [] p = "ftdataset" /\ k \in {"load", "list"} /\ a.done = "create" -> "awaited"
      [] p = "ftdataset" /\ k \in {"load", "list"} /\ a.done = "build" -> "later"
      [] p = "ftdataset" /\ k \in {"load", "list"} /\ a.done = "mine" -> "doc"
      [] p = "review" /\ k = "list" /\ a.busy -> "awaited"
      [] p = "review" /\ k = "rules" /\ a # None -> "later"
      [] p = "sweeps" /\ k = "list" /\ a.mine -> "awaited"
      [] p \in {"collections", "config"} /\ k = "models" /\ a.test -> "awaited"
      [] p = "collections" /\ k = "probe" /\ a.test -> "later"
      [] p = "collection" /\ k = "list" /\ a.of # "no" -> IF a.of = "cfg" THEN "awaited" ELSE "doc"
      [] p = "collection" /\ k = "status" /\ a.of = "cfg" -> "later"
      [] p \in {"playground", "chat"} /\ k = "rate" /\ a.fb = "busy" -> "later"
      [] p = "files" /\ k = "list" /\ a.busy -> "awaited"
      [] p = "files" /\ k = "drop" /\ ~IsBatch(a) -> "later"
      [] p = "explorer" /\ k \in {"images", "kids"} /\ ~IsLoad(k, a) -> "later"
      [] p = "explorer" /\ k \in {"images", "kids"} /\ a.fin \in Works -> a.fin
      [] p = "settings" /\ k \in {"check", "probe"} /\ a \in Checks -> a
      [] p # "labeling" /\ k \in Marks -> "other"
      [] OTHER -> k

KindOf(p, c) == Kind(p, c.k, c.a)

\* A request of a kind in K is in flight.
Waits(p, m, K) == \E t \in Slots : m[t] # NoCall /\ KindOf(p, m[t]) \in K

\* At most one request of a kind in K is in flight.
Alone(p, m, K) ==
    \A t, u \in Slots : (/\ m[t] # NoCall /\ KindOf(p, m[t]) \in K
                         /\ m[u] # NoCall /\ KindOf(p, m[u]) \in K) => t = u

\* n has the requests of m.
Same(p, m, n) ==
    /\ CallsIn(n)
    /\ \A K : Waits(p, n, K) <=> Waits(p, m, K)
    /\ \A K : Alone(p, n, K) <=> Alone(p, m, K)

\* n has the requests of m and one of kind x.
More(p, m, n, x) ==
    /\ CallsIn(n)
    /\ \A K : Waits(p, n, K) <=> (x \in K \/ Waits(p, m, K))
    /\ \A K : (Alone(p, m, K) /\ (x \notin K \/ ~Waits(p, m, K))) => Alone(p, n, K)

\* n has the requests of m but one of kind x.
Less(p, m, n, x) ==
    /\ CallsIn(n)
    /\ \A K : x \in K => Waits(p, m, K)
    /\ \A K : x \notin K => (Waits(p, n, K) <=> Waits(p, m, K))
    /\ \A K : Alone(p, m, K) => Alone(p, n, K)
    /\ \A K : (Alone(p, m, K) /\ x \in K) => ~Waits(p, n, K)

\* n has a request of kind y in the place of one of kind x of m.
Swap(p, m, n, x, y) ==
    /\ CallsIn(n)
    /\ \A K : x \in K => Waits(p, m, K)
    /\ \A K : y \in K => Waits(p, n, K)
    /\ \A K : (x \notin K /\ y \notin K) => (Waits(p, n, K) <=> Waits(p, m, K))
    /\ \A K : (x \in K /\ y \notin K /\ Alone(p, m, K)) => ~Waits(p, n, K)
    /\ \A K : (Alone(p, m, K) /\ (x \in K \/ y \notin K \/ ~Waits(p, m, K))) => Alone(p, n, K)

\* n has the requests of m, one of kind x and one of kind y.
Both(p, m, n, x, y) ==
    /\ CallsIn(n)
    /\ \A K : Waits(p, n, K) <=> (x \in K \/ y \in K \/ Waits(p, m, K))
    /\ \A K : (Alone(p, m, K) /\ x \notin K /\ y \notin K) => Alone(p, n, K)

\* A request in a slot that was empty.
LEMMA FillMore ==
    ASSUME NEW p, NEW m, NEW n, CallsIn(n), NEW t \in Slots, m[t] = NoCall, n[t] # NoCall,
           \A s \in Slots \ {t} : n[s] = m[s]
    PROVE  More(p, m, n, KindOf(p, n[t]))
<1> DEFINE x == KindOf(p, n[t])
<1>1. KindOf(p, n[t]) = x
  OBVIOUS
<1> HIDE DEF x
<1>2. \A K : Waits(p, n, K) <=> (x \in K \/ Waits(p, m, K))
  BY <1>1 DEF Waits
<1>3. \A K : (Alone(p, m, K) /\ (x \notin K \/ ~Waits(p, m, K))) => Alone(p, n, K)
  BY <1>1 DEF Alone, Waits
<1> QED
  BY <1>2, <1>3 DEF More, x

\* fetch adds a request.
LEMMA SendMore ==
    ASSUME NEW p, NEW m, CallsIn(m), NEW i \in Slots, m[i] = NoCall, NEW k, NEW a
    PROVE  More(p, m, Send(m, k, a), Kind(p, k, a))
<1> DEFINE n == Send(m, k, a)
<1>1. Sends(m, n, k, a)
  BY SendFills
<1> HIDE DEF n
<1>2. PICK t \in Slots : /\ m[t] = NoCall /\ n[t] = NewCall(k, a)
                         /\ \A s \in Slots \ {t} : n[s] = m[s]
  BY <1>1 DEF Sends
<1>3. NewCall(k, a).st = "sent" /\ n[t].k = k /\ n[t].a = a
  BY <1>2 DEF NewCall
<1>4. NoCall.st = ""
  BY DEF NoCall
<1>5. n[t] # NoCall
  BY <1>2, <1>3, <1>4
<1>6. More(p, m, n, KindOf(p, n[t]))
  BY <1>1, <1>2, <1>5, FillMore DEF Sends
<1> QED
  BY <1>3, <1>6 DEF KindOf, n

\* A continuation that asks for nothing takes its own request away.
LEMMA RestLess ==
    ASSUME NEW p, CallsIn(net), NEW s \in Slots, Busy(s)
    PROVE  Less(p, net, Rest(s), KindOf(p, net[s])) /\ Rest(s)[s] = NoCall
<1> DEFINE n == Rest(s)
           x == KindOf(p, net[s])
<1>1. CallsIn(n) /\ n[s] = NoCall /\ \A t \in Slots \ {s} : n[t] = net[t]
  BY RestFrees
<1> HIDE DEF n
<1>2. \A K : x \notin K => (Waits(p, n, K) <=> Waits(p, net, K))
  BY <1>1 DEF Waits
<1>3. \A K : Alone(p, net, K) => Alone(p, n, K)
  BY <1>1 DEF Alone
<1>4. \A K : (Alone(p, net, K) /\ x \in K) => ~Waits(p, n, K)
  BY <1>1 DEF Alone, Waits, Busy
<1>5. \A K : x \in K => Waits(p, net, K)
  BY DEF Waits, Busy
<1> QED
  BY <1>1, <1>2, <1>3, <1>4, <1>5 DEF Less, n

----------------------------------------------------------------------------
(* What the forms of a page's steps do to them.                            *)

\* A page is mounted with no request or with one.
LEMMA NoneYet ==
    ASSUME NEW p
    PROVE  /\ CallsIn(NoCalls) /\ 1 \in Slots /\ NoCalls[1] = NoCall
           /\ \A K : ~Waits(p, NoCalls, K) /\ Alone(p, NoCalls, K)
<1>1. 1 \in Slots /\ \A t \in Slots : NoCalls[t] = NoCall
  BY BrowserAssumption DEF Slots, NoCalls
<1>2. CallsIn(NoCalls)
  BY <1>1 DEF CallsIn, NoCalls
<1> QED
  BY <1>1, <1>2 DEF Waits, Alone

LEMMA OneYet == ASSUME NEW p, NEW k, NEW a PROVE More(p, NoCalls, Send(NoCalls, k, a), Kind(p, k, a))
BY NoneYet, SendMore

\* A handler that asks the server.
LEMMA Asking ==
    ASSUME NEW p, CallsIn(net), NEW k, NEW a, Room(1), net' = Send(net, k, a)
    PROVE  More(p, net, net', Kind(p, k, a))
<1>1. PICK i \in Slots : net[i] = NoCall
  BY RoomIsIdle
<1> QED
  BY <1>1, SendMore

LEMMA SendBoth ==
    ASSUME NEW p, NEW m, CallsIn(m), NEW k, NEW a, NEW j, NEW b,
           NEW i \in Slots, NEW h \in Slots, i # h, m[i] = NoCall, m[h] = NoCall
    PROVE  Both(p, m, Send(Send(m, k, a), j, b), Kind(p, k, a), Kind(p, j, b))
<1> DEFINE n == Send(m, k, a)
           o == Send(n, j, b)
           x == Kind(p, k, a)
           y == Kind(p, j, b)
<1>1. More(p, m, n, x) /\ \E t \in Slots : n[t] = NoCall
  <2>1. Sends(m, n, k, a)
    BY SendFills
  <2> QED
    BY <2>1, SendMore DEF Sends
<1> HIDE DEF n
<1>2. More(p, n, o, y)
  BY <1>1, SendMore DEF More
<1> HIDE DEF o, x, y
<1>3. CallsIn(o) /\ \A K : Waits(p, o, K) <=> (x \in K \/ y \in K \/ Waits(p, m, K))
  BY <1>1, <1>2 DEF More
<1>4. \A K : (Alone(p, m, K) /\ x \notin K /\ y \notin K) => Alone(p, o, K)
  BY <1>1, <1>2 DEF More
<1> QED
  BY <1>3, <1>4 DEF Both, o, n, x, y

\* One that asks for two things at once.
LEMMA AskingTwo ==
    ASSUME NEW p, CallsIn(net), NEW k, NEW a, NEW j, NEW b, Room(2), net' = Send(Send(net, k, a), j, b)
    PROVE  Both(p, net, net', Kind(p, k, a), Kind(p, j, b))
<1>1. PICK i, h \in Slots : i # h /\ net[i] = NoCall /\ net[h] = NoCall
  BY RoomsAreIdle
<1> QED
  BY <1>1, SendBoth

\* A page that is mounted with two requests.
LEMMA TwoYet ==
    ASSUME NEW p, NEW k, NEW a, NEW j, NEW b
    PROVE  Both(p, NoCalls, Send(Send(NoCalls, k, a), j, b), Kind(p, k, a), Kind(p, j, b))
<1>1. 1 \in Slots /\ 2 \in Slots /\ NoCalls[1] = NoCall /\ NoCalls[2] = NoCall
  BY BrowserAssumption DEF Slots, NoCalls
<1> QED
  BY <1>1, NoneYet, SendBoth

\* A page that is mounted in the place of another.
LEMMA Remounting ==
    ASSUME NEW p, CallsIn(net), NEW k, NEW a, Room(1), net' = Send(Abandon(net), k, a)
    PROVE  CallsIn(net') /\ \A K : Kind(p, k, a) \in K => Waits(p, net', K)
<1>1. PICK i \in Slots : net[i] = NoCall
  BY RoomIsIdle
<1> DEFINE c(t) == IF net[t] = NoCall THEN NoCall ELSE [net[t] EXCEPT !.k = "gone", !.a = None]
<1>2. Abandon(net) = [t \in Slots |-> c(t)]
  BY DEF Abandon
<1>3. ASSUME NEW t \in Slots, net[t] # NoCall PROVE IsCall(c(t))
  BY <1>3 DEF CallsIn, IsCall
<1>4. \A t \in Slots : c(t) # NoCall => IsCall(c(t))
  BY <1>3
<1>5. c(i) = NoCall
  BY <1>1
<1> HIDE DEF c
<1>6. CallsIn(Abandon(net)) /\ Abandon(net)[i] = NoCall
  BY <1>1, <1>2, <1>4, <1>5 DEF CallsIn
<1> QED
  BY <1>6, SendMore DEF More

\* The forms of the tables.
LEMMA Submitting ==
    ASSUME NEW p, CallsIn(net), SubmitForm,
           \A a : Kind(p, "create", a) = "create" /\ Kind(p, "update", a) = "update"
    PROVE  /\ ui' = [ui EXCEPT !.submitting = TRUE]
           /\ \E x \in {"create", "update"} : More(p, net, net', x)
<1>1. ui' = [ui EXCEPT !.submitting = TRUE] /\ Room(1)
  BY DEF SubmitForm, Ask
<1>2. net' = Send(net, IF ui.dlg.id = None THEN "create" ELSE "update", ui.dlg)
  BY DEF SubmitForm, Ask
<1>3. CASE ui.dlg.id = None
  <2>1. net' = Send(net, "create", ui.dlg)
    BY <1>2, <1>3
  <2> QED
    BY <1>1, <2>1, Asking
<1>4. CASE ui.dlg.id # None
  <2>1. net' = Send(net, "update", ui.dlg)
    BY <1>2, <1>4
  <2> QED
    BY <1>1, <2>1, Asking
<1> QED
  BY <1>3, <1>4

LEMMA Ready == ASSUME FormReady PROVE ~ui.submitting
BY DEF FormReady

\* A handler that ends, and one that goes on with another request.
LEMMA Ending ==
    ASSUME NEW p, CallsIn(net), NEW s \in Slots, Busy(s), net' = Rest(s)
    PROVE  Less(p, net, net', Kind(p, net[s].k, net[s].a))
BY RestLess DEF KindOf

LEMMA Chaining ==
    ASSUME NEW p, CallsIn(net), NEW s \in Slots, Busy(s), NEW k, NEW a, net' = Send(Rest(s), k, a)
    PROVE  Swap(p, net, net', Kind(p, net[s].k, net[s].a), Kind(p, k, a))
<1> DEFINE x == Kind(p, net[s].k, net[s].a)
           y == Kind(p, k, a)
<1>1. Less(p, net, Rest(s), x) /\ Rest(s)[s] = NoCall
  BY RestLess DEF KindOf
<1>2. More(p, Rest(s), net', y)
  BY <1>1, SendMore DEF Less
<1> HIDE DEF x, y
<1>3. CallsIn(net') /\ \A K : (x \in K => Waits(p, net, K)) /\ (y \in K => Waits(p, net', K))
  BY <1>1, <1>2 DEF More, Less
<1>4. \A K : (x \notin K /\ y \notin K) => (Waits(p, net', K) <=> Waits(p, net, K))
  BY <1>1, <1>2 DEF More, Less
<1>5. ASSUME NEW K, Alone(p, net, K)
      PROVE  /\ (x \in K /\ y \notin K) => ~Waits(p, net', K)
             /\ (x \in K \/ y \notin K \/ ~Waits(p, net, K)) => Alone(p, net', K)
  <2>1. Alone(p, Rest(s), K) /\ (x \in K => ~Waits(p, Rest(s), K))
    BY <1>1, <1>5 DEF Less
  <2>2. x \notin K => (Waits(p, Rest(s), K) <=> Waits(p, net, K))
    BY <1>1 DEF Less
  <2> QED
    BY <2>1, <2>2, <1>2 DEF More
<1> QED
  BY <1>3, <1>4, <1>5 DEF Swap, x, y

\* An answer leaves its request in flight.
LEMMA AnswerSame ==
    ASSUME NEW p, CallsIn(net), NEW s \in Slots, Busy(s), NEW st, st # "", NEW r, net' = Answered(s, st, r)
    PROVE  Same(p, net, net')
<1>1. /\ CallsIn(net')
      /\ net'[s].k = net[s].k /\ net'[s].a = net[s].a /\ net'[s].st = st
      /\ \A t \in Slots \ {s} : net'[t] = net[t]
  BY AnswerFills
<1>2. NoCall.st = ""
  BY DEF NoCall
<1>3. net'[s] # NoCall /\ net[s] # NoCall
  BY <1>1, <1>2 DEF Busy
<1>4. KindOf(p, net'[s]) = KindOf(p, net[s])
  BY <1>1 DEF KindOf
<1>5. \A K : Waits(p, net', K) <=> Waits(p, net, K)
  BY <1>1, <1>3, <1>4 DEF Waits
<1>6. \A K : Alone(p, net', K) <=> Alone(p, net, K)
  BY <1>1, <1>3, <1>4 DEF Alone
<1> QED
  BY <1>1, <1>5, <1>6 DEF Same

LEMMA ServerFlags ==
    ASSUME NEW p, CallsIn(net), NEW s \in Slots, Serve(s) \/ Fault(s)
    PROVE  ui' = ui /\ Same(p, net, net')
<1>1. Busy(s) /\ ui' = ui
  BY DEF Serve, Fault
<1>2. net' = Answered(s, "err", None) \/ net' = Answered(s, "ok", Answer(net[s]))
  BY DEF Serve, Fault
<1>3. CASE net' = Answered(s, "err", None)
  BY <1>1, <1>3, AnswerSame
<1>4. CASE net' = Answered(s, "ok", Answer(net[s]))
  BY <1>1, <1>4, AnswerSame
<1> QED
  BY <1>1, <1>2, <1>3, <1>4

\* What the kinds say of the requests.
LEMMA WaitsIsInFlight ==
    ASSUME NEW p, NEW K, NEW J, \A k, a : Kind(p, k, a) \in K => k \in J, Waits(p, net, K)
    PROVE  InFlight(J) # {}
BY DEF Waits, KindOf, InFlight, Busy

LEMMA AloneIsOne ==
    ASSUME NEW p, NEW K, NEW J, \A k, a : k \in J => Kind(p, k, a) \in K, Alone(p, net, K)
    PROVE  Cardinality(InFlight(J)) <= 1
<1>1. \A t, u \in InFlight(J) : t = u
  BY DEF InFlight, Alone, KindOf, Busy
<1>2. CASE InFlight(J) = {}
  BY <1>2, FS_EmptySet
<1>3. CASE InFlight(J) # {}
  <2>1. PICK x : InFlight(J) = {x}
    BY <1>1, <1>3
  <2> QED
    BY <2>1, FS_Singleton
<1> QED
  BY <1>2, <1>3

----------------------------------------------------------------------------
(* Storage sources.                                                        *)

SourcesFlags ==
    /\ CallsIn(net) /\ DOMAIN ui = {"admin", "rows", "loading", "dlg", "submitting", "del", "testing"}
    /\ ui.loading => Waits("sources", net, {"list"})
    /\ ui.submitting <=> Waits("sources", net, {"create", "update"})
    /\ Alone("sources", net, {"create", "update"})
    /\ ui.testing # None => Waits("sources", net, {"test"})

LEMMA SourcesFlagStep ==
    ASSUME SourcesFlags, NEW s \in Slots, SourcesUser \/ SourcesWorld \/ (Busy(s) /\ SourcesResume(s))
    PROVE  SourcesFlags'
<1> DEFINE Sets(v0, v1, v2) == DOMAIN ui' = DOMAIN ui /\ ui'.loading = v0 /\ ui'.submitting = v1 /\ ui'.testing = v2
<1>1. CallsIn(net) /\ DOMAIN ui = {"admin", "rows", "loading", "dlg", "submitting", "del", "testing"}
  BY DEF SourcesFlags
<1>2. \A a : /\ Kind("sources", "list", a) = "list"
             /\ Kind("sources", "create", a) = "create"
             /\ Kind("sources", "update", a) = "update"
             /\ Kind("sources", "toggle", a) = "toggle"
             /\ Kind("sources", "delete", a) = "delete"
             /\ Kind("sources", "test", a) = "test"
  BY DEF Kind, Marks
<1>3. CASE SourcesOpenNew \/ TypeForm(Typed) \/ CloseForm \/ KeepRow \/ \E r \in SourcesTable : SourcesOpenEdit(r) \/ AskDelete(r)
  <2>1. Sets(ui.loading, ui.submitting, ui.testing)
    BY <1>1, <1>3 DEF SourcesOpenNew, TypeForm, CloseForm, KeepRow, SourcesOpenEdit, AskDelete, OpenForm, User
  <2>2. net' = net
    BY <1>3 DEF SourcesOpenNew, TypeForm, CloseForm, KeepRow, SourcesOpenEdit, AskDelete, OpenForm, User
  <2> QED
    BY <2>1, <2>2 DEF SourcesFlags
<1>4. CASE SourcesWorld
  <2>1. Sets(ui.loading, ui.submitting, ui.testing)
    BY <1>1, <1>4 DEF SourcesWorld, World
  <2>2. net' = net
    BY <1>4 DEF SourcesWorld, World
  <2> QED
    BY <2>1, <2>2 DEF SourcesFlags
<1>5. CASE SourcesSubmit
  <2>1. Sets(ui.loading, TRUE, ui.testing) /\ ~ui.submitting
    BY <1>1, <1>5, <1>2, Submitting, Ready DEF SourcesSubmit, SourcesCanSubmit
  <2>2. \E x \in {"create", "update"} : More("sources", net, net', x)
    BY <1>1, <1>2, <1>5, Submitting DEF SourcesSubmit, SourcesCanSubmit
  <2> QED
    BY <2>1, <2>2 DEF SourcesFlags, More
<1>6. CASE SourcesConfirmDelete
  <2>1. Sets(ui.loading, ui.submitting, ui.testing)
    BY <1>1, <1>6 DEF SourcesConfirmDelete, DeleteRow, Ask
  <2>2. More("sources", net, net', "delete")
    BY <1>1, <1>2, <1>6, Asking DEF SourcesConfirmDelete, DeleteRow, Ask
  <2> QED
    BY <2>1, <2>2 DEF SourcesFlags, More
<1>7. CASE \E r \in SourcesTable : SourcesToggle(r)
  <2>1. Sets(ui.loading, ui.submitting, ui.testing)
    BY <1>1, <1>7 DEF SourcesToggle, ToggleRow, Ask
  <2>2. More("sources", net, net', "toggle")
    BY <1>1, <1>2, <1>7, Asking DEF SourcesToggle, ToggleRow, Ask
  <2> QED
    BY <2>1, <2>2 DEF SourcesFlags, More
<1>8. CASE \E r \in SourcesTable : SourcesTest(r)
  <2>1. Sets(ui.loading, ui.submitting, ui'.testing)
    BY <1>1, <1>8 DEF SourcesTest, Ask
  <2>2. More("sources", net, net', "test")
    BY <1>1, <1>2, <1>8, Asking DEF SourcesTest, Ask
  <2> QED
    BY <2>1, <2>2 DEF SourcesFlags, More
<1>9. CASE Busy(s) /\ net[s].k = "list" /\ SourcesRefreshed(s)
  <2>1. Sets(FALSE, ui.submitting, ui.testing)
    BY <1>1, <1>9 DEF SourcesRefreshed, Listed, Resume
  <2>2. Less("sources", net, net', "list")
    BY <1>1, <1>2, <1>9, Ending DEF SourcesRefreshed, Listed, Resume
  <2> QED
    BY <2>1, <2>2 DEF SourcesFlags, Less
<1>10. CASE Busy(s) /\ net[s].k \in {"create", "update"} /\ SourcesSaved(s) /\ Ok(s)
  <2>1. Sets(TRUE, FALSE, ui.testing)
    BY <1>1, <1>10 DEF SourcesSaved, Saved, Refresh, Resume
  <2>2. \E x \in {"create", "update"} : Swap("sources", net, net', x, "list")
    BY <1>1, <1>2, <1>10, Chaining DEF SourcesSaved, Saved, Refresh, Resume
  <2> QED
    BY <2>1, <2>2 DEF SourcesFlags, Swap
<1>11. CASE Busy(s) /\ net[s].k \in {"create", "update"} /\ SourcesSaved(s) /\ ~Ok(s)
  <2>1. Sets(ui.loading, FALSE, ui.testing)
    BY <1>1, <1>11 DEF SourcesSaved, Saved, Refresh, Resume
  <2>2. \E x \in {"create", "update"} : Less("sources", net, net', x)
    BY <1>1, <1>2, <1>11, Ending DEF SourcesSaved, Saved, Refresh, Resume
  <2> QED
    BY <2>1, <2>2 DEF SourcesFlags, Less
<1>12. CASE Busy(s) /\ net[s].k = "toggle" /\ SourcesToggled(s)
  <2>1. Sets(ui.loading, ui.submitting, ui.testing)
    BY <1>1, <1>12 DEF SourcesToggled, Toggled, Resume
  <2>2. Less("sources", net, net', "toggle")
    BY <1>1, <1>2, <1>12, Ending DEF SourcesToggled, Toggled, Resume
  <2> QED
    BY <2>1, <2>2 DEF SourcesFlags, Less
<1>13. CASE Busy(s) /\ net[s].k = "delete" /\ SourcesDeleted(s) /\ Ok(s)
  <2>1. Sets(TRUE, ui.submitting, ui.testing)
    BY <1>1, <1>13 DEF SourcesDeleted, Deleted, Refresh, Resume
  <2>2. Swap("sources", net, net', "delete", "list")
    BY <1>1, <1>2, <1>13, Chaining DEF SourcesDeleted, Deleted, Refresh, Resume
  <2> QED
    BY <2>1, <2>2 DEF SourcesFlags, Swap
<1>14. CASE Busy(s) /\ net[s].k = "delete" /\ SourcesDeleted(s) /\ ~Ok(s)
  <2>1. Sets(ui.loading, ui.submitting, ui.testing)
    BY <1>1, <1>14 DEF SourcesDeleted, Deleted, Refresh, Resume
  <2>2. Less("sources", net, net', "delete")
    BY <1>1, <1>2, <1>14, Ending DEF SourcesDeleted, Deleted, Refresh, Resume
  <2> QED
    BY <2>1, <2>2 DEF SourcesFlags, Less
<1>15. CASE Busy(s) /\ net[s].k = "test" /\ SourcesTested(s)
  <2>1. Sets(ui.loading, ui.submitting, None)
    BY <1>1, <1>15 DEF SourcesTested, Resume
  <2>2. Less("sources", net, net', "test")
    BY <1>1, <1>2, <1>15, Ending DEF SourcesTested, Resume
  <2> QED
    BY <2>1, <2>2 DEF SourcesFlags, Less
<1> QED
  BY <1>3, <1>4, <1>5, <1>6, <1>7, <1>8, <1>9, <1>10, <1>11, <1>12, <1>13, <1>14, <1>15
    DEF SourcesUser, SourcesResume

LEMMA SourcesFlagPage ==
    ASSUME screen = "sources"
    PROVE  /\ Init => SourcesFlags
           /\ SourcesFlags /\ [Next]_vars => SourcesFlags'
           /\ SourcesFlags => SpinnersWaited /\ OneSubmitAtATime
<1>1. ASSUME Init PROVE SourcesFlags
  <2>1. (\E a \in BOOLEAN : ui = SourcesUi(a)) /\ net = Send(NoCalls, "list", None)
    BY <1>1, Zenon DEF Init
  <2>2. DOMAIN ui = {"admin", "rows", "loading", "dlg", "submitting", "del", "testing"} /\ ui.loading = TRUE /\ ui.submitting = FALSE /\ ui.testing = None
    BY <2>1 DEF SourcesUi
  <2>3. Kind("sources", "list", None) = "list"
    BY DEF Kind, Marks
  <2>4. More("sources", NoCalls, net, "list")
    BY <2>1, <2>3, OneYet
  <2> QED
    BY <2>2, <2>4, NoneYet DEF SourcesFlags, More
<1>2. ASSUME SourcesFlags, [Next]_vars PROVE SourcesFlags'
  <2>1. CASE \E s \in Slots : Serve(s) \/ Fault(s)
    <3>1. CallsIn(net)
      BY <1>2 DEF SourcesFlags
    <3>2. ui' = ui /\ Same("sources", net, net')
      BY <2>1, <3>1, ServerFlags
    <3> QED
      BY <1>2, <3>2 DEF SourcesFlags, Same
  <2>2. ASSUME NEW s \in Slots, Act \/ Interval \/ Elsewhere \/ Continue(s)
        PROVE  SourcesFlags'
    <3>1. SourcesUser \/ SourcesWorld \/ (Busy(s) /\ SourcesResume(s))
      BY <2>2 DEF Act, Interval, Elsewhere, Continue
    <3> QED
      BY <1>2, <3>1, SourcesFlagStep
  <2>3. CASE UNCHANGED vars
    BY <1>2, <2>3 DEF SourcesFlags, vars
  <2> QED
    BY <1>2, <2>1, <2>2, <2>3, SomeSlot DEF Next
<1>3. ASSUME SourcesFlags PROVE SpinnersWaited /\ OneSubmitAtATime
  <2> DEFINE c3 == ui.testing # None
  <2>1. /\ Spinners = {<<ui.loading, {"list"}>>,
                        <<ui.submitting, {"create", "update"}>>,
                        <<c3, {"test"}>>}
        /\ Submits = {{"create", "update"}}
    BY DEF Spinners, Submits
  <2>2. ui.loading => InFlight({"list"}) # {}
    <3>1. \A k, a : Kind("sources", k, a) \in {"list"} => k \in {"list"}
      BY DEF Kind, Marks
    <3> QED
      BY <1>3, <3>1, WaitsIsInFlight DEF SourcesFlags
  <2>3. ui.submitting => InFlight({"create", "update"}) # {}
    <3>1. \A k, a : Kind("sources", k, a) \in {"create", "update"} => k \in {"create", "update"}
      BY DEF Kind, Marks
    <3> QED
      BY <1>3, <3>1, WaitsIsInFlight DEF SourcesFlags
  <2>4. c3 => InFlight({"test"}) # {}
    <3>1. \A k, a : Kind("sources", k, a) \in {"test"} => k \in {"test"}
      BY DEF Kind, Marks
    <3> QED
      BY <1>3, <3>1, WaitsIsInFlight DEF SourcesFlags
  <2>5. Cardinality(InFlight({"create", "update"})) <= 1
    <3>1. \A k, a : k \in {"create", "update"} => Kind("sources", k, a) \in {"create", "update"}
      BY DEF Kind, Marks
    <3> QED
      BY <1>3, <3>1, AloneIsOne DEF SourcesFlags
  <2> HIDE DEF c3
  <2> QED
    BY <2>1, <2>2, <2>3, <2>4, <2>5 DEF SpinnersWaited, OneSubmitAtATime
<1> QED
  BY <1>1, <1>2, <1>3

----------------------------------------------------------------------------
(* Watches; the form waits for the table that is loaded after it too.      *)

WatchesFlags ==
    /\ CallsIn(net) /\ DOMAIN ui = {"admin", "rows", "srcs", "loading", "dlg", "submitting", "del", "runsOf", "runs"}
    /\ ui.loading => Waits("watches", net, {"list", "awaited"})
    /\ ui.submitting <=> Waits("watches", net, {"create", "update", "awaited"})
    /\ Alone("watches", net, {"create", "update", "awaited"})

LEMMA WatchesFlagStep ==
    ASSUME WatchesFlags, NEW s \in Slots, WatchesUser \/ WatchesPoll \/ WatchesWorld \/ (Busy(s) /\ WatchesResume(s))
    PROVE  WatchesFlags'
<1> DEFINE Sets(v0, v1) == DOMAIN ui' = DOMAIN ui /\ ui'.loading = v0 /\ ui'.submitting = v1
<1>1. CallsIn(net) /\ DOMAIN ui = {"admin", "rows", "srcs", "loading", "dlg", "submitting", "del", "runsOf", "runs"}
  BY DEF WatchesFlags
<1>2. \A a : /\ Kind("watches", "create", a) = "create"
             /\ Kind("watches", "update", a) = "update"
             /\ Kind("watches", "set", a) = "set"
             /\ Kind("watches", "delete", a) = "delete"
             /\ Kind("watches", "runs", a) = "runs"
             /\ Kind("watches", "test", a) = "test"
  BY DEF Kind, Marks
<1>3. \A a : /\ a = "submit" => Kind("watches", "list", a) = "awaited"
             /\ a # "submit" => Kind("watches", "list", a) = "list"
             /\ None # "submit"
  BY NullAssumption DEF Kind, Marks, Words
<1>4. CASE WatchesOpenNew \/ TypeForm(Typed \cup {"short"}) \/ WatchesClose \/ \E r \in WatchesTable : WatchesOpenEdit(r) \/ AskDelete(r)
  <2>1. Sets(ui.loading, ui.submitting)
    BY <1>1, <1>4 DEF WatchesOpenNew, TypeForm, WatchesClose, WatchesOpenEdit, AskDelete, OpenForm, User
  <2>2. net' = net
    BY <1>4 DEF WatchesOpenNew, TypeForm, WatchesClose, WatchesOpenEdit, AskDelete, OpenForm, User
  <2> QED
    BY <2>1, <2>2 DEF WatchesFlags
<1>5. CASE WatchesWorld
  <2>1. Sets(ui.loading, ui.submitting)
    BY <1>1, <1>5 DEF WatchesWorld, World
  <2>2. net' = net
    BY <1>5 DEF WatchesWorld, World
  <2> QED
    BY <2>1, <2>2 DEF WatchesFlags
<1>6. CASE WatchesPoll
  <2>1. Sets(ui.loading, ui.submitting)
    BY <1>1, <1>6 DEF WatchesPoll, Tick, Fire
  <2>2. More("watches", net, net', "list")
    BY <1>1, <1>3, <1>6, Asking DEF WatchesPoll, Tick, Fire
  <2> QED
    BY <2>1, <2>2 DEF WatchesFlags, More
<1>7. CASE WatchesSubmit
  <2>1. Sets(ui.loading, TRUE) /\ ~ui.submitting
    BY <1>1, <1>7, <1>2, Submitting, Ready DEF WatchesSubmit, WatchesCanSubmit
  <2>2. \E x \in {"create", "update"} : More("watches", net, net', x)
    BY <1>1, <1>2, <1>7, Submitting DEF WatchesSubmit, WatchesCanSubmit
  <2> QED
    BY <2>1, <2>2 DEF WatchesFlags, More
<1>8. CASE WatchesConfirmDelete
  <2>1. Sets(ui.loading, ui.submitting)
    BY <1>1, <1>8 DEF WatchesConfirmDelete, DeleteRow, Ask
  <2>2. More("watches", net, net', "delete")
    BY <1>1, <1>2, <1>8, Asking DEF WatchesConfirmDelete, DeleteRow, Ask
  <2> QED
    BY <2>1, <2>2 DEF WatchesFlags, More
<1>9. CASE \E r \in WatchesTable : WatchesToggle(r)
  <2>1. Sets(ui.loading, ui.submitting)
    BY <1>1, <1>9 DEF WatchesToggle, ToggleRow, Ask
  <2>2. More("watches", net, net', "set")
    BY <1>1, <1>2, <1>9, Asking DEF WatchesToggle, ToggleRow, Ask
  <2> QED
    BY <2>1, <2>2 DEF WatchesFlags, More
<1>10. CASE \E r \in WatchesTable : WatchesRunNow(r)
  <2>1. Sets(ui.loading, ui.submitting)
    BY <1>1, <1>10 DEF WatchesRunNow, Ask
  <2>2. More("watches", net, net', "test")
    BY <1>1, <1>2, <1>10, Asking DEF WatchesRunNow, Ask
  <2> QED
    BY <2>1, <2>2 DEF WatchesFlags, More
<1>11. CASE \E r \in WatchesTable : WatchesOpenRuns(r)
  <2>1. Sets(ui.loading, ui.submitting)
    BY <1>1, <1>11 DEF WatchesOpenRuns, Ask
  <2>2. More("watches", net, net', "runs")
    BY <1>1, <1>2, <1>11, Asking DEF WatchesOpenRuns, Ask
  <2> QED
    BY <2>1, <2>2 DEF WatchesFlags, More
<1>12. CASE Busy(s) /\ net[s].k = "list" /\ WatchesListed(s) /\ net[s].a = "submit"
  <2>1. Sets(FALSE, FALSE)
    BY <1>1, <1>12 DEF WatchesListed, Resume
  <2>2. Less("watches", net, net', "awaited")
    BY <1>1, <1>3, <1>12, Ending DEF WatchesListed, Resume
  <2> QED
    BY <2>1, <2>2 DEF WatchesFlags, Less
<1>13. CASE Busy(s) /\ net[s].k = "list" /\ WatchesListed(s) /\ net[s].a # "submit"
  <2>1. Sets(FALSE, (ui.submitting /\ TRUE))
    BY <1>1, <1>13 DEF WatchesListed, Resume
  <2>2. Less("watches", net, net', "list")
    BY <1>1, <1>3, <1>13, Ending DEF WatchesListed, Resume
  <2> QED
    BY <2>1, <2>2 DEF WatchesFlags, Less
<1>14. CASE Busy(s) /\ net[s].k \in {"create", "update"} /\ WatchesSaved(s) /\ Ok(s)
  <2>1. Sets(ui.loading, ui.submitting)
    BY <1>1, <1>14 DEF WatchesSaved, Resume
  <2>2. \E x \in {"create", "update"} : Swap("watches", net, net', x, "awaited")
    BY <1>1, <1>2, <1>3, <1>14, Chaining DEF WatchesSaved, Resume
  <2> QED
    BY <2>1, <2>2 DEF WatchesFlags, Swap
<1>15. CASE Busy(s) /\ net[s].k \in {"create", "update"} /\ WatchesSaved(s) /\ ~Ok(s)
  <2>1. Sets(ui.loading, FALSE)
    BY <1>1, <1>15 DEF WatchesSaved, Resume
  <2>2. \E x \in {"create", "update"} : Less("watches", net, net', x)
    BY <1>1, <1>2, <1>15, Ending DEF WatchesSaved, Resume
  <2> QED
    BY <2>1, <2>2 DEF WatchesFlags, Less
<1>16. CASE Busy(s) /\ net[s].k \in {"set", "delete"} /\ WatchesChanged(s) /\ Ok(s)
  <2>1. Sets(ui.loading, ui.submitting)
    BY <1>1, <1>16 DEF WatchesChanged, Resume
  <2>2. \E x \in {"set", "delete"} : Swap("watches", net, net', x, "list")
    BY <1>1, <1>2, <1>3, <1>16, Chaining DEF WatchesChanged, Resume
  <2> QED
    BY <2>1, <2>2 DEF WatchesFlags, Swap
<1>17. CASE Busy(s) /\ net[s].k \in {"set", "delete"} /\ WatchesChanged(s) /\ ~Ok(s)
  <2>1. Sets(ui.loading, ui.submitting)
    BY <1>1, <1>17 DEF WatchesChanged, Resume
  <2>2. \E x \in {"set", "delete"} : Less("watches", net, net', x)
    BY <1>1, <1>2, <1>17, Ending DEF WatchesChanged, Resume
  <2> QED
    BY <2>1, <2>2 DEF WatchesFlags, Less
<1>18. CASE Busy(s) /\ net[s].k = "runs" /\ WatchesRuns(s)
  <2>1. Sets(ui.loading, ui.submitting)
    BY <1>1, <1>18 DEF WatchesRuns, Resume
  <2>2. Less("watches", net, net', "runs")
    BY <1>1, <1>2, <1>18, Ending DEF WatchesRuns, Resume
  <2> QED
    BY <2>1, <2>2 DEF WatchesFlags, Less
<1>19. CASE Busy(s) /\ net[s].k = "test" /\ Resume(s, ui, Rest(s))
  <2>1. Sets(ui.loading, ui.submitting)
    BY <1>1, <1>19 DEF Resume
  <2>2. Less("watches", net, net', "test")
    BY <1>1, <1>2, <1>19, Ending DEF Resume
  <2> QED
    BY <2>1, <2>2 DEF WatchesFlags, Less
<1> QED
  BY <1>4, <1>5, <1>6, <1>7, <1>8, <1>9, <1>10, <1>11, <1>12, <1>13, <1>14, <1>15, <1>16, <1>17, <1>18, <1>19
    DEF WatchesUser, WatchesResume

LEMMA WatchesFlagPage ==
    ASSUME screen = "watches"
    PROVE  /\ Init => WatchesFlags
           /\ WatchesFlags /\ [Next]_vars => WatchesFlags'
           /\ WatchesFlags => SpinnersWaited /\ OneSubmitAtATime
<1>1. ASSUME Init PROVE WatchesFlags
  <2>1. (\E a \in BOOLEAN : ui = WatchesUi(a)) /\ net = Send(NoCalls, "list", None)
    BY <1>1, Zenon DEF Init
  <2>2. DOMAIN ui = {"admin", "rows", "srcs", "loading", "dlg", "submitting", "del", "runsOf", "runs"} /\ ui.loading = TRUE /\ ui.submitting = FALSE
    BY <2>1 DEF WatchesUi
  <2>3. Kind("watches", "list", None) = "list"
    BY NullAssumption DEF Kind, Marks, Words
  <2>4. More("watches", NoCalls, net, "list")
    BY <2>1, <2>3, OneYet
  <2> QED
    BY <2>2, <2>4, NoneYet DEF WatchesFlags, More
<1>2. ASSUME WatchesFlags, [Next]_vars PROVE WatchesFlags'
  <2>1. CASE \E s \in Slots : Serve(s) \/ Fault(s)
    <3>1. CallsIn(net)
      BY <1>2 DEF WatchesFlags
    <3>2. ui' = ui /\ Same("watches", net, net')
      BY <2>1, <3>1, ServerFlags
    <3> QED
      BY <1>2, <3>2 DEF WatchesFlags, Same
  <2>2. ASSUME NEW s \in Slots, Act \/ Interval \/ Elsewhere \/ Continue(s)
        PROVE  WatchesFlags'
    <3>1. WatchesUser \/ WatchesPoll \/ WatchesWorld \/ (Busy(s) /\ WatchesResume(s))
      BY <2>2 DEF Act, Interval, Elsewhere, Continue
    <3> QED
      BY <1>2, <3>1, WatchesFlagStep
  <2>3. CASE UNCHANGED vars
    BY <1>2, <2>3 DEF WatchesFlags, vars
  <2> QED
    BY <1>2, <2>1, <2>2, <2>3, SomeSlot DEF Next
<1>3. ASSUME WatchesFlags PROVE SpinnersWaited /\ OneSubmitAtATime
  <2>1. /\ Spinners = {<<ui.loading, {"list"}>>,
                        <<ui.submitting, {"create", "update", "list"}>>}
        /\ Submits = {{"create", "update"}}
    BY DEF Spinners, Submits
  <2>2. ui.loading => InFlight({"list"}) # {}
    <3>1. \A k, a : Kind("watches", k, a) \in {"list", "awaited"} => k \in {"list"}
      BY NullAssumption DEF Kind, Marks
    <3> QED
      BY <1>3, <3>1, WaitsIsInFlight DEF WatchesFlags
  <2>3. ui.submitting => InFlight({"create", "update", "list"}) # {}
    <3>1. \A k, a : Kind("watches", k, a) \in {"create", "update", "awaited"} => k \in {"create", "update", "list"}
      BY NullAssumption DEF Kind, Marks
    <3> QED
      BY <1>3, <3>1, WaitsIsInFlight DEF WatchesFlags
  <2>4. Cardinality(InFlight({"create", "update"})) <= 1
    <3>1. \A k, a : k \in {"create", "update"} => Kind("watches", k, a) \in {"create", "update", "awaited"}
      BY NullAssumption DEF Kind, Marks
    <3> QED
      BY <1>3, <3>1, AloneIsOne DEF WatchesFlags
  <2> QED
    BY <2>1, <2>2, <2>3, <2>4 DEF SpinnersWaited, OneSubmitAtATime
<1> QED
  BY <1>1, <1>2, <1>3

----------------------------------------------------------------------------
(* The path picker.                                                        *)

PickerFlags ==
    /\ CallsIn(net) /\ DOMAIN ui = {"open", "src", "prefix", "entries", "loading", "chosen"}
    /\ ui.loading => Waits("picker", net, {"dir"})

LEMMA PickerFlagStep ==
    ASSUME PickerFlags, NEW s \in Slots, PickerUser \/ (Busy(s) /\ PickerResume(s))
    PROVE  PickerFlags'
<1> DEFINE Sets(v0) == DOMAIN ui' = DOMAIN ui /\ ui'.loading = v0
<1>1. CallsIn(net) /\ DOMAIN ui = {"open", "src", "prefix", "entries", "loading", "chosen"}
  BY DEF PickerFlags
<1>2. \A a : /\ Kind("picker", "dir", a) = "dir"
  BY DEF Kind, Marks
<1>3. CASE \E src \in {1, 2} : PickerOpen(src)
  <2>1. Sets(TRUE)
    BY <1>1, <1>3 DEF PickerOpen, Ask
  <2>2. More("picker", net, net', "dir")
    BY <1>1, <1>2, <1>3, Asking DEF PickerOpen, Ask
  <2> QED
    BY <2>1, <2>2 DEF PickerFlags, More
<1>4. CASE \E p \in PickerCrumbs \cup PickerFolders : PickerLoad(p)
  <2>1. Sets(TRUE)
    BY <1>1, <1>4 DEF PickerLoad, Ask
  <2>2. More("picker", net, net', "dir")
    BY <1>1, <1>2, <1>4, Asking DEF PickerLoad, Ask
  <2> QED
    BY <2>1, <2>2 DEF PickerFlags, More
<1>5. CASE PickerChoose
  <2>1. Sets(ui.loading)
    BY <1>1, <1>5 DEF PickerChoose, User
  <2>2. net' = net
    BY <1>5 DEF PickerChoose, User
  <2> QED
    BY <2>1, <2>2 DEF PickerFlags
<1>6. CASE Busy(s) /\ net[s].k = "dir" /\ PickerListed(s)
  <2>1. Sets(FALSE)
    BY <1>1, <1>6 DEF PickerListed, Resume
  <2>2. Less("picker", net, net', "dir")
    BY <1>1, <1>2, <1>6, Ending DEF PickerListed, Resume
  <2> QED
    BY <2>1, <2>2 DEF PickerFlags, Less
<1> QED
  BY <1>3, <1>4, <1>5, <1>6 DEF PickerUser, PickerResume

LEMMA PickerFlagPage ==
    ASSUME screen = "picker"
    PROVE  /\ Init => PickerFlags
           /\ PickerFlags /\ [Next]_vars => PickerFlags'
           /\ PickerFlags => SpinnersWaited /\ OneSubmitAtATime
<1>1. ASSUME Init PROVE PickerFlags
  <2>1. ui = PickerUi /\ net = NoCalls
    BY <1>1, Zenon DEF Init
  <2>2. DOMAIN ui = {"open", "src", "prefix", "entries", "loading", "chosen"} /\ ui.loading = FALSE
    BY <2>1 DEF PickerUi
  <2> QED
    BY <2>1, <2>2, NoneYet DEF PickerFlags
<1>2. ASSUME PickerFlags, [Next]_vars PROVE PickerFlags'
  <2>1. CASE \E s \in Slots : Serve(s) \/ Fault(s)
    <3>1. CallsIn(net)
      BY <1>2 DEF PickerFlags
    <3>2. ui' = ui /\ Same("picker", net, net')
      BY <2>1, <3>1, ServerFlags
    <3> QED
      BY <1>2, <3>2 DEF PickerFlags, Same
  <2>2. ASSUME NEW s \in Slots, Act \/ Interval \/ Elsewhere \/ Continue(s)
        PROVE  PickerFlags'
    <3>1. PickerUser \/ (Busy(s) /\ PickerResume(s))
      BY <2>2 DEF Act, Interval, Elsewhere, Continue
    <3> QED
      BY <1>2, <3>1, PickerFlagStep
  <2>3. CASE UNCHANGED vars
    BY <1>2, <2>3 DEF PickerFlags, vars
  <2> QED
    BY <1>2, <2>1, <2>2, <2>3, SomeSlot DEF Next
<1>3. ASSUME PickerFlags PROVE SpinnersWaited /\ OneSubmitAtATime
  <2>1. /\ Spinners = {<<ui.loading, {"dir"}>>}
        /\ Submits = {}
    BY DEF Spinners, Submits
  <2>2. ui.loading => InFlight({"dir"}) # {}
    <3>1. \A k, a : Kind("picker", k, a) \in {"dir"} => k \in {"dir"}
      BY DEF Kind, Marks
    <3> QED
      BY <1>3, <3>1, WaitsIsInFlight DEF PickerFlags
  <2> QED
    BY <2>1, <2>2 DEF SpinnersWaited, OneSubmitAtATime
<1> QED
  BY <1>1, <1>2, <1>3

----------------------------------------------------------------------------
(* Jobs.                                                                   *)

JobsFlags ==
    /\ CallsIn(net) /\ DOMAIN ui = {"admin", "q", "shown", "loading", "reindexing", "confirm"}
    /\ ui.loading => Waits("jobs", net, {"load"})
    /\ ui.reindexing # None <=> Waits("jobs", net, {"reindex"})
    /\ Alone("jobs", net, {"reindex"})

LEMMA JobsFlagStep ==
    ASSUME JobsFlags, NEW s \in Slots, JobsUser \/ JobsPoll \/ JobsWorld \/ (Busy(s) /\ JobsResume(s))
    PROVE  JobsFlags'
<1> DEFINE Sets(v0, v1) == DOMAIN ui' = DOMAIN ui /\ ui'.loading = v0 /\ ui'.reindexing = v1
<1>1. CallsIn(net) /\ DOMAIN ui = {"admin", "q", "shown", "loading", "reindexing", "confirm"}
  BY DEF JobsFlags
<1>2. \A a : /\ Kind("jobs", "load", a) = "load"
             /\ Kind("jobs", "poll", a) = "poll"
             /\ Kind("jobs", "reindex", a) = "reindex"
  BY DEF Kind, Marks
<1>3. CASE JobsKeep \/ \E r \in JobsTable : JobsAskReindex(r)
  <2>1. Sets(ui.loading, ui.reindexing)
    BY <1>1, <1>3 DEF JobsKeep, JobsAskReindex, User
  <2>2. net' = net
    BY <1>3 DEF JobsKeep, JobsAskReindex, User
  <2> QED
    BY <2>1, <2>2 DEF JobsFlags
<1>4. CASE JobsWorld
  <2>1. Sets(ui.loading, ui.reindexing)
    BY <1>1, <1>4 DEF JobsWorld, World
  <2>2. net' = net
    BY <1>4 DEF JobsWorld, World
  <2> QED
    BY <2>1, <2>2 DEF JobsFlags
<1>5. CASE \E st \in {"all", "failed"} : JobsFilter(st)
  <2>1. Sets(TRUE, ui.reindexing)
    BY <1>1, <1>5 DEF JobsFilter, Ask
  <2>2. More("jobs", net, net', "load")
    BY <1>1, <1>2, <1>5, Asking DEF JobsFilter, Ask
  <2> QED
    BY <2>1, <2>2 DEF JobsFlags, More
<1>6. CASE JobsTurn
  <2>1. Sets(TRUE, ui.reindexing)
    BY <1>1, <1>6 DEF JobsTurn, Ask
  <2>2. More("jobs", net, net', "load")
    BY <1>1, <1>2, <1>6, Asking DEF JobsTurn, Ask
  <2> QED
    BY <2>1, <2>2 DEF JobsFlags, More
<1>7. CASE JobsRefresh
  <2>1. Sets(ui.loading, ui.reindexing)
    BY <1>1, <1>7 DEF JobsRefresh, Ask
  <2>2. More("jobs", net, net', "load")
    BY <1>1, <1>2, <1>7, Asking DEF JobsRefresh, Ask
  <2> QED
    BY <2>1, <2>2 DEF JobsFlags, More
<1>8. CASE JobsDoReindex
  <2>1. Sets(ui.loading, ui'.reindexing) /\ ui'.reindexing # None /\ ui.reindexing = None
    BY <1>1, <1>8 DEF JobsDoReindex, Ask
  <2>2. More("jobs", net, net', "reindex")
    BY <1>1, <1>2, <1>8, Asking DEF JobsDoReindex, Ask
  <2> QED
    BY <2>1, <2>2 DEF JobsFlags, More
<1>9. CASE JobsPoll
  <2>1. Sets(ui.loading, ui.reindexing)
    BY <1>1, <1>9 DEF JobsPoll, Tick, Fire
  <2>2. More("jobs", net, net', "poll")
    BY <1>1, <1>2, <1>9, Asking DEF JobsPoll, Tick, Fire
  <2> QED
    BY <2>1, <2>2 DEF JobsFlags, More
<1>10. CASE Busy(s) /\ net[s].k = "load" /\ JobsLoaded(s)
  <2>1. Sets(FALSE, ui.reindexing)
    BY <1>1, <1>10 DEF JobsLoaded, Resume
  <2>2. Less("jobs", net, net', "load")
    BY <1>1, <1>2, <1>10, Ending DEF JobsLoaded, Resume
  <2> QED
    BY <2>1, <2>2 DEF JobsFlags, Less
<1>11. CASE Busy(s) /\ net[s].k = "poll" /\ JobsLoaded(s)
  <2>1. Sets(ui.loading, ui.reindexing)
    BY <1>1, <1>11 DEF JobsLoaded, Resume
  <2>2. Less("jobs", net, net', "poll")
    BY <1>1, <1>2, <1>11, Ending DEF JobsLoaded, Resume
  <2> QED
    BY <2>1, <2>2 DEF JobsFlags, Less
<1>12. CASE Busy(s) /\ net[s].k = "reindex" /\ JobsReindexed(s) /\ Ok(s)
  <2>1. Sets(ui.loading, None)
    BY <1>1, <1>12 DEF JobsReindexed, Resume
  <2>2. Swap("jobs", net, net', "reindex", "load")
    BY <1>1, <1>2, <1>12, Chaining DEF JobsReindexed, Resume
  <2> QED
    BY <2>1, <2>2 DEF JobsFlags, Swap
<1>13. CASE Busy(s) /\ net[s].k = "reindex" /\ JobsReindexed(s) /\ ~Ok(s)
  <2>1. Sets(ui.loading, None)
    BY <1>1, <1>13 DEF JobsReindexed, Resume
  <2>2. Less("jobs", net, net', "reindex")
    BY <1>1, <1>2, <1>13, Ending DEF JobsReindexed, Resume
  <2> QED
    BY <2>1, <2>2 DEF JobsFlags, Less
<1> QED
  BY <1>3, <1>4, <1>5, <1>6, <1>7, <1>8, <1>9, <1>10, <1>11, <1>12, <1>13 DEF JobsUser, JobsResume

LEMMA JobsFlagPage ==
    ASSUME screen = "jobs"
    PROVE  /\ Init => JobsFlags
           /\ JobsFlags /\ [Next]_vars => JobsFlags'
           /\ JobsFlags => SpinnersWaited /\ OneSubmitAtATime
<1>1. ASSUME Init PROVE JobsFlags
  <2>1. (\E a \in BOOLEAN : ui = JobsUi(a)) /\ net = Send(NoCalls, "load", JobsHome)
    BY <1>1, Zenon DEF Init
  <2>2. DOMAIN ui = {"admin", "q", "shown", "loading", "reindexing", "confirm"} /\ ui.loading = TRUE /\ ui.reindexing = None
    BY <2>1 DEF JobsUi
  <2>3. Kind("jobs", "load", JobsHome) = "load"
    BY DEF Kind, Marks
  <2>4. More("jobs", NoCalls, net, "load")
    BY <2>1, <2>3, OneYet
  <2> QED
    BY <2>2, <2>4, NoneYet DEF JobsFlags, More
<1>2. ASSUME JobsFlags, [Next]_vars PROVE JobsFlags'
  <2>1. CASE \E s \in Slots : Serve(s) \/ Fault(s)
    <3>1. CallsIn(net)
      BY <1>2 DEF JobsFlags
    <3>2. ui' = ui /\ Same("jobs", net, net')
      BY <2>1, <3>1, ServerFlags
    <3> QED
      BY <1>2, <3>2 DEF JobsFlags, Same
  <2>2. ASSUME NEW s \in Slots, Act \/ Interval \/ Elsewhere \/ Continue(s)
        PROVE  JobsFlags'
    <3>1. JobsUser \/ JobsPoll \/ JobsWorld \/ (Busy(s) /\ JobsResume(s))
      BY <2>2 DEF Act, Interval, Elsewhere, Continue
    <3> QED
      BY <1>2, <3>1, JobsFlagStep
  <2>3. CASE UNCHANGED vars
    BY <1>2, <2>3 DEF JobsFlags, vars
  <2> QED
    BY <1>2, <2>1, <2>2, <2>3, SomeSlot DEF Next
<1>3. ASSUME JobsFlags PROVE SpinnersWaited /\ OneSubmitAtATime
  <2> DEFINE c2 == ui.reindexing # None
  <2>1. /\ Spinners = {<<ui.loading, {"load"}>>, <<c2, {"reindex"}>>}
        /\ Submits = {{"reindex"}}
    BY DEF Spinners, Submits
  <2>2. ui.loading => InFlight({"load"}) # {}
    <3>1. \A k, a : Kind("jobs", k, a) \in {"load"} => k \in {"load"}
      BY DEF Kind, Marks
    <3> QED
      BY <1>3, <3>1, WaitsIsInFlight DEF JobsFlags
  <2>3. c2 => InFlight({"reindex"}) # {}
    <3>1. \A k, a : Kind("jobs", k, a) \in {"reindex"} => k \in {"reindex"}
      BY DEF Kind, Marks
    <3> QED
      BY <1>3, <3>1, WaitsIsInFlight DEF JobsFlags
  <2>4. Cardinality(InFlight({"reindex"})) <= 1
    <3>1. \A k, a : k \in {"reindex"} => Kind("jobs", k, a) \in {"reindex"}
      BY DEF Kind, Marks
    <3> QED
      BY <1>3, <3>1, AloneIsOne DEF JobsFlags
  <2> HIDE DEF c2
  <2> QED
    BY <2>1, <2>2, <2>3, <2>4 DEF SpinnersWaited, OneSubmitAtATime
<1> QED
  BY <1>1, <1>2, <1>3

----------------------------------------------------------------------------
(* Polled tabs.                                                            *)

PolledFlags ==
    /\ CallsIn(net) /\ DOMAIN ui = {"tab", "data", "loading"}
    /\ ui.loading => Waits("polled", net, {"list"})

LEMMA PolledFlagStep ==
    ASSUME PolledFlags, NEW s \in Slots, PolledUser \/ PolledPoll \/ PolledWorld \/ (Busy(s) /\ PolledResume(s))
    PROVE  PolledFlags'
<1> DEFINE Sets(v0) == DOMAIN ui' = DOMAIN ui /\ ui'.loading = v0
<1>1. CallsIn(net) /\ DOMAIN ui = {"tab", "data", "loading"}
  BY DEF PolledFlags
<1>2. \A a : /\ Kind("polled", "list", a) = "list"
             /\ Kind("polled", "gone", a) = "gone"
  BY DEF Kind, Marks
<1>3. CASE PolledWorld
  <2>1. Sets(ui.loading)
    BY <1>1, <1>3 DEF PolledWorld, World
  <2>2. net' = net
    BY <1>3 DEF PolledWorld, World
  <2> QED
    BY <2>1, <2>2 DEF PolledFlags
<1>4. CASE PolledRefresh
  <2>1. Sets(ui.loading)
    BY <1>1, <1>4 DEF PolledRefresh, Ask
  <2>2. More("polled", net, net', "list")
    BY <1>1, <1>2, <1>4, Asking DEF PolledRefresh, Ask
  <2> QED
    BY <2>1, <2>2 DEF PolledFlags, More
<1>5. CASE PolledPoll
  <2>1. Sets(ui.loading)
    BY <1>1, <1>5 DEF PolledPoll, Tick, Fire
  <2>2. More("polled", net, net', "list")
    BY <1>1, <1>2, <1>5, Asking DEF PolledPoll, Tick, Fire
  <2> QED
    BY <2>1, <2>2 DEF PolledFlags, More
<1>6. CASE \E t \in PolledTabs : PolledSwitch(t)
  <2>1. Sets(TRUE)
    BY <1>1, <1>6 DEF PolledSwitch
  <2>2. CallsIn(net') /\ Waits("polled", net', {"list"})
    BY <1>1, <1>2, <1>6, Remounting DEF PolledSwitch
  <2> QED
    BY <2>1, <2>2 DEF PolledFlags
<1>7. CASE Busy(s) /\ net[s].k = "list" /\ PolledListed(s)
  <2>1. Sets(FALSE)
    BY <1>1, <1>7 DEF PolledListed, Resume
  <2>2. Less("polled", net, net', "list")
    BY <1>1, <1>2, <1>7, Ending DEF PolledListed, Resume
  <2> QED
    BY <2>1, <2>2 DEF PolledFlags, Less
<1>8. CASE Busy(s) /\ net[s].k = "gone" /\ Resume(s, ui, Rest(s))
  <2>1. Sets(ui.loading)
    BY <1>1, <1>8 DEF Resume
  <2>2. Less("polled", net, net', "gone")
    BY <1>1, <1>2, <1>8, Ending DEF Resume
  <2> QED
    BY <2>1, <2>2 DEF PolledFlags, Less
<1> QED
  BY <1>3, <1>4, <1>5, <1>6, <1>7, <1>8 DEF PolledUser, PolledResume

LEMMA PolledFlagPage ==
    ASSUME screen = "polled"
    PROVE  /\ Init => PolledFlags
           /\ PolledFlags /\ [Next]_vars => PolledFlags'
           /\ PolledFlags => SpinnersWaited /\ OneSubmitAtATime
<1>1. ASSUME Init PROVE PolledFlags
  <2>1. ui = PolledUi /\ net = Send(NoCalls, "list", "eval")
    BY <1>1, Zenon DEF Init
  <2>2. DOMAIN ui = {"tab", "data", "loading"} /\ ui.loading = TRUE
    BY <2>1 DEF PolledUi
  <2>3. Kind("polled", "list", "eval") = "list"
    BY DEF Kind, Marks
  <2>4. More("polled", NoCalls, net, "list")
    BY <2>1, <2>3, OneYet
  <2> QED
    BY <2>2, <2>4, NoneYet DEF PolledFlags, More
<1>2. ASSUME PolledFlags, [Next]_vars PROVE PolledFlags'
  <2>1. CASE \E s \in Slots : Serve(s) \/ Fault(s)
    <3>1. CallsIn(net)
      BY <1>2 DEF PolledFlags
    <3>2. ui' = ui /\ Same("polled", net, net')
      BY <2>1, <3>1, ServerFlags
    <3> QED
      BY <1>2, <3>2 DEF PolledFlags, Same
  <2>2. ASSUME NEW s \in Slots, Act \/ Interval \/ Elsewhere \/ Continue(s)
        PROVE  PolledFlags'
    <3>1. PolledUser \/ PolledPoll \/ PolledWorld \/ (Busy(s) /\ PolledResume(s))
      BY <2>2 DEF Act, Interval, Elsewhere, Continue
    <3> QED
      BY <1>2, <3>1, PolledFlagStep
  <2>3. CASE UNCHANGED vars
    BY <1>2, <2>3 DEF PolledFlags, vars
  <2> QED
    BY <1>2, <2>1, <2>2, <2>3, SomeSlot DEF Next
<1>3. ASSUME PolledFlags PROVE SpinnersWaited /\ OneSubmitAtATime
  <2>1. /\ Spinners = {<<ui.loading, {"list"}>>}
        /\ Submits = {}
    BY DEF Spinners, Submits
  <2>2. ui.loading => InFlight({"list"}) # {}
    <3>1. \A k, a : Kind("polled", k, a) \in {"list"} => k \in {"list"}
      BY DEF Kind, Marks
    <3> QED
      BY <1>3, <3>1, WaitsIsInFlight DEF PolledFlags
  <2> QED
    BY <2>1, <2>2 DEF SpinnersWaited, OneSubmitAtATime
<1> QED
  BY <1>1, <1>2, <1>3

----------------------------------------------------------------------------
(* Servers.                                                                *)

ServersFlags ==
    /\ CallsIn(net) /\ DOMAIN ui = {"probes", "replicas", "loading"}
    /\ ui.loading => Waits("servers", net, {"probes"})

LEMMA ServersFlagStep ==
    ASSUME ServersFlags, NEW s \in Slots, ServersUser \/ ServersPoll \/ ServersWorld \/ (Busy(s) /\ ServersResume(s))
    PROVE  ServersFlags'
<1> DEFINE Sets(v0) == DOMAIN ui' = DOMAIN ui /\ ui'.loading = v0
<1>1. CallsIn(net) /\ DOMAIN ui = {"probes", "replicas", "loading"}
  BY DEF ServersFlags
<1>2. \A a : /\ Kind("servers", "probes", a) = "probes"
             /\ Kind("servers", "replicas", a) = "replicas"
  BY DEF Kind, Marks
<1>3. CASE Ask(ui, "probes", None)
  <2>1. Sets(ui.loading)
    BY <1>1, <1>3 DEF Ask
  <2>2. More("servers", net, net', "probes")
    BY <1>1, <1>2, <1>3, Asking DEF Ask
  <2> QED
    BY <2>1, <2>2 DEF ServersFlags, More
<1>4. CASE Ask(ui, "replicas", None)
  <2>1. Sets(ui.loading)
    BY <1>1, <1>4 DEF Ask
  <2>2. More("servers", net, net', "replicas")
    BY <1>1, <1>2, <1>4, Asking DEF Ask
  <2> QED
    BY <2>1, <2>2 DEF ServersFlags, More
<1>5. CASE ServersPoll
  <2>1. Sets(ui.loading)
    BY <1>1, <1>5 DEF ServersPoll, Fire
  <2>2. Both("servers", net, net', "probes", "replicas")
    BY <1>1, <1>2, <1>5, AskingTwo DEF ServersPoll, Fire
  <2> QED
    BY <2>1, <2>2 DEF ServersFlags, Both
<1>6. CASE ServersWorld
  <2>1. Sets(ui.loading)
    BY <1>1, <1>6 DEF ServersWorld, World
  <2>2. net' = net
    BY <1>6 DEF ServersWorld, World
  <2> QED
    BY <2>1, <2>2 DEF ServersFlags
<1>7. CASE Busy(s) /\ net[s].k = "probes" /\ Resume(s, [ui EXCEPT !.probes = Got(s, @), !.loading = FALSE], Rest(s))
  <2>1. Sets(FALSE)
    BY <1>1, <1>7 DEF Resume
  <2>2. Less("servers", net, net', "probes")
    BY <1>1, <1>2, <1>7, Ending DEF Resume
  <2> QED
    BY <2>1, <2>2 DEF ServersFlags, Less
<1>8. CASE Busy(s) /\ net[s].k = "replicas" /\ Resume(s, [ui EXCEPT !.replicas = Got(s, @)], Rest(s))
  <2>1. Sets(ui.loading)
    BY <1>1, <1>8 DEF Resume
  <2>2. Less("servers", net, net', "replicas")
    BY <1>1, <1>2, <1>8, Ending DEF Resume
  <2> QED
    BY <2>1, <2>2 DEF ServersFlags, Less
<1> QED
  BY <1>3, <1>4, <1>5, <1>6, <1>7, <1>8 DEF ServersUser, ServersResume

LEMMA ServersFlagPage ==
    ASSUME screen = "servers"
    PROVE  /\ Init => ServersFlags
           /\ ServersFlags /\ [Next]_vars => ServersFlags'
           /\ ServersFlags => SpinnersWaited /\ OneSubmitAtATime
<1>1. ASSUME Init PROVE ServersFlags
  <2>1. ui = ServersUi /\ net = Send(Send(NoCalls, "probes", None), "replicas", None)
    BY <1>1, Zenon DEF Init
  <2>2. DOMAIN ui = {"probes", "replicas", "loading"} /\ ui.loading = TRUE
    BY <2>1 DEF ServersUi
  <2>3. Kind("servers", "probes", None) = "probes" /\ Kind("servers", "replicas", None) = "replicas"
    BY DEF Kind, Marks
  <2>4. Both("servers", NoCalls, net, "probes", "replicas")
    BY <2>1, <2>3, TwoYet
  <2> QED
    BY <2>2, <2>4, NoneYet DEF ServersFlags, Both
<1>2. ASSUME ServersFlags, [Next]_vars PROVE ServersFlags'
  <2>1. CASE \E s \in Slots : Serve(s) \/ Fault(s)
    <3>1. CallsIn(net)
      BY <1>2 DEF ServersFlags
    <3>2. ui' = ui /\ Same("servers", net, net')
      BY <2>1, <3>1, ServerFlags
    <3> QED
      BY <1>2, <3>2 DEF ServersFlags, Same
  <2>2. ASSUME NEW s \in Slots, Act \/ Interval \/ Elsewhere \/ Continue(s)
        PROVE  ServersFlags'
    <3>1. ServersUser \/ ServersPoll \/ ServersWorld \/ (Busy(s) /\ ServersResume(s))
      BY <2>2 DEF Act, Interval, Elsewhere, Continue
    <3> QED
      BY <1>2, <3>1, ServersFlagStep
  <2>3. CASE UNCHANGED vars
    BY <1>2, <2>3 DEF ServersFlags, vars
  <2> QED
    BY <1>2, <2>1, <2>2, <2>3, SomeSlot DEF Next
<1>3. ASSUME ServersFlags PROVE SpinnersWaited /\ OneSubmitAtATime
  <2>1. /\ Spinners = {<<ui.loading, {"probes"}>>}
        /\ Submits = {}
    BY DEF Spinners, Submits
  <2>2. ui.loading => InFlight({"probes"}) # {}
    <3>1. \A k, a : Kind("servers", k, a) \in {"probes"} => k \in {"probes"}
      BY DEF Kind, Marks
    <3> QED
      BY <1>3, <3>1, WaitsIsInFlight DEF ServersFlags
  <2> QED
    BY <2>1, <2>2 DEF SpinnersWaited, OneSubmitAtATime
<1> QED
  BY <1>1, <1>2, <1>3

----------------------------------------------------------------------------
(* Model registry.                                                         *)

ModelsFlags ==
    /\ CallsIn(net) /\ DOMAIN ui = {"admin", "rows", "loading", "dlg", "submitting", "del", "online", "packs", "pack"}
    /\ ui.loading => Waits("models", net, {"list"})
    /\ ui.submitting <=> Waits("models", net, {"create", "update"})
    /\ Alone("models", net, {"create", "update"})

LEMMA ModelsFlagStep ==
    ASSUME ModelsFlags, NEW s \in Slots, ModelsUser \/ ModelsPoll \/ ModelsWorld \/ (Busy(s) /\ ModelsResume(s))
    PROVE  ModelsFlags'
<1> DEFINE Sets(v0, v1) == DOMAIN ui' = DOMAIN ui /\ ui'.loading = v0 /\ ui'.submitting = v1
<1>1. CallsIn(net) /\ DOMAIN ui = {"admin", "rows", "loading", "dlg", "submitting", "del", "online", "packs", "pack"}
  BY DEF ModelsFlags
<1>2. \A a : /\ Kind("models", "list", a) = "list"
             /\ Kind("models", "create", a) = "create"
             /\ Kind("models", "update", a) = "update"
             /\ Kind("models", "toggle", a) = "toggle"
             /\ Kind("models", "delete", a) = "delete"
             /\ Kind("models", "jobs", a) = "jobs"
             /\ Kind("models", "pack", a) = "pack"
  BY DEF Kind, Marks
<1>3. CASE ModelsOpenNew \/ TypeForm(Typed) \/ ModelsKeep \/ ModelsOnline \/ \E r \in ModelsTable : ModelsOpenEdit(r) \/ ModelsAskDelete(r) \/ ModelsAskPack(r)
  <2>1. Sets(ui.loading, ui.submitting)
    BY <1>1, <1>3
      DEF ModelsOpenNew, TypeForm, ModelsKeep, ModelsOnline, ModelsOpenEdit, ModelsAskDelete, ModelsAskPack,
        OpenForm, User, AskDelete
  <2>2. net' = net
    BY <1>3
      DEF ModelsOpenNew, TypeForm, ModelsKeep, ModelsOnline, ModelsOpenEdit, ModelsAskDelete, ModelsAskPack,
        OpenForm, User, AskDelete
  <2> QED
    BY <2>1, <2>2 DEF ModelsFlags
<1>4. CASE ModelsWorld
  <2>1. Sets(ui.loading, ui.submitting)
    BY <1>1, <1>4 DEF ModelsWorld, World
  <2>2. net' = net
    BY <1>4 DEF ModelsWorld, World
  <2> QED
    BY <2>1, <2>2 DEF ModelsFlags
<1>5. CASE ModelsSubmit
  <2>1. Sets(ui.loading, TRUE) /\ ~ui.submitting
    BY <1>1, <1>5, <1>2, Submitting, Ready DEF ModelsSubmit, ModelsCanSubmit
  <2>2. \E x \in {"create", "update"} : More("models", net, net', x)
    BY <1>1, <1>2, <1>5, Submitting DEF ModelsSubmit, ModelsCanSubmit
  <2> QED
    BY <2>1, <2>2 DEF ModelsFlags, More
<1>6. CASE ModelsConfirmDelete
  <2>1. Sets(ui.loading, ui.submitting)
    BY <1>1, <1>6 DEF ModelsConfirmDelete, DeleteRow, Ask
  <2>2. More("models", net, net', "delete")
    BY <1>1, <1>2, <1>6, Asking DEF ModelsConfirmDelete, DeleteRow, Ask
  <2> QED
    BY <2>1, <2>2 DEF ModelsFlags, More
<1>7. CASE ModelsConfirmPack
  <2>1. Sets(ui.loading, ui.submitting)
    BY <1>1, <1>7 DEF ModelsConfirmPack, Ask
  <2>2. More("models", net, net', "pack")
    BY <1>1, <1>2, <1>7, Asking DEF ModelsConfirmPack, Ask
  <2> QED
    BY <2>1, <2>2 DEF ModelsFlags, More
<1>8. CASE ModelsReload
  <2>1. Sets(TRUE, ui.submitting)
    BY <1>1, <1>8 DEF ModelsReload, Ask
  <2>2. More("models", net, net', "list")
    BY <1>1, <1>2, <1>8, Asking DEF ModelsReload, Ask
  <2> QED
    BY <2>1, <2>2 DEF ModelsFlags, More
<1>9. CASE \E r \in ModelsTable : ModelsToggle(r)
  <2>1. Sets(ui.loading, ui.submitting)
    BY <1>1, <1>9 DEF ModelsToggle, ToggleRow, Ask
  <2>2. More("models", net, net', "toggle")
    BY <1>1, <1>2, <1>9, Asking DEF ModelsToggle, ToggleRow, Ask
  <2> QED
    BY <2>1, <2>2 DEF ModelsFlags, More
<1>10. CASE ModelsPoll
  <2>1. Sets(ui.loading, ui.submitting)
    BY <1>1, <1>10 DEF ModelsPoll, Tick, Fire
  <2>2. More("models", net, net', "jobs")
    BY <1>1, <1>2, <1>10, Asking DEF ModelsPoll, Tick, Fire
  <2> QED
    BY <2>1, <2>2 DEF ModelsFlags, More
<1>11. CASE Busy(s) /\ net[s].k = "list" /\ ModelsListed(s)
  <2>1. Sets(FALSE, ui.submitting)
    BY <1>1, <1>11 DEF ModelsListed, Listed, Resume
  <2>2. Less("models", net, net', "list")
    BY <1>1, <1>2, <1>11, Ending DEF ModelsListed, Listed, Resume
  <2> QED
    BY <2>1, <2>2 DEF ModelsFlags, Less
<1>12. CASE Busy(s) /\ net[s].k \in {"create", "update"} /\ ModelsSaved(s) /\ Ok(s)
  <2>1. Sets(TRUE, FALSE)
    BY <1>1, <1>12 DEF ModelsSaved, Saved, Refresh, Resume
  <2>2. \E x \in {"create", "update"} : Swap("models", net, net', x, "list")
    BY <1>1, <1>2, <1>12, Chaining DEF ModelsSaved, Saved, Refresh, Resume
  <2> QED
    BY <2>1, <2>2 DEF ModelsFlags, Swap
<1>13. CASE Busy(s) /\ net[s].k \in {"create", "update"} /\ ModelsSaved(s) /\ ~Ok(s)
  <2>1. Sets(ui.loading, FALSE)
    BY <1>1, <1>13 DEF ModelsSaved, Saved, Refresh, Resume
  <2>2. \E x \in {"create", "update"} : Less("models", net, net', x)
    BY <1>1, <1>2, <1>13, Ending DEF ModelsSaved, Saved, Refresh, Resume
  <2> QED
    BY <2>1, <2>2 DEF ModelsFlags, Less
<1>14. CASE Busy(s) /\ net[s].k = "toggle" /\ ModelsToggled(s)
  <2>1. Sets(ui.loading, ui.submitting)
    BY <1>1, <1>14 DEF ModelsToggled, Toggled, Resume
  <2>2. Less("models", net, net', "toggle")
    BY <1>1, <1>2, <1>14, Ending DEF ModelsToggled, Toggled, Resume
  <2> QED
    BY <2>1, <2>2 DEF ModelsFlags, Less
<1>15. CASE Busy(s) /\ net[s].k = "delete" /\ ModelsDeleted(s) /\ Ok(s)
  <2>1. Sets(TRUE, ui.submitting)
    BY <1>1, <1>15 DEF ModelsDeleted, Deleted, Refresh, Resume
  <2>2. Swap("models", net, net', "delete", "list")
    BY <1>1, <1>2, <1>15, Chaining DEF ModelsDeleted, Deleted, Refresh, Resume
  <2> QED
    BY <2>1, <2>2 DEF ModelsFlags, Swap
<1>16. CASE Busy(s) /\ net[s].k = "delete" /\ ModelsDeleted(s) /\ ~Ok(s)
  <2>1. Sets(ui.loading, ui.submitting)
    BY <1>1, <1>16 DEF ModelsDeleted, Deleted, Refresh, Resume
  <2>2. Less("models", net, net', "delete")
    BY <1>1, <1>2, <1>16, Ending DEF ModelsDeleted, Deleted, Refresh, Resume
  <2> QED
    BY <2>1, <2>2 DEF ModelsFlags, Less
<1>17. CASE Busy(s) /\ net[s].k = "jobs" /\ ModelsPolled(s) /\ Ok(s) /\ net[s].a = "poll" /\ \A r \in Rows : net[s].r[r] # "running"
  <2>1. Sets(TRUE, ui.submitting)
    BY <1>1, <1>17 DEF ModelsPolled, Resume, Refresh
  <2>2. Swap("models", net, net', "jobs", "list")
    BY <1>1, <1>2, <1>17, Chaining DEF ModelsPolled, Resume, Refresh
  <2> QED
    BY <2>1, <2>2 DEF ModelsFlags, Swap
<1>18. CASE Busy(s) /\ net[s].k = "jobs" /\ ModelsPolled(s) /\ ~(Ok(s) /\ net[s].a = "poll" /\ \A r \in Rows : net[s].r[r] # "running")
  <2>1. Sets(ui.loading, ui.submitting)
    BY <1>1, <1>18 DEF ModelsPolled, Resume, Refresh
  <2>2. Less("models", net, net', "jobs")
    BY <1>1, <1>2, <1>18, Ending DEF ModelsPolled, Resume, Refresh
  <2> QED
    BY <2>1, <2>2 DEF ModelsFlags, Less
<1>19. CASE Busy(s) /\ net[s].k = "pack" /\ ModelsPacked(s)
  <2>1. Sets(ui.loading, ui.submitting)
    BY <1>1, <1>19 DEF ModelsPacked, Resume
  <2>2. Less("models", net, net', "pack")
    BY <1>1, <1>2, <1>19, Ending DEF ModelsPacked, Resume
  <2> QED
    BY <2>1, <2>2 DEF ModelsFlags, Less
<1> QED
  BY <1>3, <1>4, <1>5, <1>6, <1>7, <1>8, <1>9, <1>10, <1>11, <1>12, <1>13, <1>14, <1>15, <1>16, <1>17, <1>18,
    <1>19
    DEF ModelsUser, ModelsResume

LEMMA ModelsFlagPage ==
    ASSUME screen = "models"
    PROVE  /\ Init => ModelsFlags
           /\ ModelsFlags /\ [Next]_vars => ModelsFlags'
           /\ ModelsFlags => SpinnersWaited /\ OneSubmitAtATime
<1>1. ASSUME Init PROVE ModelsFlags
  <2>1. (\E a \in BOOLEAN : ui = ModelsUi(a)) /\ net = Send(Send(NoCalls, "list", None), "jobs", "mount")
    BY <1>1, Zenon DEF Init
  <2>2. DOMAIN ui = {"admin", "rows", "loading", "dlg", "submitting", "del", "online", "packs", "pack"} /\ ui.loading = TRUE /\ ui.submitting = FALSE
    BY <2>1 DEF ModelsUi
  <2>3. Kind("models", "list", None) = "list" /\ Kind("models", "jobs", "mount") = "jobs"
    BY DEF Kind, Marks
  <2>4. Both("models", NoCalls, net, "list", "jobs")
    BY <2>1, <2>3, TwoYet
  <2> QED
    BY <2>2, <2>4, NoneYet DEF ModelsFlags, Both
<1>2. ASSUME ModelsFlags, [Next]_vars PROVE ModelsFlags'
  <2>1. CASE \E s \in Slots : Serve(s) \/ Fault(s)
    <3>1. CallsIn(net)
      BY <1>2 DEF ModelsFlags
    <3>2. ui' = ui /\ Same("models", net, net')
      BY <2>1, <3>1, ServerFlags
    <3> QED
      BY <1>2, <3>2 DEF ModelsFlags, Same
  <2>2. ASSUME NEW s \in Slots, Act \/ Interval \/ Elsewhere \/ Continue(s)
        PROVE  ModelsFlags'
    <3>1. ModelsUser \/ ModelsPoll \/ ModelsWorld \/ (Busy(s) /\ ModelsResume(s))
      BY <2>2 DEF Act, Interval, Elsewhere, Continue
    <3> QED
      BY <1>2, <3>1, ModelsFlagStep
  <2>3. CASE UNCHANGED vars
    BY <1>2, <2>3 DEF ModelsFlags, vars
  <2> QED
    BY <1>2, <2>1, <2>2, <2>3, SomeSlot DEF Next
<1>3. ASSUME ModelsFlags PROVE SpinnersWaited /\ OneSubmitAtATime
  <2>1. /\ Spinners = {<<ui.loading, {"list"}>>, <<ui.submitting, {"create", "update"}>>}
        /\ Submits = {{"create", "update"}}
    BY DEF Spinners, Submits
  <2>2. ui.loading => InFlight({"list"}) # {}
    <3>1. \A k, a : Kind("models", k, a) \in {"list"} => k \in {"list"}
      BY DEF Kind, Marks
    <3> QED
      BY <1>3, <3>1, WaitsIsInFlight DEF ModelsFlags
  <2>3. ui.submitting => InFlight({"create", "update"}) # {}
    <3>1. \A k, a : Kind("models", k, a) \in {"create", "update"} => k \in {"create", "update"}
      BY DEF Kind, Marks
    <3> QED
      BY <1>3, <3>1, WaitsIsInFlight DEF ModelsFlags
  <2>4. Cardinality(InFlight({"create", "update"})) <= 1
    <3>1. \A k, a : k \in {"create", "update"} => Kind("models", k, a) \in {"create", "update"}
      BY DEF Kind, Marks
    <3> QED
      BY <1>3, <3>1, AloneIsOne DEF ModelsFlags
  <2> QED
    BY <2>1, <2>2, <2>3, <2>4 DEF SpinnersWaited, OneSubmitAtATime
<1> QED
  BY <1>1, <1>2, <1>3

----------------------------------------------------------------------------
(* Evaluation datasets.                                                    *)

EvalsFlags ==
    /\ CallsIn(net) /\ DOMAIN ui = {"admin", "rows", "loading", "dlg", "submitting", "del"}
    /\ ui.loading => Waits("evals", net, {"list"})
    /\ ui.submitting <=> Waits("evals", net, {"create", "update"})
    /\ Alone("evals", net, {"create", "update"})

LEMMA EvalsFlagStep ==
    ASSUME EvalsFlags, NEW s \in Slots, EvalsUser \/ (Busy(s) /\ EvalsResume(s))
    PROVE  EvalsFlags'
<1> DEFINE Sets(v0, v1) == DOMAIN ui' = DOMAIN ui /\ ui'.loading = v0 /\ ui'.submitting = v1
<1>1. CallsIn(net) /\ DOMAIN ui = {"admin", "rows", "loading", "dlg", "submitting", "del"}
  BY DEF EvalsFlags
<1>2. \A a : /\ Kind("evals", "list", a) = "list"
             /\ Kind("evals", "create", a) = "create"
             /\ Kind("evals", "update", a) = "update"
  BY DEF Kind, Marks
<1>3. CASE EvalsOpen \/ TypeForm(Typed) \/ CloseForm
  <2>1. Sets(ui.loading, ui.submitting)
    BY <1>1, <1>3 DEF EvalsOpen, TypeForm, CloseForm, OpenForm, User
  <2>2. net' = net
    BY <1>3 DEF EvalsOpen, TypeForm, CloseForm, OpenForm, User
  <2> QED
    BY <2>1, <2>2 DEF EvalsFlags
<1>4. CASE EvalsCreate
  <2>1. Sets(ui.loading, TRUE) /\ ~ui.submitting
    BY <1>1, <1>4, <1>2, Submitting, Ready DEF EvalsCreate
  <2>2. \E x \in {"create", "update"} : More("evals", net, net', x)
    BY <1>1, <1>2, <1>4, Submitting DEF EvalsCreate
  <2> QED
    BY <2>1, <2>2 DEF EvalsFlags, More
<1>5. CASE Busy(s) /\ net[s].k = "list" /\ EvalsListed(s)
  <2>1. Sets(FALSE, ui.submitting)
    BY <1>1, <1>5 DEF EvalsListed, Listed, Resume
  <2>2. Less("evals", net, net', "list")
    BY <1>1, <1>2, <1>5, Ending DEF EvalsListed, Listed, Resume
  <2> QED
    BY <2>1, <2>2 DEF EvalsFlags, Less
<1>6. CASE Busy(s) /\ net[s].k = "create" /\ EvalsCreated(s) /\ Ok(s)
  <2>1. Sets(TRUE, FALSE)
    BY <1>1, <1>6 DEF EvalsCreated, Saved, Refresh, Resume
  <2>2. Swap("evals", net, net', "create", "list")
    BY <1>1, <1>2, <1>6, Chaining DEF EvalsCreated, Saved, Refresh, Resume
  <2> QED
    BY <2>1, <2>2 DEF EvalsFlags, Swap
<1>7. CASE Busy(s) /\ net[s].k = "create" /\ EvalsCreated(s) /\ ~Ok(s)
  <2>1. Sets(ui.loading, FALSE)
    BY <1>1, <1>7 DEF EvalsCreated, Saved, Refresh, Resume
  <2>2. Less("evals", net, net', "create")
    BY <1>1, <1>2, <1>7, Ending DEF EvalsCreated, Saved, Refresh, Resume
  <2> QED
    BY <2>1, <2>2 DEF EvalsFlags, Less
<1> QED
  BY <1>3, <1>4, <1>5, <1>6, <1>7 DEF EvalsUser, EvalsResume

LEMMA EvalsFlagPage ==
    ASSUME screen = "evals"
    PROVE  /\ Init => EvalsFlags
           /\ EvalsFlags /\ [Next]_vars => EvalsFlags'
           /\ EvalsFlags => SpinnersWaited /\ OneSubmitAtATime
<1>1. ASSUME Init PROVE EvalsFlags
  <2>1. (\E a \in BOOLEAN : ui = EvalsUi(a)) /\ net = Send(NoCalls, "list", None)
    BY <1>1, Zenon DEF Init
  <2>2. DOMAIN ui = {"admin", "rows", "loading", "dlg", "submitting", "del"} /\ ui.loading = TRUE /\ ui.submitting = FALSE
    BY <2>1 DEF EvalsUi
  <2>3. Kind("evals", "list", None) = "list"
    BY DEF Kind, Marks
  <2>4. More("evals", NoCalls, net, "list")
    BY <2>1, <2>3, OneYet
  <2> QED
    BY <2>2, <2>4, NoneYet DEF EvalsFlags, More
<1>2. ASSUME EvalsFlags, [Next]_vars PROVE EvalsFlags'
  <2>1. CASE \E s \in Slots : Serve(s) \/ Fault(s)
    <3>1. CallsIn(net)
      BY <1>2 DEF EvalsFlags
    <3>2. ui' = ui /\ Same("evals", net, net')
      BY <2>1, <3>1, ServerFlags
    <3> QED
      BY <1>2, <3>2 DEF EvalsFlags, Same
  <2>2. ASSUME NEW s \in Slots, Act \/ Interval \/ Elsewhere \/ Continue(s)
        PROVE  EvalsFlags'
    <3>1. EvalsUser \/ (Busy(s) /\ EvalsResume(s))
      BY <2>2 DEF Act, Interval, Elsewhere, Continue
    <3> QED
      BY <1>2, <3>1, EvalsFlagStep
  <2>3. CASE UNCHANGED vars
    BY <1>2, <2>3 DEF EvalsFlags, vars
  <2> QED
    BY <1>2, <2>1, <2>2, <2>3, SomeSlot DEF Next
<1>3. ASSUME EvalsFlags PROVE SpinnersWaited /\ OneSubmitAtATime
  <2>1. /\ Spinners = {<<ui.loading, {"list"}>>, <<ui.submitting, {"create", "update"}>>}
        /\ Submits = {{"create"}}
    BY DEF Spinners, Submits
  <2>2. ui.loading => InFlight({"list"}) # {}
    <3>1. \A k, a : Kind("evals", k, a) \in {"list"} => k \in {"list"}
      BY DEF Kind, Marks
    <3> QED
      BY <1>3, <3>1, WaitsIsInFlight DEF EvalsFlags
  <2>3. ui.submitting => InFlight({"create", "update"}) # {}
    <3>1. \A k, a : Kind("evals", k, a) \in {"create", "update"} => k \in {"create", "update"}
      BY DEF Kind, Marks
    <3> QED
      BY <1>3, <3>1, WaitsIsInFlight DEF EvalsFlags
  <2>4. Cardinality(InFlight({"create"})) <= 1
    <3>1. \A k, a : k \in {"create"} => Kind("evals", k, a) \in {"create", "update"}
      BY DEF Kind, Marks
    <3> QED
      BY <1>3, <3>1, AloneIsOne DEF EvalsFlags
  <2> QED
    BY <2>1, <2>2, <2>3, <2>4 DEF SpinnersWaited, OneSubmitAtATime
<1> QED
  BY <1>1, <1>2, <1>3

----------------------------------------------------------------------------
(* An evaluation dataset.                                                  *)

EvalFlags ==
    /\ CallsIn(net) /\ DOMAIN ui = {"admin", "ready", "items", "runs", "open", "del", "running", "sel", "results"}
    /\ ui.running <=> Waits("eval", net, {"run"})
    /\ Alone("eval", net, {"run"})

LEMMA EvalFlagStep ==
    ASSUME EvalFlags, NEW s \in Slots, EvalUser \/ EvalPoll \/ EvalWorld \/ (Busy(s) /\ EvalResume(s))
    PROVE  EvalFlags'
<1> DEFINE Sets(v0) == DOMAIN ui' = DOMAIN ui /\ ui'.running = v0
<1>1. CallsIn(net) /\ DOMAIN ui = {"admin", "ready", "items", "runs", "open", "del", "running", "sel", "results"}
  BY DEF EvalFlags
<1>2. \A a : /\ Kind("eval", "load", a) = "load"
             /\ Kind("eval", "poll", a) = "poll"
             /\ Kind("eval", "add", a) = "add"
             /\ Kind("eval", "remove", a) = "remove"
             /\ Kind("eval", "run", a) = "run"
             /\ Kind("eval", "results", a) = "results"
  BY DEF Kind, Marks
<1>3. CASE EvalDialogs \/ \E r \in Present(ui.runs) : EvalOpenResults(r) /\ ui.sel = r
  <2>1. Sets(ui.running)
    BY <1>1, <1>3 DEF EvalDialogs, EvalOpenResults, User, Ask
  <2>2. net' = net
    BY <1>3 DEF EvalDialogs, EvalOpenResults, User, Ask
  <2> QED
    BY <2>1, <2>2 DEF EvalFlags
<1>4. CASE EvalWorld
  <2>1. Sets(ui.running)
    BY <1>1, <1>4 DEF EvalWorld, World
  <2>2. net' = net
    BY <1>4 DEF EvalWorld, World
  <2> QED
    BY <2>1, <2>2 DEF EvalFlags
<1>5. CASE EvalAdd
  <2>1. Sets(ui.running)
    BY <1>1, <1>5 DEF EvalAdd, Ask
  <2>2. More("eval", net, net', "add")
    BY <1>1, <1>2, <1>5, Asking DEF EvalAdd, Ask
  <2> QED
    BY <2>1, <2>2 DEF EvalFlags, More
<1>6. CASE EvalRemove
  <2>1. Sets(ui.running)
    BY <1>1, <1>6 DEF EvalRemove, Ask
  <2>2. More("eval", net, net', "remove")
    BY <1>1, <1>2, <1>6, Asking DEF EvalRemove, Ask
  <2> QED
    BY <2>1, <2>2 DEF EvalFlags, More
<1>7. CASE EvalRun
  <2>1. Sets(TRUE) /\ ~ui.running
    BY <1>1, <1>7 DEF EvalRun, Ask
  <2>2. More("eval", net, net', "run")
    BY <1>1, <1>2, <1>7, Asking DEF EvalRun, Ask
  <2> QED
    BY <2>1, <2>2 DEF EvalFlags, More
<1>8. CASE \E r \in Present(ui.runs) : EvalOpenResults(r) /\ ui.sel # r
  <2>1. Sets(ui.running)
    BY <1>1, <1>8 DEF EvalOpenResults, User, Ask
  <2>2. More("eval", net, net', "results")
    BY <1>1, <1>2, <1>8, Asking DEF EvalOpenResults, User, Ask
  <2> QED
    BY <2>1, <2>2 DEF EvalFlags, More
<1>9. CASE EvalPoll
  <2>1. Sets(ui.running)
    BY <1>1, <1>9 DEF EvalPoll, Tick, Fire
  <2>2. More("eval", net, net', "poll")
    BY <1>1, <1>2, <1>9, Asking DEF EvalPoll, Tick, Fire
  <2> QED
    BY <2>1, <2>2 DEF EvalFlags, More
<1>10. CASE Busy(s) /\ net[s].k = "load" /\ EvalLoaded(s)
  <2>1. Sets(ui.running)
    BY <1>1, <1>10 DEF EvalLoaded, Resume
  <2>2. Less("eval", net, net', "load")
    BY <1>1, <1>2, <1>10, Ending DEF EvalLoaded, Resume
  <2> QED
    BY <2>1, <2>2 DEF EvalFlags, Less
<1>11. CASE Busy(s) /\ net[s].k = "poll" /\ EvalPolled(s)
  <2>1. Sets(ui.running)
    BY <1>1, <1>11 DEF EvalPolled, Resume
  <2>2. Less("eval", net, net', "poll")
    BY <1>1, <1>2, <1>11, Ending DEF EvalPolled, Resume
  <2> QED
    BY <2>1, <2>2 DEF EvalFlags, Less
<1>12. CASE Busy(s) /\ net[s].k \in {"add", "remove"} /\ EvalItemsChanged(s) /\ Ok(s)
  <2>1. Sets(ui.running)
    BY <1>1, <1>12 DEF EvalItemsChanged, Resume
  <2>2. \E x \in {"add", "remove"} : Swap("eval", net, net', x, "load")
    BY <1>1, <1>2, <1>12, Chaining DEF EvalItemsChanged, Resume
  <2> QED
    BY <2>1, <2>2 DEF EvalFlags, Swap
<1>13. CASE Busy(s) /\ net[s].k \in {"add", "remove"} /\ EvalItemsChanged(s) /\ ~Ok(s)
  <2>1. Sets(ui.running)
    BY <1>1, <1>13 DEF EvalItemsChanged, Resume
  <2>2. \E x \in {"add", "remove"} : Less("eval", net, net', x)
    BY <1>1, <1>2, <1>13, Ending DEF EvalItemsChanged, Resume
  <2> QED
    BY <2>1, <2>2 DEF EvalFlags, Less
<1>14. CASE Busy(s) /\ net[s].k = "run" /\ EvalStarted(s) /\ Ok(s)
  <2>1. Sets(FALSE)
    BY <1>1, <1>14 DEF EvalStarted, Resume
  <2>2. Swap("eval", net, net', "run", "load")
    BY <1>1, <1>2, <1>14, Chaining DEF EvalStarted, Resume
  <2> QED
    BY <2>1, <2>2 DEF EvalFlags, Swap
<1>15. CASE Busy(s) /\ net[s].k = "run" /\ EvalStarted(s) /\ ~Ok(s)
  <2>1. Sets(FALSE)
    BY <1>1, <1>15 DEF EvalStarted, Resume
  <2>2. Less("eval", net, net', "run")
    BY <1>1, <1>2, <1>15, Ending DEF EvalStarted, Resume
  <2> QED
    BY <2>1, <2>2 DEF EvalFlags, Less
<1>16. CASE Busy(s) /\ net[s].k = "results" /\ EvalResults(s)
  <2>1. Sets(ui.running)
    BY <1>1, <1>16 DEF EvalResults, Resume
  <2>2. Less("eval", net, net', "results")
    BY <1>1, <1>2, <1>16, Ending DEF EvalResults, Resume
  <2> QED
    BY <2>1, <2>2 DEF EvalFlags, Less
<1> QED
  BY <1>3, <1>4, <1>5, <1>6, <1>7, <1>8, <1>9, <1>10, <1>11, <1>12, <1>13, <1>14, <1>15, <1>16
    DEF EvalUser, EvalResume

LEMMA EvalFlagPage ==
    ASSUME screen = "eval"
    PROVE  /\ Init => EvalFlags
           /\ EvalFlags /\ [Next]_vars => EvalFlags'
           /\ EvalFlags => SpinnersWaited /\ OneSubmitAtATime
<1>1. ASSUME Init PROVE EvalFlags
  <2>1. (\E a \in BOOLEAN : ui = EvalUi(a)) /\ net = Send(NoCalls, "load", None)
    BY <1>1, Zenon DEF Init
  <2>2. DOMAIN ui = {"admin", "ready", "items", "runs", "open", "del", "running", "sel", "results"} /\ ui.running = FALSE
    BY <2>1 DEF EvalUi
  <2>3. Kind("eval", "load", None) = "load"
    BY DEF Kind, Marks
  <2>4. More("eval", NoCalls, net, "load")
    BY <2>1, <2>3, OneYet
  <2> QED
    BY <2>2, <2>4, NoneYet DEF EvalFlags, More
<1>2. ASSUME EvalFlags, [Next]_vars PROVE EvalFlags'
  <2>1. CASE \E s \in Slots : Serve(s) \/ Fault(s)
    <3>1. CallsIn(net)
      BY <1>2 DEF EvalFlags
    <3>2. ui' = ui /\ Same("eval", net, net')
      BY <2>1, <3>1, ServerFlags
    <3> QED
      BY <1>2, <3>2 DEF EvalFlags, Same
  <2>2. ASSUME NEW s \in Slots, Act \/ Interval \/ Elsewhere \/ Continue(s)
        PROVE  EvalFlags'
    <3>1. EvalUser \/ EvalPoll \/ EvalWorld \/ (Busy(s) /\ EvalResume(s))
      BY <2>2 DEF Act, Interval, Elsewhere, Continue
    <3> QED
      BY <1>2, <3>1, EvalFlagStep
  <2>3. CASE UNCHANGED vars
    BY <1>2, <2>3 DEF EvalFlags, vars
  <2> QED
    BY <1>2, <2>1, <2>2, <2>3, SomeSlot DEF Next
<1>3. ASSUME EvalFlags PROVE SpinnersWaited /\ OneSubmitAtATime
  <2>1. /\ Spinners = {<<ui.running, {"run"}>>}
        /\ Submits = {{"run"}}
    BY DEF Spinners, Submits
  <2>2. ui.running => InFlight({"run"}) # {}
    <3>1. \A k, a : Kind("eval", k, a) \in {"run"} => k \in {"run"}
      BY DEF Kind, Marks
    <3> QED
      BY <1>3, <3>1, WaitsIsInFlight DEF EvalFlags
  <2>3. Cardinality(InFlight({"run"})) <= 1
    <3>1. \A k, a : k \in {"run"} => Kind("eval", k, a) \in {"run"}
      BY DEF Kind, Marks
    <3> QED
      BY <1>3, <3>1, AloneIsOne DEF EvalFlags
  <2> QED
    BY <2>1, <2>2, <2>3 DEF SpinnersWaited, OneSubmitAtATime
<1> QED
  BY <1>1, <1>2, <1>3

----------------------------------------------------------------------------
(* Sweeps; a new sweep waits for the list that is loaded after it too.     *)

SweepFlags ==
    /\ CallsIn(net) /\ DOMAIN ui = {"rows", "chips", "creating", "expanded", "board"}
    /\ ui.creating <=> Waits("sweeps", net, {"create", "awaited"})
    /\ Alone("sweeps", net, {"create", "awaited"})

LEMMA SweepFlagStep ==
    ASSUME SweepFlags, NEW s \in Slots, SweepUser \/ SweepPoll \/ SweepWorld \/ (Busy(s) /\ SweepResume(s))
    PROVE  SweepFlags'
<1> DEFINE Sets(v0) == DOMAIN ui' = DOMAIN ui /\ ui'.creating = v0
<1>1. CallsIn(net) /\ DOMAIN ui = {"rows", "chips", "creating", "expanded", "board"}
  BY DEF SweepFlags
<1>2. \A a : /\ Kind("sweeps", "create", a) = "create"
             /\ Kind("sweeps", "board", a) = "board"
             /\ Kind("sweeps", "cancel", a) = "cancel"
             /\ Kind("sweeps", "apply", a) = "apply"
  BY DEF Kind, Marks
<1>3. \A a : /\ a.mine => Kind("sweeps", "list", a) = "awaited"
             /\ ~a.mine => Kind("sweeps", "list", a) = "list"
  BY DEF Kind, Marks
<1>4. CASE (\E x \in Modes \cup Reranks : SweepChip(x)) \/ \E r \in Present(ui.rows) : SweepExpand(r) /\ ui.expanded = r
  <2>1. Sets(ui.creating)
    BY <1>1, <1>4 DEF SweepChip, SweepExpand, User, Ask
  <2>2. net' = net
    BY <1>4 DEF SweepChip, SweepExpand, User, Ask
  <2> QED
    BY <2>1, <2>2 DEF SweepFlags
<1>5. CASE SweepWorld
  <2>1. Sets(ui.creating)
    BY <1>1, <1>5 DEF SweepWorld, World
  <2>2. net' = net
    BY <1>5 DEF SweepWorld, World
  <2> QED
    BY <2>1, <2>2 DEF SweepFlags
<1>6. CASE SweepCreate
  <2>1. Sets(TRUE) /\ ~ui.creating
    BY <1>1, <1>6 DEF SweepCreate, Ask
  <2>2. More("sweeps", net, net', "create")
    BY <1>1, <1>2, <1>6, Asking DEF SweepCreate, Ask
  <2> QED
    BY <2>1, <2>2 DEF SweepFlags, More
<1>7. CASE \E r \in Present(ui.rows) : SweepExpand(r) /\ ui.expanded # r
  <2>1. Sets(ui.creating)
    BY <1>1, <1>7 DEF SweepExpand, User, Ask
  <2>2. More("sweeps", net, net', "board")
    BY <1>1, <1>2, <1>7, Asking DEF SweepExpand, User, Ask
  <2> QED
    BY <2>1, <2>2 DEF SweepFlags, More
<1>8. CASE \E r \in Present(ui.rows) : SweepCancel(r)
  <2>1. Sets(ui.creating)
    BY <1>1, <1>8 DEF SweepCancel, Ask
  <2>2. More("sweeps", net, net', "cancel")
    BY <1>1, <1>2, <1>8, Asking DEF SweepCancel, Ask
  <2> QED
    BY <2>1, <2>2 DEF SweepFlags, More
<1>9. CASE \E r \in Present(ui.rows) : SweepApply(r)
  <2>1. Sets(ui.creating)
    BY <1>1, <1>9 DEF SweepApply, Ask
  <2>2. More("sweeps", net, net', "apply")
    BY <1>1, <1>2, <1>9, Asking DEF SweepApply, Ask
  <2> QED
    BY <2>1, <2>2 DEF SweepFlags, More
<1>10. CASE SweepPoll /\ ui.expanded = None
  <2>1. Sets(ui.creating)
    BY <1>1, <1>10 DEF SweepPoll, Tick, Fire
  <2>2. net' = Send(net, "list", SweepFetch(FALSE, None)) /\ Room(1)
    BY <1>10 DEF SweepPoll, Tick, Fire
  <2>3. Kind("sweeps", "list", SweepFetch(FALSE, None)) = "list"
    BY <1>10 DEF Kind, Marks, SweepFetch
  <2>4. More("sweeps", net, net', "list")
    BY <1>1, <2>2, <2>3, Asking
  <2> QED
    BY <2>1, <2>4 DEF SweepFlags, More
<1>11. CASE SweepPoll /\ ui.expanded # None
  <2>1. Sets(ui.creating)
    BY <1>1, <1>11 DEF SweepPoll, Tick, Fire
  <2>2. net' = Send(Send(net, "list", SweepFetch(FALSE, None)), "board", [id |-> ui.expanded]) /\ Room(2)
    BY <1>11 DEF SweepPoll, Tick, Fire
  <2>3. Kind("sweeps", "list", SweepFetch(FALSE, None)) = "list" /\ Kind("sweeps", "board", [id |-> ui.expanded]) = "board"
    BY <1>11 DEF Kind, Marks, SweepFetch
  <2>4. Both("sweeps", net, net', "list", "board")
    BY <1>1, <2>2, <2>3, AskingTwo
  <2> QED
    BY <2>1, <2>4 DEF SweepFlags, Both
<1>12. CASE Busy(s) /\ net[s].k = "create" /\ SweepCreated(s) /\ Ok(s)
  <2>1. Sets(ui.creating)
    BY <1>1, <1>12 DEF SweepCreated, Resume
  <2>2. net' = Send(Rest(s), "list", SweepFetch(TRUE, net[s].r))
    BY <1>12 DEF SweepCreated, Resume
  <2>3. Kind("sweeps", "list", SweepFetch(TRUE, net[s].r)) = "awaited"
    BY <1>12 DEF Kind, Marks, SweepFetch
  <2>4. Busy(s) /\ Kind("sweeps", net[s].k, net[s].a) = "create"
    BY <1>2, <1>12
  <2>5. Swap("sweeps", net, net', "create", "awaited")
    BY <1>1, <2>2, <2>3, <2>4, Chaining
  <2> QED
    BY <2>1, <2>5 DEF SweepFlags, Swap
<1>13. CASE Busy(s) /\ net[s].k = "create" /\ SweepCreated(s) /\ ~Ok(s)
  <2>1. Sets(FALSE)
    BY <1>1, <1>13 DEF SweepCreated, Resume
  <2>2. Less("sweeps", net, net', "create")
    BY <1>1, <1>2, <1>13, Ending DEF SweepCreated, Resume
  <2> QED
    BY <2>1, <2>2 DEF SweepFlags, Less
<1>14. CASE Busy(s) /\ net[s].k = "list" /\ SweepListed(s) /\ net[s].a.mine
  <2>1. Sets(FALSE)
    BY <1>1, <1>14 DEF SweepListed, Resume
  <2>2. Swap("sweeps", net, net', "awaited", "board")
    BY <1>1, <1>2, <1>3, <1>14, Chaining DEF SweepListed, Resume
  <2> QED
    BY <2>1, <2>2 DEF SweepFlags, Swap
<1>15. CASE Busy(s) /\ net[s].k = "list" /\ SweepListed(s) /\ ~net[s].a.mine
  <2>1. Sets(ui.creating)
    BY <1>1, <1>15 DEF SweepListed, Resume
  <2>2. Less("sweeps", net, net', "list")
    BY <1>1, <1>3, <1>15, Ending DEF SweepListed, Resume
  <2> QED
    BY <2>1, <2>2 DEF SweepFlags, Less
<1>16. CASE Busy(s) /\ net[s].k = "board" /\ SweepBoarded(s)
  <2>1. Sets(ui.creating)
    BY <1>1, <1>16 DEF SweepBoarded, Resume
  <2>2. Less("sweeps", net, net', "board")
    BY <1>1, <1>2, <1>16, Ending DEF SweepBoarded, Resume
  <2> QED
    BY <2>1, <2>2 DEF SweepFlags, Less
<1>17. CASE Busy(s) /\ net[s].k = "cancel" /\ SweepCanceled(s) /\ Ok(s)
  <2>1. Sets(ui.creating)
    BY <1>1, <1>17 DEF SweepCanceled, Resume
  <2>2. net' = Send(Rest(s), "list", SweepFetch(FALSE, None))
    BY <1>17 DEF SweepCanceled, Resume
  <2>3. Kind("sweeps", "list", SweepFetch(FALSE, None)) = "list"
    BY <1>17 DEF Kind, Marks, SweepFetch
  <2>4. Busy(s) /\ Kind("sweeps", net[s].k, net[s].a) = "cancel"
    BY <1>2, <1>17
  <2>5. Swap("sweeps", net, net', "cancel", "list")
    BY <1>1, <2>2, <2>3, <2>4, Chaining
  <2> QED
    BY <2>1, <2>5 DEF SweepFlags, Swap
<1>18. CASE Busy(s) /\ net[s].k = "cancel" /\ SweepCanceled(s) /\ ~Ok(s)
  <2>1. Sets(ui.creating)
    BY <1>1, <1>18 DEF SweepCanceled, Resume
  <2>2. Less("sweeps", net, net', "cancel")
    BY <1>1, <1>2, <1>18, Ending DEF SweepCanceled, Resume
  <2> QED
    BY <2>1, <2>2 DEF SweepFlags, Less
<1>19. CASE Busy(s) /\ net[s].k = "apply" /\ Resume(s, ui, Rest(s))
  <2>1. Sets(ui.creating)
    BY <1>1, <1>19 DEF Resume
  <2>2. Less("sweeps", net, net', "apply")
    BY <1>1, <1>2, <1>19, Ending DEF Resume
  <2> QED
    BY <2>1, <2>2 DEF SweepFlags, Less
<1> QED
  BY <1>4, <1>5, <1>6, <1>7, <1>8, <1>9, <1>10, <1>11, <1>12, <1>13, <1>14, <1>15, <1>16, <1>17, <1>18, <1>19
    DEF SweepUser, SweepResume

LEMMA SweepFlagPage ==
    ASSUME screen = "sweeps"
    PROVE  /\ Init => SweepFlags
           /\ SweepFlags /\ [Next]_vars => SweepFlags'
           /\ SweepFlags => SpinnersWaited /\ OneSubmitAtATime
<1>1. ASSUME Init PROVE SweepFlags
  <2>1. ui = SweepUi /\ net = Send(NoCalls, "list", SweepFetch(FALSE, None))
    BY <1>1, Zenon DEF Init
  <2>2. DOMAIN ui = {"rows", "chips", "creating", "expanded", "board"} /\ ui.creating = FALSE
    BY <2>1 DEF SweepUi
  <2>3. Kind("sweeps", "list", SweepFetch(FALSE, None)) = "list"
    BY DEF Kind, Marks, SweepFetch
  <2>4. More("sweeps", NoCalls, net, "list")
    BY <2>1, <2>3, OneYet
  <2> QED
    BY <2>2, <2>4, NoneYet DEF SweepFlags, More
<1>2. ASSUME SweepFlags, [Next]_vars PROVE SweepFlags'
  <2>1. CASE \E s \in Slots : Serve(s) \/ Fault(s)
    <3>1. CallsIn(net)
      BY <1>2 DEF SweepFlags
    <3>2. ui' = ui /\ Same("sweeps", net, net')
      BY <2>1, <3>1, ServerFlags
    <3> QED
      BY <1>2, <3>2 DEF SweepFlags, Same
  <2>2. ASSUME NEW s \in Slots, Act \/ Interval \/ Elsewhere \/ Continue(s)
        PROVE  SweepFlags'
    <3>1. SweepUser \/ SweepPoll \/ SweepWorld \/ (Busy(s) /\ SweepResume(s))
      BY <2>2 DEF Act, Interval, Elsewhere, Continue
    <3> QED
      BY <1>2, <3>1, SweepFlagStep
  <2>3. CASE UNCHANGED vars
    BY <1>2, <2>3 DEF SweepFlags, vars
  <2> QED
    BY <1>2, <2>1, <2>2, <2>3, SomeSlot DEF Next
<1>3. ASSUME SweepFlags PROVE SpinnersWaited /\ OneSubmitAtATime
  <2>1. /\ Spinners = {<<ui.creating, {"create", "list"}>>}
        /\ Submits = {{"create"}}
    BY DEF Spinners, Submits
  <2>2. ui.creating => InFlight({"create", "list"}) # {}
    <3>1. \A k, a : Kind("sweeps", k, a) \in {"create", "awaited"} => k \in {"create", "list"}
      BY DEF Kind, Marks
    <3> QED
      BY <1>3, <3>1, WaitsIsInFlight DEF SweepFlags
  <2>3. Cardinality(InFlight({"create"})) <= 1
    <3>1. \A k, a : k \in {"create"} => Kind("sweeps", k, a) \in {"create", "awaited"}
      BY DEF Kind, Marks
    <3> QED
      BY <1>3, <3>1, AloneIsOne DEF SweepFlags
  <2> QED
    BY <2>1, <2>2, <2>3 DEF SpinnersWaited, OneSubmitAtATime
<1> QED
  BY <1>1, <1>2, <1>3

----------------------------------------------------------------------------
(* Settings; a request that tests a server has the kind of the test.       *)

Tests(T, m) == \A t \in T : t \in Checks /\ Waits("settings", m, {t})

SettingsFlags ==
    /\ CallsIn(net) /\ DOMAIN ui = {"ready", "loading", "base", "host", "form", "prev", "own", "moved", "saving", "testing"}
    /\ ui.loading => Waits("settings", net, {"list"})
    /\ ui.saving <=> Waits("settings", net, {"save"})
    /\ Alone("settings", net, {"save"})
    /\ Tests(ui.testing, net)

LEMMA SettingsFlagStep ==
    ASSUME SettingsFlags, NEW s \in Slots, SettingsUser \/ (Busy(s) /\ SettingsResume(s))
    PROVE  SettingsFlags'
<1> DEFINE Sets(v0, v1, v2) == DOMAIN ui' = DOMAIN ui /\ ui'.loading = v0 /\ ui'.saving = v1 /\ ui'.testing = v2
<1>1. CallsIn(net) /\ DOMAIN ui = {"ready", "loading", "base", "host", "form", "prev", "own", "moved", "saving", "testing"}
  BY DEF SettingsFlags
<1>2. \A a : /\ Kind("settings", "list", a) = "list"
             /\ Kind("settings", "save", a) = "save"
  BY DEF Kind, Marks
<1>3. \A a : /\ Kind("settings", "check", "embedding") = "embedding"
             /\ a \in Checks => Kind("settings", "check", a) = a /\ Kind("settings", "probe", a) = a
  BY DEF Kind, Marks, Checks
<1>4. CASE (\E b \in {"local", "databricks"} : SettingsBase(b)) \/ (\E h \in Hosts : SettingsHost(h)) \/ SettingsApply
  <2> DEFINE Like(u) == DOMAIN u = DOMAIN ui /\ u.loading = ui.loading /\ u.saving = ui.saving /\ u.testing = ui.testing
  <2>1. ASSUME NEW u, Like(u), NEW p, NEW f PROVE Like([u EXCEPT !.prev = p, !.form = f])
    BY <1>1, <2>1
  <2>2. ASSUME NEW u, Like(u) PROVE Like(RevertAll(u))
    BY <2>1, <2>2 DEF RevertAll
  <2> HIDE DEF Like
  <2>3. ASSUME NEW u, Like(u), NEW F PROVE Like(ApplyDatabricks(u, F))
    BY <2>1, <2>3, Zenon DEF ApplyDatabricks
  <2>4. ASSUME NEW v PROVE Like([ui EXCEPT !.base = v]) /\ Like([ui EXCEPT !.host = v]) /\ Like(ui)
    BY <1>1 DEF Like
  <2>5. Like(ui') /\ net' = net
    BY <1>4, <2>2, <2>3, <2>4, Zenon DEF SettingsBase, SettingsHost, SettingsApply, User
  <2> QED
    BY <2>5 DEF SettingsFlags, Like
<1>5. CASE \E f \in Fields : SettingsRevert(f) \/ SettingsType(f)
  <2>1. Sets(ui.loading, ui.saving, ui.testing)
    BY <1>1, <1>5 DEF SettingsRevert, SettingsType, User, RevertField
  <2>2. net' = net
    BY <1>5 DEF SettingsRevert, SettingsType, User, RevertField
  <2>3. Tests(ui'.testing, net')
    BY <2>1, <2>2 DEF SettingsFlags, Tests, Checks
  <2> QED
    BY <2>1, <2>2, <2>3 DEF SettingsFlags
<1>6. CASE SettingsSave
  <2>1. Sets(ui.loading, TRUE, ui.testing) /\ ~ui.saving
    BY <1>1, <1>6 DEF SettingsSave, Ask
  <2>2. More("settings", net, net', "save")
    BY <1>1, <1>2, <1>6, Asking DEF SettingsSave, Ask
  <2>3. Tests(ui'.testing, net')
    BY <2>1, <2>2 DEF SettingsFlags, More, Tests, Checks
  <2> QED
    BY <2>1, <2>2, <2>3 DEF SettingsFlags, More
<1>7. CASE \E t \in Checks : SettingsTest(t)
  <2>1. PICK t \in Checks : SettingsTest(t)
    BY <1>7
  <2>2. Sets(ui.loading, ui.saving, ui.testing \cup {t})
    BY <1>1, <2>1 DEF SettingsTest, Ask
  <2>3. Room(1) /\ net' = Send(net, "check", t)
    BY <2>1 DEF SettingsTest, Ask
  <2>4. Kind("settings", "check", t) = t
    BY <1>3
  <2>5. More("settings", net, net', t)
    BY <1>1, <2>3, <2>4, Asking
  <2>6. t \notin {"list", "save"}
    BY <2>1 DEF Checks
  <2>7. Tests(ui'.testing, net')
    BY <2>1, <2>2, <2>5 DEF SettingsFlags, Tests, More
  <2>8. Alone("settings", net', {"save"}) /\ CallsIn(net')
    BY <2>5, <2>6 DEF SettingsFlags, More
  <2>9. Waits("settings", net', {"save"}) <=> Waits("settings", net, {"save"})
    BY <2>5, <2>6 DEF More
  <2>10. Waits("settings", net', {"list"}) <=> Waits("settings", net, {"list"})
    BY <2>5, <2>6 DEF More
  <2> QED
    BY <2>2, <2>7, <2>8, <2>9, <2>10 DEF SettingsFlags
<1>8. CASE Busy(s) /\ net[s].k = "list" /\ SettingsLoaded(s)
  <2>1. Sets(FALSE, ui.saving, ui.testing)
    BY <1>1, <1>8 DEF SettingsLoaded, Resume
  <2>2. Less("settings", net, net', "list")
    BY <1>1, <1>2, <1>8, Ending DEF SettingsLoaded, Resume
  <2>3. Tests(ui'.testing, net')
    BY <2>1, <2>2 DEF SettingsFlags, Less, Tests, Checks
  <2> QED
    BY <2>1, <2>2, <2>3 DEF SettingsFlags, Less
<1>9. CASE Busy(s) /\ net[s].k = "save" /\ SettingsSaved(s) /\ Ok(s)
  <2>1. Sets(TRUE, FALSE, ui.testing)
    BY <1>1, <1>9 DEF SettingsSaved, Refresh, Resume
  <2>2. Swap("settings", net, net', "save", "list")
    BY <1>1, <1>2, <1>9, Chaining DEF SettingsSaved, Refresh, Resume
  <2>3. Tests(ui'.testing, net')
    BY <2>1, <2>2 DEF SettingsFlags, Swap, Tests, Checks
  <2> QED
    BY <2>1, <2>2, <2>3 DEF SettingsFlags, Swap
<1>10. CASE Busy(s) /\ net[s].k = "save" /\ SettingsSaved(s) /\ ~Ok(s)
  <2>1. Sets(ui.loading, FALSE, ui.testing)
    BY <1>1, <1>10 DEF SettingsSaved, Refresh, Resume
  <2>2. Less("settings", net, net', "save")
    BY <1>1, <1>2, <1>10, Ending DEF SettingsSaved, Refresh, Resume
  <2>3. Tests(ui'.testing, net')
    BY <2>1, <2>2 DEF SettingsFlags, Less, Tests, Checks
  <2> QED
    BY <2>1, <2>2, <2>3 DEF SettingsFlags, Less
<1>11. CASE Busy(s) /\ net[s].k = "check" /\ SettingsTested(s) /\ net[s].a = "embedding" /\ Ok(s)
  <2>1. Sets(ui.loading, ui.saving, ui.testing)
    BY <1>1, <1>11 DEF SettingsTested, Resume
  <2>2. net' = Send(Rest(s), "probe", net[s].a)
    BY <1>11 DEF SettingsTested, Resume
  <2>3. Kind("settings", "probe", net[s].a) = "embedding"
    BY <1>11 DEF Kind, Marks, Checks
  <2>4. Busy(s) /\ Kind("settings", net[s].k, net[s].a) = "embedding"
    BY <1>3, <1>11
  <2>5. Swap("settings", net, net', "embedding", "embedding")
    BY <1>1, <2>2, <2>3, <2>4, Chaining
  <2>6. Tests(ui'.testing, net')
    BY <2>1, <2>5 DEF SettingsFlags, Swap, Tests, Checks
  <2> QED
    BY <2>1, <2>5, <2>6 DEF SettingsFlags, Swap
<1>12. CASE Busy(s) /\ net[s].k \in {"check", "probe"} /\ SettingsTested(s) /\ ~(net[s].k = "check" /\ net[s].a = "embedding" /\ Ok(s))
  <2> DEFINE t == net[s].a
             x == Kind("settings", net[s].k, net[s].a)
  <2>1. Sets(ui.loading, ui.saving, ui.testing \ {t})
    BY <1>1, <1>12 DEF SettingsTested, Resume
  <2>2. x = t \/ t \notin Checks
    BY <1>3, <1>12
  <2>3. x \notin {"list", "save"}
    BY <1>12 DEF Kind, Marks, Checks
  <2>4. net' = Rest(s)
    BY <1>12 DEF SettingsTested, Resume
  <2>5. Less("settings", net, net', x)
    BY <1>1, <1>12, <2>4, Ending
  <2> HIDE DEF t, x
  <2>6. Tests(ui'.testing, net')
    <3> SUFFICES ASSUME NEW u \in ui'.testing PROVE u \in Checks /\ Waits("settings", net', {u})
      BY DEF Tests
    <3>1. u \in Checks /\ Waits("settings", net, {u}) /\ u # t
      BY <2>1 DEF SettingsFlags, Tests
    <3>2. CASE x = t
      BY <2>5, <3>1, <3>2 DEF Less
    <3>3. CASE t \notin Checks
      <4>1. x \notin Checks
        BY <1>12, <3>3 DEF x, t, Kind, Marks, Checks
      <4> QED
        BY <2>5, <3>1, <4>1 DEF Less
    <3> QED
      BY <2>2, <3>2, <3>3
  <2>7. Alone("settings", net', {"save"}) /\ CallsIn(net')
    BY <2>5 DEF SettingsFlags, Less
  <2>8. Waits("settings", net', {"save"}) <=> Waits("settings", net, {"save"})
    BY <2>3, <2>5 DEF Less
  <2>9. Waits("settings", net', {"list"}) <=> Waits("settings", net, {"list"})
    BY <2>3, <2>5 DEF Less
  <2> QED
    BY <2>1, <2>6, <2>7, <2>8, <2>9 DEF SettingsFlags
<1> QED
  BY <1>4, <1>5, <1>6, <1>7, <1>8, <1>9, <1>10, <1>11, <1>12 DEF SettingsUser, SettingsResume

LEMMA SettingsFlagPage ==
    ASSUME screen = "settings"
    PROVE  /\ Init => SettingsFlags
           /\ SettingsFlags /\ [Next]_vars => SettingsFlags'
           /\ SettingsFlags => SpinnersWaited /\ OneSubmitAtATime
<1>1. ASSUME Init PROVE SettingsFlags
  <2> DEFINE none == ""
  <2>1. ui = [ready |-> FALSE, loading |-> TRUE, base |-> "local", host |-> none, form |-> SettingsForm, prev |-> NoPrev, own |-> SettingsForm, moved |-> FALSE, saving |-> FALSE, testing |-> {}]
        /\ net = Send(NoCalls, "list", None)
    BY <1>1, Zenon DEF Init, SettingsUi
  <2> HIDE DEF none
  <2>2. DOMAIN ui = {"ready", "loading", "base", "host", "form", "prev", "own", "moved", "saving", "testing"} /\ ui.loading = TRUE /\ ui.saving = FALSE /\ ui.testing = {}
    BY <2>1
  <2>3. Kind("settings", "list", None) = "list"
    BY DEF Kind, Marks
  <2>4. More("settings", NoCalls, net, "list")
    BY <2>1, <2>3, OneYet
  <2> QED
    BY <2>2, <2>4, NoneYet DEF SettingsFlags, More, Tests
<1>2. ASSUME SettingsFlags, [Next]_vars PROVE SettingsFlags'
  <2>1. CASE \E s \in Slots : Serve(s) \/ Fault(s)
    <3>1. CallsIn(net)
      BY <1>2 DEF SettingsFlags
    <3>2. ui' = ui /\ Same("settings", net, net')
      BY <2>1, <3>1, ServerFlags
    <3> QED
      BY <1>2, <3>2 DEF SettingsFlags, Same, Tests
  <2>2. ASSUME NEW s \in Slots, Act \/ Interval \/ Elsewhere \/ Continue(s)
        PROVE  SettingsFlags'
    <3>1. SettingsUser \/ (Busy(s) /\ SettingsResume(s))
      BY <2>2 DEF Act, Interval, Elsewhere, Continue
    <3> QED
      BY <1>2, <3>1, SettingsFlagStep
  <2>3. CASE UNCHANGED vars
    BY <1>2, <2>3 DEF SettingsFlags, vars, Tests
  <2> QED
    BY <1>2, <2>1, <2>2, <2>3, SomeSlot DEF Next
<1>3. ASSUME SettingsFlags PROVE SpinnersWaited /\ OneSubmitAtATime
  <2> DEFINE c3 == ui.testing # {}
  <2>1. /\ Spinners = {<<ui.loading, {"list"}>>,
                        <<ui.saving, {"save"}>>,
                        <<c3, {"check", "probe"}>>}
        /\ Submits = {{"save"}}
    BY DEF Spinners, Submits
  <2>2. ui.loading => InFlight({"list"}) # {}
    <3>1. \A k, a : Kind("settings", k, a) \in {"list"} => k \in {"list"}
      BY DEF Kind, Marks, Checks
    <3> QED
      BY <1>3, <3>1, WaitsIsInFlight DEF SettingsFlags
  <2>3. ui.saving => InFlight({"save"}) # {}
    <3>1. \A k, a : Kind("settings", k, a) \in {"save"} => k \in {"save"}
      BY DEF Kind, Marks, Checks
    <3> QED
      BY <1>3, <3>1, WaitsIsInFlight DEF SettingsFlags
  <2>4. c3 => InFlight({"check", "probe"}) # {}
    <3>1. ASSUME NEW t \in ui.testing PROVE InFlight({"check", "probe"}) # {}
      <4>1. t \in Checks /\ Waits("settings", net, {t})
        BY <1>3, <3>1 DEF SettingsFlags, Tests
      <4>2. \A k, a : Kind("settings", k, a) \in {t} => k \in {"check", "probe"}
        BY <4>1 DEF Kind, Marks, Checks
      <4> QED
        BY <4>1, <4>2, WaitsIsInFlight
    <3> QED
      BY <3>1
  <2>5. Cardinality(InFlight({"save"})) <= 1
    <3>1. \A k, a : k \in {"save"} => Kind("settings", k, a) \in {"save"}
      BY DEF Kind, Marks, Checks
    <3> QED
      BY <1>3, <3>1, AloneIsOne DEF SettingsFlags
  <2> HIDE DEF c3
  <2> QED
    BY <2>1, <2>2, <2>3, <2>4, <2>5 DEF SpinnersWaited, OneSubmitAtATime
<1> QED
  BY <1>1, <1>2, <1>3

----------------------------------------------------------------------------
(* API keys.                                                               *)

KeysFlags ==
    /\ CallsIn(net) /\ DOMAIN ui = {"admin", "rows", "loading", "dlg", "submitting", "del", "secret"}
    /\ (ui.admin /\ ui.loading) => Waits("apikeys", net, {"list"})
    /\ ui.submitting <=> Waits("apikeys", net, {"create"})
    /\ Alone("apikeys", net, {"create"})
    /\ ui.dlg # None => ("id" \in DOMAIN ui.dlg /\ ui.dlg.id = None)

LEMMA KeysFlagStep ==
    ASSUME KeysFlags, NEW s \in Slots, KeysUser \/ (Busy(s) /\ KeysResume(s))
    PROVE  KeysFlags'
<1> DEFINE Sets(v0, v1, v2, v3) == DOMAIN ui' = DOMAIN ui /\ ui'.admin = v0 /\ ui'.loading = v1 /\ ui'.submitting = v2 /\ ui'.dlg = v3
<1>1. CallsIn(net) /\ DOMAIN ui = {"admin", "rows", "loading", "dlg", "submitting", "del", "secret"}
  BY DEF KeysFlags
<1>2. \A a : /\ Kind("apikeys", "list", a) = "list"
             /\ Kind("apikeys", "create", a) = "create"
             /\ Kind("apikeys", "toggle", a) = "toggle"
             /\ Kind("apikeys", "delete", a) = "delete"
  BY DEF Kind, Marks
<1>3. ui.dlg # None => ("id" \in DOMAIN ui.dlg /\ ui.dlg.id = None)
  BY DEF KeysFlags
<1>4. CASE KeysOpen \/ TypeForm(Typed)
  <2>1. PICK d, v : /\ net' = net
                    /\ \/ ui' = [ui EXCEPT !.dlg = [id |-> None, form |-> d]]
                       \/ ui.dlg # None /\ ui' = [ui EXCEPT !.dlg.form.v = v]
    BY <1>4, Zenon DEF KeysOpen, OpenForm, TypeForm, User
  <2>2. CASE ui' = [ui EXCEPT !.dlg = [id |-> None, form |-> d]]
    <3>1. Sets(ui.admin, ui.loading, ui.submitting, [id |-> None, form |-> d])
      BY <1>1, <2>2
    <3>2. "id" \in DOMAIN ui'.dlg /\ ui'.dlg.id = None
      BY <3>1
    <3> QED
      BY <2>1, <3>1, <3>2 DEF KeysFlags
  <2>3. CASE ui.dlg # None /\ ui' = [ui EXCEPT !.dlg.form.v = v]
    <3>1. Sets(ui.admin, ui.loading, ui.submitting, [ui.dlg EXCEPT !.form.v = v])
      BY <1>1, <2>3
    <3>2. "id" \in DOMAIN ui'.dlg /\ ui'.dlg.id = None
      BY <1>3, <2>3, <3>1
    <3> QED
      BY <2>1, <3>1, <3>2 DEF KeysFlags
  <2> QED
    BY <2>1, <2>2, <2>3
<1>5. CASE CloseForm
  <2>1. Sets(ui.admin, ui.loading, ui.submitting, None)
    BY <1>1, <1>5 DEF CloseForm, User
  <2>2. net' = net
    BY <1>5 DEF CloseForm, User
  <2> QED
    BY <2>1, <2>2 DEF KeysFlags
<1>6. CASE KeepRow \/ KeysHideSecret \/ \E r \in KeysTable : AskDelete(r)
  <2>1. Sets(ui.admin, ui.loading, ui.submitting, ui.dlg)
    BY <1>1, <1>6 DEF KeepRow, KeysHideSecret, AskDelete, User
  <2>2. net' = net
    BY <1>6 DEF KeepRow, KeysHideSecret, AskDelete, User
  <2> QED
    BY <2>1, <2>2 DEF KeysFlags
<1>7. CASE KeysHandleCreate
  <2>1. /\ ui.dlg # None /\ ~ui.submitting /\ Room(1) /\ ui' = [ui EXCEPT !.submitting = TRUE]
        /\ net' = Send(net, IF ui.dlg.id = None THEN "create" ELSE "update", ui.dlg)
    BY <1>7, Zenon DEF KeysHandleCreate, KeysCanSubmit, FormReady, SubmitForm, Ask
  <2>2. net' = Send(net, "create", ui.dlg)
    BY <1>3, <2>1
  <2>3. Sets(ui.admin, ui.loading, TRUE, ui.dlg)
    BY <1>1, <2>1
  <2>4. More("apikeys", net, net', "create")
    BY <1>1, <1>2, <2>1, <2>2, Asking
  <2> QED
    BY <2>1, <2>3, <2>4 DEF KeysFlags, More
<1>8. CASE KeysHandleDelete
  <2>1. Sets(ui.admin, ui.loading, ui.submitting, ui.dlg)
    BY <1>1, <1>8 DEF KeysHandleDelete, DeleteRow, Ask
  <2>2. More("apikeys", net, net', "delete")
    BY <1>1, <1>2, <1>8, Asking DEF KeysHandleDelete, DeleteRow, Ask
  <2> QED
    BY <2>1, <2>2 DEF KeysFlags, More
<1>9. CASE \E r \in KeysTable : KeysHandleToggle(r)
  <2>1. Sets(ui.admin, ui.loading, ui.submitting, ui.dlg)
    BY <1>1, <1>9 DEF KeysHandleToggle, ToggleRow, Ask
  <2>2. More("apikeys", net, net', "toggle")
    BY <1>1, <1>2, <1>9, Asking DEF KeysHandleToggle, ToggleRow, Ask
  <2> QED
    BY <2>1, <2>2 DEF KeysFlags, More
<1>10. CASE Busy(s) /\ net[s].k = "list" /\ KeysListed(s)
  <2>1. Sets(ui.admin, FALSE, ui.submitting, ui.dlg)
    BY <1>1, <1>10 DEF KeysListed, Listed, Resume
  <2>2. Less("apikeys", net, net', "list")
    BY <1>1, <1>2, <1>10, Ending DEF KeysListed, Listed, Resume
  <2> QED
    BY <2>1, <2>2 DEF KeysFlags, Less
<1>11. CASE Busy(s) /\ net[s].k = "create" /\ KeysCreated(s) /\ Ok(s)
  <2>1. Sets(ui.admin, TRUE, FALSE, None)
    BY <1>1, <1>11 DEF KeysCreated, Refresh, Resume
  <2>2. Swap("apikeys", net, net', "create", "list")
    BY <1>1, <1>2, <1>11, Chaining DEF KeysCreated, Refresh, Resume
  <2> QED
    BY <2>1, <2>2 DEF KeysFlags, Swap
<1>12. CASE Busy(s) /\ net[s].k = "create" /\ KeysCreated(s) /\ ~Ok(s)
  <2>1. Sets(ui.admin, ui.loading, FALSE, ui.dlg)
    BY <1>1, <1>12 DEF KeysCreated, Refresh, Resume
  <2>2. Less("apikeys", net, net', "create")
    BY <1>1, <1>2, <1>12, Ending DEF KeysCreated, Refresh, Resume
  <2> QED
    BY <2>1, <2>2 DEF KeysFlags, Less
<1>13. CASE Busy(s) /\ net[s].k = "toggle" /\ KeysToggled(s)
  <2>1. Sets(ui.admin, ui.loading, ui.submitting, ui.dlg)
    BY <1>1, <1>13 DEF KeysToggled, Resume
  <2>2. Less("apikeys", net, net', "toggle")
    BY <1>1, <1>2, <1>13, Ending DEF KeysToggled, Resume
  <2> QED
    BY <2>1, <2>2 DEF KeysFlags, Less
<1>14. CASE Busy(s) /\ net[s].k = "delete" /\ KeysDeleted(s) /\ Ok(s)
  <2>1. Sets(ui.admin, TRUE, ui.submitting, ui.dlg)
    BY <1>1, <1>14 DEF KeysDeleted, Deleted, Refresh, Resume
  <2>2. Swap("apikeys", net, net', "delete", "list")
    BY <1>1, <1>2, <1>14, Chaining DEF KeysDeleted, Deleted, Refresh, Resume
  <2> QED
    BY <2>1, <2>2 DEF KeysFlags, Swap
<1>15. CASE Busy(s) /\ net[s].k = "delete" /\ KeysDeleted(s) /\ ~Ok(s)
  <2>1. Sets(ui.admin, ui.loading, ui.submitting, ui.dlg)
    BY <1>1, <1>15 DEF KeysDeleted, Deleted, Refresh, Resume
  <2>2. Less("apikeys", net, net', "delete")
    BY <1>1, <1>2, <1>15, Ending DEF KeysDeleted, Deleted, Refresh, Resume
  <2> QED
    BY <2>1, <2>2 DEF KeysFlags, Less
<1> QED
  BY <1>3, <1>4, <1>5, <1>6, <1>7, <1>8, <1>9, <1>10, <1>11, <1>12, <1>13, <1>14, <1>15
    DEF KeysUser, KeysResume

LEMMA KeysFlagPage ==
    ASSUME screen = "apikeys"
    PROVE  /\ Init => KeysFlags
           /\ KeysFlags /\ [Next]_vars => KeysFlags'
           /\ KeysFlags => SpinnersWaited /\ OneSubmitAtATime
<1>1. ASSUME Init PROVE KeysFlags
  <2>1. PICK a \in BOOLEAN : ui = KeysUi(a) /\ net = IF a THEN Send(NoCalls, "list", None) ELSE NoCalls
    BY <1>1, Zenon DEF Init
  <2>2. DOMAIN ui = {"admin", "rows", "loading", "dlg", "submitting", "del", "secret"} /\ ui.admin = a /\ ui.submitting = FALSE /\ ui.dlg = None
    BY <2>1 DEF KeysUi
  <2>3. Kind("apikeys", "list", None) = "list"
    BY DEF Kind, Marks
  <2>4. CASE a
    <3>1. More("apikeys", NoCalls, net, "list")
      BY <2>1, <2>3, <2>4, OneYet
    <3> QED
      BY <2>2, <3>1, NoneYet DEF KeysFlags, More
  <2>5. CASE ~a
    BY <2>1, <2>2, <2>5, NoneYet DEF KeysFlags
  <2> QED
    BY <2>4, <2>5
<1>2. ASSUME KeysFlags, [Next]_vars PROVE KeysFlags'
  <2>1. CASE \E s \in Slots : Serve(s) \/ Fault(s)
    <3>1. CallsIn(net)
      BY <1>2 DEF KeysFlags
    <3>2. ui' = ui /\ Same("apikeys", net, net')
      BY <2>1, <3>1, ServerFlags
    <3> QED
      BY <1>2, <3>2 DEF KeysFlags, Same
  <2>2. ASSUME NEW s \in Slots, Act \/ Interval \/ Elsewhere \/ Continue(s)
        PROVE  KeysFlags'
    <3>1. KeysUser \/ (Busy(s) /\ KeysResume(s))
      BY <2>2 DEF Act, Interval, Elsewhere, Continue
    <3> QED
      BY <1>2, <3>1, KeysFlagStep
  <2>3. CASE UNCHANGED vars
    BY <1>2, <2>3 DEF KeysFlags, vars
  <2> QED
    BY <1>2, <2>1, <2>2, <2>3, SomeSlot DEF Next
<1>3. ASSUME KeysFlags PROVE SpinnersWaited /\ OneSubmitAtATime
  <2> DEFINE c1 == ui.admin /\ ui.loading
  <2>1. /\ Spinners = {<<c1, {"list"}>>, <<ui.submitting, {"create"}>>}
        /\ Submits = {{"create"}}
    BY DEF Spinners, Submits
  <2>2. c1 => InFlight({"list"}) # {}
    <3>1. \A k, a : Kind("apikeys", k, a) \in {"list"} => k \in {"list"}
      BY DEF Kind, Marks
    <3> QED
      BY <1>3, <3>1, WaitsIsInFlight DEF KeysFlags
  <2>3. ui.submitting => InFlight({"create"}) # {}
    <3>1. \A k, a : Kind("apikeys", k, a) \in {"create"} => k \in {"create"}
      BY DEF Kind, Marks
    <3> QED
      BY <1>3, <3>1, WaitsIsInFlight DEF KeysFlags
  <2>4. Cardinality(InFlight({"create"})) <= 1
    <3>1. \A k, a : k \in {"create"} => Kind("apikeys", k, a) \in {"create"}
      BY DEF Kind, Marks
    <3> QED
      BY <1>3, <3>1, AloneIsOne DEF KeysFlags
  <2> HIDE DEF c1
  <2> QED
    BY <2>1, <2>2, <2>3, <2>4 DEF SpinnersWaited, OneSubmitAtATime
<1> QED
  BY <1>1, <1>2, <1>3

----------------------------------------------------------------------------
(* PII rules.                                                              *)

RulesFlags ==
    /\ CallsIn(net) /\ DOMAIN ui = {"admin", "rows", "loading", "dlg", "submitting", "del", "testing", "out"}
    /\ ui.loading => Waits("piirules", net, {"list"})
    /\ ui.submitting <=> Waits("piirules", net, {"create", "update"})
    /\ Alone("piirules", net, {"create", "update"})
    /\ ui.testing <=> Waits("piirules", net, {"probe"})
    /\ Alone("piirules", net, {"probe"})

LEMMA RulesFlagStep ==
    ASSUME RulesFlags, NEW s \in Slots, RulesUser \/ (Busy(s) /\ RulesResume(s))
    PROVE  RulesFlags'
<1> DEFINE Sets(v0, v1, v2) == DOMAIN ui' = DOMAIN ui /\ ui'.loading = v0 /\ ui'.submitting = v1 /\ ui'.testing = v2
<1>1. CallsIn(net) /\ DOMAIN ui = {"admin", "rows", "loading", "dlg", "submitting", "del", "testing", "out"}
  BY DEF RulesFlags
<1>2. \A a : /\ Kind("piirules", "list", a) = "list"
             /\ Kind("piirules", "create", a) = "create"
             /\ Kind("piirules", "update", a) = "update"
             /\ Kind("piirules", "toggle", a) = "toggle"
             /\ Kind("piirules", "delete", a) = "delete"
             /\ Kind("piirules", "probe", a) = "probe"
  BY DEF Kind, Marks
<1>3. CASE RulesOpenNew \/ TypeForm(Typed) \/ CloseForm \/ KeepRow \/ \E r \in RulesTable : RulesOpenEdit(r) \/ AskDelete(r)
  <2>1. Sets(ui.loading, ui.submitting, ui.testing)
    BY <1>1, <1>3 DEF RulesOpenNew, TypeForm, CloseForm, KeepRow, RulesOpenEdit, AskDelete, OpenForm, User
  <2>2. net' = net
    BY <1>3 DEF RulesOpenNew, TypeForm, CloseForm, KeepRow, RulesOpenEdit, AskDelete, OpenForm, User
  <2> QED
    BY <2>1, <2>2 DEF RulesFlags
<1>4. CASE RulesHandleSubmit
  <2>1. Sets(ui.loading, TRUE, ui.testing) /\ ~ui.submitting
    BY <1>1, <1>4, <1>2, Submitting, Ready DEF RulesHandleSubmit, RulesCanSubmit
  <2>2. \E x \in {"create", "update"} : More("piirules", net, net', x)
    BY <1>1, <1>2, <1>4, Submitting DEF RulesHandleSubmit, RulesCanSubmit
  <2> QED
    BY <2>1, <2>2 DEF RulesFlags, More
<1>5. CASE RulesConfirmDelete
  <2>1. Sets(ui.loading, ui.submitting, ui.testing)
    BY <1>1, <1>5 DEF RulesConfirmDelete, DeleteRow, Ask
  <2>2. More("piirules", net, net', "delete")
    BY <1>1, <1>2, <1>5, Asking DEF RulesConfirmDelete, DeleteRow, Ask
  <2> QED
    BY <2>1, <2>2 DEF RulesFlags, More
<1>6. CASE RulesRunTest
  <2>1. Sets(ui.loading, ui.submitting, TRUE) /\ ~ui.testing
    BY <1>1, <1>6 DEF RulesRunTest, Ask
  <2>2. More("piirules", net, net', "probe")
    BY <1>1, <1>2, <1>6, Asking DEF RulesRunTest, Ask
  <2> QED
    BY <2>1, <2>2 DEF RulesFlags, More
<1>7. CASE \E r \in RulesTable : RulesToggle(r)
  <2>1. Sets(ui.loading, ui.submitting, ui.testing)
    BY <1>1, <1>7 DEF RulesToggle, ToggleRow, Ask
  <2>2. More("piirules", net, net', "toggle")
    BY <1>1, <1>2, <1>7, Asking DEF RulesToggle, ToggleRow, Ask
  <2> QED
    BY <2>1, <2>2 DEF RulesFlags, More
<1>8. CASE Busy(s) /\ net[s].k = "list" /\ RulesListed(s)
  <2>1. Sets(FALSE, ui.submitting, ui.testing)
    BY <1>1, <1>8 DEF RulesListed, Listed, Resume
  <2>2. Less("piirules", net, net', "list")
    BY <1>1, <1>2, <1>8, Ending DEF RulesListed, Listed, Resume
  <2> QED
    BY <2>1, <2>2 DEF RulesFlags, Less
<1>9. CASE Busy(s) /\ net[s].k \in {"create", "update"} /\ RulesSaved(s) /\ Ok(s)
  <2>1. Sets(TRUE, FALSE, ui.testing)
    BY <1>1, <1>9 DEF RulesSaved, Saved, Refresh, Resume
  <2>2. \E x \in {"create", "update"} : Swap("piirules", net, net', x, "list")
    BY <1>1, <1>2, <1>9, Chaining DEF RulesSaved, Saved, Refresh, Resume
  <2> QED
    BY <2>1, <2>2 DEF RulesFlags, Swap
<1>10. CASE Busy(s) /\ net[s].k \in {"create", "update"} /\ RulesSaved(s) /\ ~Ok(s)
  <2>1. Sets(ui.loading, FALSE, ui.testing)
    BY <1>1, <1>10 DEF RulesSaved, Saved, Refresh, Resume
  <2>2. \E x \in {"create", "update"} : Less("piirules", net, net', x)
    BY <1>1, <1>2, <1>10, Ending DEF RulesSaved, Saved, Refresh, Resume
  <2> QED
    BY <2>1, <2>2 DEF RulesFlags, Less
<1>11. CASE Busy(s) /\ net[s].k = "toggle" /\ RulesToggled(s)
  <2>1. Sets(ui.loading, ui.submitting, ui.testing)
    BY <1>1, <1>11 DEF RulesToggled, Toggled, Resume
  <2>2. Less("piirules", net, net', "toggle")
    BY <1>1, <1>2, <1>11, Ending DEF RulesToggled, Toggled, Resume
  <2> QED
    BY <2>1, <2>2 DEF RulesFlags, Less
<1>12. CASE Busy(s) /\ net[s].k = "delete" /\ RulesDeleted(s) /\ Ok(s)
  <2>1. Sets(TRUE, ui.submitting, ui.testing)
    BY <1>1, <1>12 DEF RulesDeleted, Deleted, Refresh, Resume
  <2>2. Swap("piirules", net, net', "delete", "list")
    BY <1>1, <1>2, <1>12, Chaining DEF RulesDeleted, Deleted, Refresh, Resume
  <2> QED
    BY <2>1, <2>2 DEF RulesFlags, Swap
<1>13. CASE Busy(s) /\ net[s].k = "delete" /\ RulesDeleted(s) /\ ~Ok(s)
  <2>1. Sets(ui.loading, ui.submitting, ui.testing)
    BY <1>1, <1>13 DEF RulesDeleted, Deleted, Refresh, Resume
  <2>2. Less("piirules", net, net', "delete")
    BY <1>1, <1>2, <1>13, Ending DEF RulesDeleted, Deleted, Refresh, Resume
  <2> QED
    BY <2>1, <2>2 DEF RulesFlags, Less
<1>14. CASE Busy(s) /\ net[s].k = "probe" /\ RulesTested(s)
  <2>1. Sets(ui.loading, ui.submitting, FALSE)
    BY <1>1, <1>14 DEF RulesTested, Resume
  <2>2. Less("piirules", net, net', "probe")
    BY <1>1, <1>2, <1>14, Ending DEF RulesTested, Resume
  <2> QED
    BY <2>1, <2>2 DEF RulesFlags, Less
<1> QED
  BY <1>3, <1>4, <1>5, <1>6, <1>7, <1>8, <1>9, <1>10, <1>11, <1>12, <1>13, <1>14 DEF RulesUser, RulesResume

LEMMA RulesFlagPage ==
    ASSUME screen = "piirules"
    PROVE  /\ Init => RulesFlags
           /\ RulesFlags /\ [Next]_vars => RulesFlags'
           /\ RulesFlags => SpinnersWaited /\ OneSubmitAtATime
<1>1. ASSUME Init PROVE RulesFlags
  <2>1. (\E a \in BOOLEAN : ui = PiiUi(a)) /\ net = Send(NoCalls, "list", None)
    BY <1>1, Zenon DEF Init
  <2>2. DOMAIN ui = {"admin", "rows", "loading", "dlg", "submitting", "del", "testing", "out"} /\ ui.loading = TRUE /\ ui.submitting = FALSE /\ ui.testing = FALSE
    BY <2>1 DEF PiiUi
  <2>3. Kind("piirules", "list", None) = "list"
    BY DEF Kind, Marks
  <2>4. More("piirules", NoCalls, net, "list")
    BY <2>1, <2>3, OneYet
  <2> QED
    BY <2>2, <2>4, NoneYet DEF RulesFlags, More
<1>2. ASSUME RulesFlags, [Next]_vars PROVE RulesFlags'
  <2>1. CASE \E s \in Slots : Serve(s) \/ Fault(s)
    <3>1. CallsIn(net)
      BY <1>2 DEF RulesFlags
    <3>2. ui' = ui /\ Same("piirules", net, net')
      BY <2>1, <3>1, ServerFlags
    <3> QED
      BY <1>2, <3>2 DEF RulesFlags, Same
  <2>2. ASSUME NEW s \in Slots, Act \/ Interval \/ Elsewhere \/ Continue(s)
        PROVE  RulesFlags'
    <3>1. RulesUser \/ (Busy(s) /\ RulesResume(s))
      BY <2>2 DEF Act, Interval, Elsewhere, Continue
    <3> QED
      BY <1>2, <3>1, RulesFlagStep
  <2>3. CASE UNCHANGED vars
    BY <1>2, <2>3 DEF RulesFlags, vars
  <2> QED
    BY <1>2, <2>1, <2>2, <2>3, SomeSlot DEF Next
<1>3. ASSUME RulesFlags PROVE SpinnersWaited /\ OneSubmitAtATime
  <2>1. /\ Spinners = {<<ui.loading, {"list"}>>,
                        <<ui.submitting, {"create", "update"}>>,
                        <<ui.testing, {"probe"}>>}
        /\ Submits = {{"create", "update"}}
    BY DEF Spinners, Submits
  <2>2. ui.loading => InFlight({"list"}) # {}
    <3>1. \A k, a : Kind("piirules", k, a) \in {"list"} => k \in {"list"}
      BY DEF Kind, Marks
    <3> QED
      BY <1>3, <3>1, WaitsIsInFlight DEF RulesFlags
  <2>3. ui.submitting => InFlight({"create", "update"}) # {}
    <3>1. \A k, a : Kind("piirules", k, a) \in {"create", "update"} => k \in {"create", "update"}
      BY DEF Kind, Marks
    <3> QED
      BY <1>3, <3>1, WaitsIsInFlight DEF RulesFlags
  <2>4. ui.testing => InFlight({"probe"}) # {}
    <3>1. \A k, a : Kind("piirules", k, a) \in {"probe"} => k \in {"probe"}
      BY DEF Kind, Marks
    <3> QED
      BY <1>3, <3>1, WaitsIsInFlight DEF RulesFlags
  <2>5. Cardinality(InFlight({"create", "update"})) <= 1
    <3>1. \A k, a : k \in {"create", "update"} => Kind("piirules", k, a) \in {"create", "update"}
      BY DEF Kind, Marks
    <3> QED
      BY <1>3, <3>1, AloneIsOne DEF RulesFlags
  <2> QED
    BY <2>1, <2>2, <2>3, <2>4, <2>5 DEF SpinnersWaited, OneSubmitAtATime
<1> QED
  BY <1>1, <1>2, <1>3

----------------------------------------------------------------------------
(* PII functions.                                                          *)

FunctionsFlags ==
    /\ CallsIn(net) /\ DOMAIN ui = {"admin", "rows", "loading", "dlg", "submitting", "del", "testing", "out"}
    /\ ui.loading => Waits("piifunctions", net, {"list"})
    /\ ui.submitting <=> Waits("piifunctions", net, {"create", "update"})
    /\ Alone("piifunctions", net, {"create", "update"})
    /\ ui.testing <=> Waits("piifunctions", net, {"probe"})
    /\ Alone("piifunctions", net, {"probe"})

LEMMA FunctionsFlagStep ==
    ASSUME FunctionsFlags, NEW s \in Slots, FunctionsUser \/ (Busy(s) /\ FunctionsResume(s))
    PROVE  FunctionsFlags'
<1> DEFINE Sets(v0, v1, v2) == DOMAIN ui' = DOMAIN ui /\ ui'.loading = v0 /\ ui'.submitting = v1 /\ ui'.testing = v2
<1>1. CallsIn(net) /\ DOMAIN ui = {"admin", "rows", "loading", "dlg", "submitting", "del", "testing", "out"}
  BY DEF FunctionsFlags
<1>2. \A a : /\ Kind("piifunctions", "list", a) = "list"
             /\ Kind("piifunctions", "create", a) = "create"
             /\ Kind("piifunctions", "update", a) = "update"
             /\ Kind("piifunctions", "toggle", a) = "toggle"
             /\ Kind("piifunctions", "delete", a) = "delete"
             /\ Kind("piifunctions", "probe", a) = "probe"
  BY DEF Kind, Marks
<1>3. CASE FunctionsOpenNew \/ TypeForm(Typed) \/ CloseForm \/ KeepRow \/ \E r \in FunctionsTable : FunctionsOpenEdit(r) \/ AskDelete(r)
  <2>1. Sets(ui.loading, ui.submitting, ui.testing)
    BY <1>1, <1>3 DEF FunctionsOpenNew, TypeForm, CloseForm, KeepRow, FunctionsOpenEdit, AskDelete, User
  <2>2. net' = net
    BY <1>3 DEF FunctionsOpenNew, TypeForm, CloseForm, KeepRow, FunctionsOpenEdit, AskDelete, User
  <2> QED
    BY <2>1, <2>2 DEF FunctionsFlags
<1>4. CASE FunctionsHandleSubmit
  <2>1. Sets(ui.loading, TRUE, ui.testing) /\ ~ui.submitting
    BY <1>1, <1>4, <1>2, Submitting, Ready DEF FunctionsHandleSubmit, FunctionsCanSubmit
  <2>2. \E x \in {"create", "update"} : More("piifunctions", net, net', x)
    BY <1>1, <1>2, <1>4, Submitting DEF FunctionsHandleSubmit, FunctionsCanSubmit
  <2> QED
    BY <2>1, <2>2 DEF FunctionsFlags, More
<1>5. CASE FunctionsConfirmDelete
  <2>1. Sets(ui.loading, ui.submitting, ui.testing)
    BY <1>1, <1>5 DEF FunctionsConfirmDelete, DeleteRow, Ask
  <2>2. More("piifunctions", net, net', "delete")
    BY <1>1, <1>2, <1>5, Asking DEF FunctionsConfirmDelete, DeleteRow, Ask
  <2> QED
    BY <2>1, <2>2 DEF FunctionsFlags, More
<1>6. CASE FunctionsRunTest
  <2>1. Sets(ui.loading, ui.submitting, TRUE) /\ ~ui.testing
    BY <1>1, <1>6 DEF FunctionsRunTest, Ask
  <2>2. More("piifunctions", net, net', "probe")
    BY <1>1, <1>2, <1>6, Asking DEF FunctionsRunTest, Ask
  <2> QED
    BY <2>1, <2>2 DEF FunctionsFlags, More
<1>7. CASE \E r \in FunctionsTable : FunctionsToggle(r)
  <2>1. Sets(ui.loading, ui.submitting, ui.testing)
    BY <1>1, <1>7 DEF FunctionsToggle, ToggleRow, Ask
  <2>2. More("piifunctions", net, net', "toggle")
    BY <1>1, <1>2, <1>7, Asking DEF FunctionsToggle, ToggleRow, Ask
  <2> QED
    BY <2>1, <2>2 DEF FunctionsFlags, More
<1>8. CASE Busy(s) /\ net[s].k = "list" /\ FunctionsListed(s)
  <2>1. Sets(FALSE, ui.submitting, ui.testing)
    BY <1>1, <1>8 DEF FunctionsListed, Listed, Resume
  <2>2. Less("piifunctions", net, net', "list")
    BY <1>1, <1>2, <1>8, Ending DEF FunctionsListed, Listed, Resume
  <2> QED
    BY <2>1, <2>2 DEF FunctionsFlags, Less
<1>9. CASE Busy(s) /\ net[s].k \in {"create", "update"} /\ FunctionsSaved(s) /\ Ok(s)
  <2>1. Sets(TRUE, FALSE, ui.testing)
    BY <1>1, <1>9 DEF FunctionsSaved, Saved, Refresh, Resume
  <2>2. \E x \in {"create", "update"} : Swap("piifunctions", net, net', x, "list")
    BY <1>1, <1>2, <1>9, Chaining DEF FunctionsSaved, Saved, Refresh, Resume
  <2> QED
    BY <2>1, <2>2 DEF FunctionsFlags, Swap
<1>10. CASE Busy(s) /\ net[s].k \in {"create", "update"} /\ FunctionsSaved(s) /\ ~Ok(s)
  <2>1. Sets(ui.loading, FALSE, ui.testing)
    BY <1>1, <1>10 DEF FunctionsSaved, Saved, Refresh, Resume
  <2>2. \E x \in {"create", "update"} : Less("piifunctions", net, net', x)
    BY <1>1, <1>2, <1>10, Ending DEF FunctionsSaved, Saved, Refresh, Resume
  <2> QED
    BY <2>1, <2>2 DEF FunctionsFlags, Less
<1>11. CASE Busy(s) /\ net[s].k = "toggle" /\ FunctionsToggled(s)
  <2>1. Sets(ui.loading, ui.submitting, ui.testing)
    BY <1>1, <1>11 DEF FunctionsToggled, Toggled, Resume
  <2>2. Less("piifunctions", net, net', "toggle")
    BY <1>1, <1>2, <1>11, Ending DEF FunctionsToggled, Toggled, Resume
  <2> QED
    BY <2>1, <2>2 DEF FunctionsFlags, Less
<1>12. CASE Busy(s) /\ net[s].k = "delete" /\ FunctionsDeleted(s) /\ Ok(s)
  <2>1. Sets(TRUE, ui.submitting, ui.testing)
    BY <1>1, <1>12 DEF FunctionsDeleted, Deleted, Refresh, Resume
  <2>2. Swap("piifunctions", net, net', "delete", "list")
    BY <1>1, <1>2, <1>12, Chaining DEF FunctionsDeleted, Deleted, Refresh, Resume
  <2> QED
    BY <2>1, <2>2 DEF FunctionsFlags, Swap
<1>13. CASE Busy(s) /\ net[s].k = "delete" /\ FunctionsDeleted(s) /\ ~Ok(s)
  <2>1. Sets(ui.loading, ui.submitting, ui.testing)
    BY <1>1, <1>13 DEF FunctionsDeleted, Deleted, Refresh, Resume
  <2>2. Less("piifunctions", net, net', "delete")
    BY <1>1, <1>2, <1>13, Ending DEF FunctionsDeleted, Deleted, Refresh, Resume
  <2> QED
    BY <2>1, <2>2 DEF FunctionsFlags, Less
<1>14. CASE Busy(s) /\ net[s].k = "probe" /\ FunctionsTested(s)
  <2>1. Sets(ui.loading, ui.submitting, FALSE)
    BY <1>1, <1>14 DEF FunctionsTested, Resume
  <2>2. Less("piifunctions", net, net', "probe")
    BY <1>1, <1>2, <1>14, Ending DEF FunctionsTested, Resume
  <2> QED
    BY <2>1, <2>2 DEF FunctionsFlags, Less
<1> QED
  BY <1>3, <1>4, <1>5, <1>6, <1>7, <1>8, <1>9, <1>10, <1>11, <1>12, <1>13, <1>14
    DEF FunctionsUser, FunctionsResume

LEMMA FunctionsFlagPage ==
    ASSUME screen = "piifunctions"
    PROVE  /\ Init => FunctionsFlags
           /\ FunctionsFlags /\ [Next]_vars => FunctionsFlags'
           /\ FunctionsFlags => SpinnersWaited /\ OneSubmitAtATime
<1>1. ASSUME Init PROVE FunctionsFlags
  <2>1. (\E a \in BOOLEAN : ui = PiiUi(a)) /\ net = Send(NoCalls, "list", None)
    BY <1>1, Zenon DEF Init
  <2>2. DOMAIN ui = {"admin", "rows", "loading", "dlg", "submitting", "del", "testing", "out"} /\ ui.loading = TRUE /\ ui.submitting = FALSE /\ ui.testing = FALSE
    BY <2>1 DEF PiiUi
  <2>3. Kind("piifunctions", "list", None) = "list"
    BY DEF Kind, Marks
  <2>4. More("piifunctions", NoCalls, net, "list")
    BY <2>1, <2>3, OneYet
  <2> QED
    BY <2>2, <2>4, NoneYet DEF FunctionsFlags, More
<1>2. ASSUME FunctionsFlags, [Next]_vars PROVE FunctionsFlags'
  <2>1. CASE \E s \in Slots : Serve(s) \/ Fault(s)
    <3>1. CallsIn(net)
      BY <1>2 DEF FunctionsFlags
    <3>2. ui' = ui /\ Same("piifunctions", net, net')
      BY <2>1, <3>1, ServerFlags
    <3> QED
      BY <1>2, <3>2 DEF FunctionsFlags, Same
  <2>2. ASSUME NEW s \in Slots, Act \/ Interval \/ Elsewhere \/ Continue(s)
        PROVE  FunctionsFlags'
    <3>1. FunctionsUser \/ (Busy(s) /\ FunctionsResume(s))
      BY <2>2 DEF Act, Interval, Elsewhere, Continue
    <3> QED
      BY <1>2, <3>1, FunctionsFlagStep
  <2>3. CASE UNCHANGED vars
    BY <1>2, <2>3 DEF FunctionsFlags, vars
  <2> QED
    BY <1>2, <2>1, <2>2, <2>3, SomeSlot DEF Next
<1>3. ASSUME FunctionsFlags PROVE SpinnersWaited /\ OneSubmitAtATime
  <2>1. /\ Spinners = {<<ui.loading, {"list"}>>,
                        <<ui.submitting, {"create", "update"}>>,
                        <<ui.testing, {"probe"}>>}
        /\ Submits = {{"create", "update"}}
    BY DEF Spinners, Submits
  <2>2. ui.loading => InFlight({"list"}) # {}
    <3>1. \A k, a : Kind("piifunctions", k, a) \in {"list"} => k \in {"list"}
      BY DEF Kind, Marks
    <3> QED
      BY <1>3, <3>1, WaitsIsInFlight DEF FunctionsFlags
  <2>3. ui.submitting => InFlight({"create", "update"}) # {}
    <3>1. \A k, a : Kind("piifunctions", k, a) \in {"create", "update"} => k \in {"create", "update"}
      BY DEF Kind, Marks
    <3> QED
      BY <1>3, <3>1, WaitsIsInFlight DEF FunctionsFlags
  <2>4. ui.testing => InFlight({"probe"}) # {}
    <3>1. \A k, a : Kind("piifunctions", k, a) \in {"probe"} => k \in {"probe"}
      BY DEF Kind, Marks
    <3> QED
      BY <1>3, <3>1, WaitsIsInFlight DEF FunctionsFlags
  <2>5. Cardinality(InFlight({"create", "update"})) <= 1
    <3>1. \A k, a : k \in {"create", "update"} => Kind("piifunctions", k, a) \in {"create", "update"}
      BY DEF Kind, Marks
    <3> QED
      BY <1>3, <3>1, AloneIsOne DEF FunctionsFlags
  <2> QED
    BY <2>1, <2>2, <2>3, <2>4, <2>5 DEF SpinnersWaited, OneSubmitAtATime
<1> QED
  BY <1>1, <1>2, <1>3

----------------------------------------------------------------------------
(* Feedback.                                                               *)

FeedbackFlags ==
    /\ CallsIn(net) /\ DOMAIN ui = {"admin", "rows", "loading", "filter", "listed", "add", "adding", "promote", "dataset", "submitting", "del"}
    /\ ui.loading => Waits("feedback", net, {"list"})
    /\ ui.adding <=> Waits("feedback", net, {"create"})
    /\ Alone("feedback", net, {"create"})
    /\ ui.submitting <=> Waits("feedback", net, {"promote"})
    /\ Alone("feedback", net, {"promote"})

LEMMA FeedbackFlagStep ==
    ASSUME FeedbackFlags, NEW s \in Slots, FeedbackUser \/ (Busy(s) /\ FeedbackResume(s))
    PROVE  FeedbackFlags'
<1> DEFINE Sets(v0, v1, v2) == DOMAIN ui' = DOMAIN ui /\ ui'.loading = v0 /\ ui'.adding = v1 /\ ui'.submitting = v2
<1>1. CallsIn(net) /\ DOMAIN ui = {"admin", "rows", "loading", "filter", "listed", "add", "adding", "promote", "dataset", "submitting", "del"}
  BY DEF FeedbackFlags
<1>2. \A a : /\ Kind("feedback", "list", a) = "list"
             /\ Kind("feedback", "datasets", a) = "datasets"
             /\ Kind("feedback", "create", a) = "create"
             /\ Kind("feedback", "promote", a) = "promote"
             /\ Kind("feedback", "dismiss", a) = "dismiss"
             /\ Kind("feedback", "delete", a) = "delete"
  BY DEF Kind, Marks
<1>3. CASE FeedbackOpenAdd
  <2>1. Sets(ui.loading, ui.adding, ui.submitting)
    BY <1>1, <1>3 DEF FeedbackOpenAdd, User
  <2>2. net' = net
    BY <1>3 DEF FeedbackOpenAdd, User
  <2> QED
    BY <2>1, <2>2 DEF FeedbackFlags
<1>4. CASE FeedbackTypeAdd \/ FeedbackClose \/ \E r \in FeedbackTable : FeedbackAskDelete(r)
  <2>1. Sets(ui.loading, ui.adding, ui.submitting)
    BY <1>1, <1>4 DEF FeedbackTypeAdd, FeedbackClose, FeedbackAskDelete, User, AskDelete
  <2>2. net' = net
    BY <1>4 DEF FeedbackTypeAdd, FeedbackClose, FeedbackAskDelete, User, AskDelete
  <2> QED
    BY <2>1, <2>2 DEF FeedbackFlags
<1>5. CASE \E f \in {"all", "new"} : FeedbackFilter(f)
  <2>1. Sets(TRUE, ui.adding, ui.submitting)
    BY <1>1, <1>5 DEF FeedbackFilter, Ask
  <2>2. More("feedback", net, net', "list")
    BY <1>1, <1>2, <1>5, Asking DEF FeedbackFilter, Ask
  <2> QED
    BY <2>1, <2>2 DEF FeedbackFlags, More
<1>6. CASE FeedbackManualAdd
  <2>1. Sets(ui.loading, TRUE, ui.submitting) /\ ~ui.adding
    BY <1>1, <1>6 DEF FeedbackManualAdd, Ask
  <2>2. More("feedback", net, net', "create")
    BY <1>1, <1>2, <1>6, Asking DEF FeedbackManualAdd, Ask
  <2> QED
    BY <2>1, <2>2 DEF FeedbackFlags, More
<1>7. CASE FeedbackPromote
  <2>1. Sets(ui.loading, ui.adding, TRUE) /\ ~ui.submitting
    BY <1>1, <1>7 DEF FeedbackPromote, Ask
  <2>2. More("feedback", net, net', "promote")
    BY <1>1, <1>2, <1>7, Asking DEF FeedbackPromote, Ask
  <2> QED
    BY <2>1, <2>2 DEF FeedbackFlags, More
<1>8. CASE FeedbackConfirmDelete
  <2>1. Sets(ui.loading, ui.adding, ui.submitting)
    BY <1>1, <1>8 DEF FeedbackConfirmDelete, Ask
  <2>2. More("feedback", net, net', "delete")
    BY <1>1, <1>2, <1>8, Asking DEF FeedbackConfirmDelete, Ask
  <2> QED
    BY <2>1, <2>2 DEF FeedbackFlags, More
<1>9. CASE \E r \in FeedbackTable : FeedbackOpenPromote(r)
  <2>1. Sets(ui.loading, ui.adding, ui.submitting)
    BY <1>1, <1>9 DEF FeedbackOpenPromote, Ask
  <2>2. More("feedback", net, net', "datasets")
    BY <1>1, <1>2, <1>9, Asking DEF FeedbackOpenPromote, Ask
  <2> QED
    BY <2>1, <2>2 DEF FeedbackFlags, More
<1>10. CASE \E r \in FeedbackTable : FeedbackDismiss(r)
  <2>1. Sets(ui.loading, ui.adding, ui.submitting)
    BY <1>1, <1>10 DEF FeedbackDismiss, Ask
  <2>2. More("feedback", net, net', "dismiss")
    BY <1>1, <1>2, <1>10, Asking DEF FeedbackDismiss, Ask
  <2> QED
    BY <2>1, <2>2 DEF FeedbackFlags, More
<1>11. CASE Busy(s) /\ net[s].k = "list" /\ FeedbackListed(s)
  <2>1. Sets(FALSE, ui.adding, ui.submitting)
    BY <1>1, <1>11 DEF FeedbackListed, Resume
  <2>2. Less("feedback", net, net', "list")
    BY <1>1, <1>2, <1>11, Ending DEF FeedbackListed, Resume
  <2> QED
    BY <2>1, <2>2 DEF FeedbackFlags, Less
<1>12. CASE Busy(s) /\ net[s].k = "datasets" /\ FeedbackDatasets(s)
  <2>1. Sets(ui.loading, ui.adding, ui.submitting)
    BY <1>1, <1>12 DEF FeedbackDatasets, Resume
  <2>2. Less("feedback", net, net', "datasets")
    BY <1>1, <1>2, <1>12, Ending DEF FeedbackDatasets, Resume
  <2> QED
    BY <2>1, <2>2 DEF FeedbackFlags, Less
<1>13. CASE Busy(s) /\ net[s].k = "create" /\ FeedbackAdded(s) /\ Ok(s)
  <2>1. Sets(TRUE, FALSE, ui.submitting)
    BY <1>1, <1>13 DEF FeedbackAdded, FeedbackChanged, Resume
  <2>2. Swap("feedback", net, net', "create", "list")
    BY <1>1, <1>2, <1>13, Chaining DEF FeedbackAdded, FeedbackChanged, Resume
  <2> QED
    BY <2>1, <2>2 DEF FeedbackFlags, Swap
<1>14. CASE Busy(s) /\ net[s].k = "create" /\ FeedbackAdded(s) /\ ~Ok(s)
  <2>1. Sets(ui.loading, FALSE, ui.submitting)
    BY <1>1, <1>14 DEF FeedbackAdded, FeedbackChanged, Resume
  <2>2. Less("feedback", net, net', "create")
    BY <1>1, <1>2, <1>14, Ending DEF FeedbackAdded, FeedbackChanged, Resume
  <2> QED
    BY <2>1, <2>2 DEF FeedbackFlags, Less
<1>15. CASE Busy(s) /\ net[s].k = "promote" /\ FeedbackPromoted(s) /\ Ok(s)
  <2>1. Sets(TRUE, ui.adding, FALSE)
    BY <1>1, <1>15 DEF FeedbackPromoted, FeedbackChanged, Resume
  <2>2. Swap("feedback", net, net', "promote", "list")
    BY <1>1, <1>2, <1>15, Chaining DEF FeedbackPromoted, FeedbackChanged, Resume
  <2> QED
    BY <2>1, <2>2 DEF FeedbackFlags, Swap
<1>16. CASE Busy(s) /\ net[s].k = "promote" /\ FeedbackPromoted(s) /\ ~Ok(s)
  <2>1. Sets(ui.loading, ui.adding, FALSE)
    BY <1>1, <1>16 DEF FeedbackPromoted, FeedbackChanged, Resume
  <2>2. Less("feedback", net, net', "promote")
    BY <1>1, <1>2, <1>16, Ending DEF FeedbackPromoted, FeedbackChanged, Resume
  <2> QED
    BY <2>1, <2>2 DEF FeedbackFlags, Less
<1>17. CASE Busy(s) /\ net[s].k = "dismiss" /\ FeedbackChanged(s, ui, ui) /\ Ok(s)
  <2>1. Sets(TRUE, ui.adding, ui.submitting)
    BY <1>1, <1>17 DEF FeedbackChanged, Resume
  <2>2. Swap("feedback", net, net', "dismiss", "list")
    BY <1>1, <1>2, <1>17, Chaining DEF FeedbackChanged, Resume
  <2> QED
    BY <2>1, <2>2 DEF FeedbackFlags, Swap
<1>18. CASE Busy(s) /\ net[s].k = "dismiss" /\ FeedbackChanged(s, ui, ui) /\ ~Ok(s)
  <2>1. Sets(ui.loading, ui.adding, ui.submitting)
    BY <1>1, <1>18 DEF FeedbackChanged, Resume
  <2>2. Less("feedback", net, net', "dismiss")
    BY <1>1, <1>2, <1>18, Ending DEF FeedbackChanged, Resume
  <2> QED
    BY <2>1, <2>2 DEF FeedbackFlags, Less
<1>19. CASE Busy(s) /\ net[s].k = "delete" /\ FeedbackChanged(s, ui, [ui EXCEPT !.del = None]) /\ Ok(s)
  <2>1. Sets(TRUE, ui.adding, ui.submitting)
    BY <1>1, <1>19 DEF FeedbackChanged, Resume
  <2>2. Swap("feedback", net, net', "delete", "list")
    BY <1>1, <1>2, <1>19, Chaining DEF FeedbackChanged, Resume
  <2> QED
    BY <2>1, <2>2 DEF FeedbackFlags, Swap
<1>20. CASE Busy(s) /\ net[s].k = "delete" /\ FeedbackChanged(s, ui, [ui EXCEPT !.del = None]) /\ ~Ok(s)
  <2>1. Sets(ui.loading, ui.adding, ui.submitting)
    BY <1>1, <1>20 DEF FeedbackChanged, Resume
  <2>2. Less("feedback", net, net', "delete")
    BY <1>1, <1>2, <1>20, Ending DEF FeedbackChanged, Resume
  <2> QED
    BY <2>1, <2>2 DEF FeedbackFlags, Less
<1> QED
  BY <1>3, <1>4, <1>5, <1>6, <1>7, <1>8, <1>9, <1>10, <1>11, <1>12, <1>13, <1>14, <1>15, <1>16, <1>17, <1>18,
    <1>19, <1>20
    DEF FeedbackUser, FeedbackResume

LEMMA FeedbackFlagPage ==
    ASSUME screen = "feedback"
    PROVE  /\ Init => FeedbackFlags
           /\ FeedbackFlags /\ [Next]_vars => FeedbackFlags'
           /\ FeedbackFlags => SpinnersWaited /\ OneSubmitAtATime
<1>1. ASSUME Init PROVE FeedbackFlags
  <2>1. (\E a \in BOOLEAN : ui = FeedbackUi(a)) /\ net = Send(NoCalls, "list", "all")
    BY <1>1, Zenon DEF Init
  <2>2. DOMAIN ui = {"admin", "rows", "loading", "filter", "listed", "add", "adding", "promote", "dataset", "submitting", "del"} /\ ui.loading = TRUE /\ ui.adding = FALSE /\ ui.submitting = FALSE
    BY <2>1 DEF FeedbackUi
  <2>3. Kind("feedback", "list", "all") = "list"
    BY DEF Kind, Marks
  <2>4. More("feedback", NoCalls, net, "list")
    BY <2>1, <2>3, OneYet
  <2> QED
    BY <2>2, <2>4, NoneYet DEF FeedbackFlags, More
<1>2. ASSUME FeedbackFlags, [Next]_vars PROVE FeedbackFlags'
  <2>1. CASE \E s \in Slots : Serve(s) \/ Fault(s)
    <3>1. CallsIn(net)
      BY <1>2 DEF FeedbackFlags
    <3>2. ui' = ui /\ Same("feedback", net, net')
      BY <2>1, <3>1, ServerFlags
    <3> QED
      BY <1>2, <3>2 DEF FeedbackFlags, Same
  <2>2. ASSUME NEW s \in Slots, Act \/ Interval \/ Elsewhere \/ Continue(s)
        PROVE  FeedbackFlags'
    <3>1. FeedbackUser \/ (Busy(s) /\ FeedbackResume(s))
      BY <2>2 DEF Act, Interval, Elsewhere, Continue
    <3> QED
      BY <1>2, <3>1, FeedbackFlagStep
  <2>3. CASE UNCHANGED vars
    BY <1>2, <2>3 DEF FeedbackFlags, vars
  <2> QED
    BY <1>2, <2>1, <2>2, <2>3, SomeSlot DEF Next
<1>3. ASSUME FeedbackFlags PROVE SpinnersWaited /\ OneSubmitAtATime
  <2>1. /\ Spinners = {<<ui.loading, {"list"}>>,
                        <<ui.adding, {"create"}>>,
                        <<ui.submitting, {"promote"}>>}
        /\ Submits = {{"create"}, {"promote"}}
    BY DEF Spinners, Submits
  <2>2. ui.loading => InFlight({"list"}) # {}
    <3>1. \A k, a : Kind("feedback", k, a) \in {"list"} => k \in {"list"}
      BY DEF Kind, Marks
    <3> QED
      BY <1>3, <3>1, WaitsIsInFlight DEF FeedbackFlags
  <2>3. ui.adding => InFlight({"create"}) # {}
    <3>1. \A k, a : Kind("feedback", k, a) \in {"create"} => k \in {"create"}
      BY DEF Kind, Marks
    <3> QED
      BY <1>3, <3>1, WaitsIsInFlight DEF FeedbackFlags
  <2>4. ui.submitting => InFlight({"promote"}) # {}
    <3>1. \A k, a : Kind("feedback", k, a) \in {"promote"} => k \in {"promote"}
      BY DEF Kind, Marks
    <3> QED
      BY <1>3, <3>1, WaitsIsInFlight DEF FeedbackFlags
  <2>5. Cardinality(InFlight({"create"})) <= 1
    <3>1. \A k, a : k \in {"create"} => Kind("feedback", k, a) \in {"create"}
      BY DEF Kind, Marks
    <3> QED
      BY <1>3, <3>1, AloneIsOne DEF FeedbackFlags
  <2>6. Cardinality(InFlight({"promote"})) <= 1
    <3>1. \A k, a : k \in {"promote"} => Kind("feedback", k, a) \in {"promote"}
      BY DEF Kind, Marks
    <3> QED
      BY <1>3, <3>1, AloneIsOne DEF FeedbackFlags
  <2> QED
    BY <2>1, <2>2, <2>3, <2>4, <2>5, <2>6 DEF SpinnersWaited, OneSubmitAtATime
<1> QED
  BY <1>1, <1>2, <1>3

----------------------------------------------------------------------------
(* Collections; the test of a server goes on with its models and a dimension. *)

CollectionsFlags ==
    /\ CallsIn(net) /\ DOMAIN ui = {"admin", "rows", "page", "loading", "open", "form", "submitting", "testing", "listing", "probing", "at"}
    /\ ui.loading => Waits("collections", net, {"list"})
    /\ ui.submitting <=> Waits("collections", net, {"create"})
    /\ Alone("collections", net, {"create"})
    /\ ui.testing <=> Waits("collections", net, {"check", "awaited", "later"})
    /\ Alone("collections", net, {"check", "awaited", "later"})
    /\ ui.listing => Waits("collections", net, {"models", "awaited"})
    /\ ui.probing => Waits("collections", net, {"probe"})

LEMMA CollectionsFlagStep ==
    ASSUME CollectionsFlags, NEW s \in Slots, CollectionsUser \/ (Busy(s) /\ CollectionsResume(s))
    PROVE  CollectionsFlags'
<1> DEFINE Sets(v0, v1, v2, v3, v4) == DOMAIN ui' = DOMAIN ui /\ ui'.loading = v0 /\ ui'.submitting = v1 /\ ui'.testing = v2 /\ ui'.listing = v3 /\ ui'.probing = v4
<1>1. CallsIn(net) /\ DOMAIN ui = {"admin", "rows", "page", "loading", "open", "form", "submitting", "testing", "listing", "probing", "at"}
  BY DEF CollectionsFlags
<1>2. \A a : /\ Kind("collections", "list", a) = "list"
             /\ Kind("collections", "create", a) = "create"
             /\ Kind("collections", "check", a) = "check"
             /\ Kind("collections", "locals", a) = "locals"
             /\ Kind("collections", "rerankers", a) = "rerankers"
  BY DEF Kind, Marks
<1>3. \A a : /\ a.test => Kind("collections", "models", a) = "awaited" /\ Kind("collections", "probe", a) = "later"
             /\ ~a.test => Kind("collections", "models", a) = "models" /\ Kind("collections", "probe", a) = "probe"
  BY DEF Kind, Marks
<1>4. CASE CollectionsOpen \/ CollectionsClose \/ (\E u \in Urls : OnServerUrlChange(u)) \/ (\E m \in ui.form.models : PickModel(m)) \/ (\E v \in {"y", "wide"} : User([ui EXCEPT !.form.v = v]))
  <2>1. Sets(ui.loading, ui.submitting, ui.testing, ui.listing, ui.probing)
    BY <1>1, <1>4 DEF CollectionsOpen, CollectionsClose, OnServerUrlChange, PickModel, User
  <2>2. net' = net
    BY <1>4 DEF CollectionsOpen, CollectionsClose, OnServerUrlChange, PickModel, User
  <2> QED
    BY <2>1, <2>2 DEF CollectionsFlags
<1>5. CASE (\E p \in {"openai", "hash"} : ChooseProvider(p)) \/ OnRerankerChange("none")
  <2>1. Sets(ui.loading, ui.submitting, ui.testing, ui.listing, ui.probing)
    BY <1>1, <1>5 DEF ChooseProvider, OnRerankerChange, Ask, User
  <2>2. net' = net
    BY <1>5 DEF ChooseProvider, OnRerankerChange, Ask, User
  <2> QED
    BY <2>1, <2>2 DEF CollectionsFlags
<1>6. CASE ChooseProvider("local")
  <2>1. Sets(ui.loading, ui.submitting, ui.testing, ui.listing, ui.probing)
    BY <1>1, <1>6 DEF ChooseProvider, Ask, User
  <2>2. More("collections", net, net', "locals")
    BY <1>1, <1>2, <1>6, Asking DEF ChooseProvider, Ask, User
  <2> QED
    BY <2>1, <2>2 DEF CollectionsFlags, More
<1>7. CASE \E k \in {"local", "cross"} : OnRerankerChange(k)
  <2>1. Sets(ui.loading, ui.submitting, ui.testing, ui.listing, ui.probing)
    BY <1>1, <1>7 DEF OnRerankerChange, User, Ask
  <2>2. More("collections", net, net', "rerankers")
    BY <1>1, <1>2, <1>7, Asking DEF OnRerankerChange, User, Ask
  <2> QED
    BY <2>1, <2>2 DEF CollectionsFlags, More
<1>8. CASE \E p \in {1, 2} : CollectionsPage(p)
  <2>1. Sets(TRUE, ui.submitting, ui.testing, ui.listing, ui.probing)
    BY <1>1, <1>8 DEF CollectionsPage, Ask
  <2>2. More("collections", net, net', "list")
    BY <1>1, <1>2, <1>8, Asking DEF CollectionsPage, Ask
  <2> QED
    BY <2>1, <2>2 DEF CollectionsFlags, More
<1>9. CASE TestServer
  <2>1. Sets(ui.loading, ui.submitting, TRUE, ui.listing, ui.probing) /\ ~ui.testing
    BY <1>1, <1>9 DEF TestServer, Ask
  <2>2. More("collections", net, net', "check")
    BY <1>1, <1>2, <1>9, Asking DEF TestServer, Ask
  <2> QED
    BY <2>1, <2>2 DEF CollectionsFlags, More
<1>10. CASE LoadServerModels
  <2>1. Sets(ui.loading, ui.submitting, ui.testing, TRUE, ui.probing)
    BY <1>1, <1>10 DEF LoadServerModels, Ask
  <2>2. net' = Send(net, "models", [url |-> ui.form.url, test |-> FALSE]) /\ Room(1)
    BY <1>10 DEF LoadServerModels, Ask
  <2>3. Kind("collections", "models", [url |-> ui.form.url, test |-> FALSE]) = "models"
    BY <1>10 DEF Kind, Marks
  <2>4. More("collections", net, net', "models")
    BY <1>1, <2>2, <2>3, Asking
  <2> QED
    BY <2>1, <2>4 DEF CollectionsFlags, More
<1>11. CASE DetectDim
  <2>1. Sets(ui.loading, ui.submitting, ui.testing, ui.listing, TRUE)
    BY <1>1, <1>11 DEF DetectDim, Ask
  <2>2. net' = Send(net, "probe", [model |-> ui.form.model, test |-> FALSE]) /\ Room(1)
    BY <1>11 DEF DetectDim, Ask
  <2>3. Kind("collections", "probe", [model |-> ui.form.model, test |-> FALSE]) = "probe"
    BY <1>11 DEF Kind, Marks
  <2>4. More("collections", net, net', "probe")
    BY <1>1, <2>2, <2>3, Asking
  <2> QED
    BY <2>1, <2>4 DEF CollectionsFlags, More
<1>12. CASE CollectionsCreate
  <2>1. Sets(ui.loading, TRUE, ui.testing, ui.listing, ui.probing) /\ ~ui.submitting
    BY <1>1, <1>12 DEF CollectionsCreate, Ask
  <2>2. More("collections", net, net', "create")
    BY <1>1, <1>2, <1>12, Asking DEF CollectionsCreate, Ask
  <2> QED
    BY <2>1, <2>2 DEF CollectionsFlags, More
<1>13. CASE Busy(s) /\ net[s].k = "list" /\ CollectionsListed(s)
  <2>1. Sets(FALSE, ui.submitting, ui.testing, ui.listing, ui.probing)
    BY <1>1, <1>13 DEF CollectionsListed, Listed, Resume
  <2>2. Less("collections", net, net', "list")
    BY <1>1, <1>2, <1>13, Ending DEF CollectionsListed, Listed, Resume
  <2> QED
    BY <2>1, <2>2 DEF CollectionsFlags, Less
<1>14. CASE Busy(s) /\ net[s].k = "check" /\ ServerTested(s) /\ Ok(s)
  <2>1. Sets(ui.loading, ui.submitting, ui.testing, TRUE, ui.probing)
    BY <1>1, <1>14 DEF ServerTested, Resume
  <2>2. net' = Send(Rest(s), "models", [url |-> net[s].a.url, test |-> TRUE])
    BY <1>14 DEF ServerTested, Resume
  <2>3. Kind("collections", "models", [url |-> net[s].a.url, test |-> TRUE]) = "awaited"
    BY <1>14 DEF Kind, Marks
  <2>4. Busy(s) /\ Kind("collections", net[s].k, net[s].a) = "check"
    BY <1>2, <1>14
  <2>5. Swap("collections", net, net', "check", "awaited")
    BY <1>1, <2>2, <2>3, <2>4, Chaining
  <2> QED
    BY <2>1, <2>5 DEF CollectionsFlags, Swap
<1>15. CASE Busy(s) /\ net[s].k = "check" /\ ServerTested(s) /\ ~Ok(s)
  <2>1. Sets(ui.loading, ui.submitting, FALSE, ui.listing, ui.probing)
    BY <1>1, <1>15 DEF ServerTested, Resume
  <2>2. Less("collections", net, net', "check")
    BY <1>1, <1>2, <1>15, Ending DEF ServerTested, Resume
  <2> QED
    BY <2>1, <2>2 DEF CollectionsFlags, Less
<1>16. CASE Busy(s) /\ net[s].k = "models" /\ ModelsLoaded(s) /\ ~net[s].a.test
  <2>1. Sets(ui.loading, ui.submitting, ui.testing, FALSE, ui.probing)
    BY <1>1, <1>16 DEF ModelsLoaded, Resume
  <2>2. Less("collections", net, net', "models")
    BY <1>1, <1>3, <1>16, Ending DEF ModelsLoaded, Resume
  <2> QED
    BY <2>1, <2>2 DEF CollectionsFlags, Less
<1>17. CASE Busy(s) /\ net[s].k = "models" /\ ModelsLoaded(s) /\ net[s].a.test /\ Ok(s)
  <2>1. Sets(ui.loading, ui.submitting, ui.testing, FALSE, ui.probing)
    BY <1>1, <1>17 DEF ModelsLoaded, Resume
  <2>2. net' = Send(Rest(s), "probe", [model |-> Model(net[s].a.url, 1), test |-> TRUE])
    BY <1>17 DEF ModelsLoaded, Resume
  <2>3. Kind("collections", "probe", [model |-> Model(net[s].a.url, 1), test |-> TRUE]) = "later"
    BY <1>17 DEF Kind, Marks
  <2>4. Busy(s) /\ Kind("collections", net[s].k, net[s].a) = "awaited"
    BY <1>3, <1>17
  <2>5. Swap("collections", net, net', "awaited", "later")
    BY <1>1, <2>2, <2>3, <2>4, Chaining
  <2> QED
    BY <2>1, <2>5 DEF CollectionsFlags, Swap
<1>18. CASE Busy(s) /\ net[s].k = "models" /\ ModelsLoaded(s) /\ net[s].a.test /\ ~Ok(s)
  <2>1. Sets(ui.loading, ui.submitting, FALSE, FALSE, ui.probing)
    BY <1>1, <1>18 DEF ModelsLoaded, Resume
  <2>2. Less("collections", net, net', "awaited")
    BY <1>1, <1>3, <1>18, Ending DEF ModelsLoaded, Resume
  <2> QED
    BY <2>1, <2>2 DEF CollectionsFlags, Less
<1>19. CASE Busy(s) /\ net[s].k = "probe" /\ DimDetected(s) /\ net[s].a.test
  <2>1. Sets(ui.loading, ui.submitting, FALSE, ui.listing, ui.probing)
    BY <1>1, <1>19 DEF DimDetected, Resume
  <2>2. Less("collections", net, net', "later")
    BY <1>1, <1>3, <1>19, Ending DEF DimDetected, Resume
  <2> QED
    BY <2>1, <2>2 DEF CollectionsFlags, Less
<1>20. CASE Busy(s) /\ net[s].k = "probe" /\ DimDetected(s) /\ ~net[s].a.test
  <2>1. Sets(ui.loading, ui.submitting, ui.testing, ui.listing, FALSE)
    BY <1>1, <1>20 DEF DimDetected, Resume
  <2>2. Less("collections", net, net', "probe")
    BY <1>1, <1>3, <1>20, Ending DEF DimDetected, Resume
  <2> QED
    BY <2>1, <2>2 DEF CollectionsFlags, Less
<1>21. CASE Busy(s) /\ net[s].k = "locals" /\ LocalsLoaded(s)
  <2>1. Sets(ui.loading, ui.submitting, ui.testing, ui.listing, ui.probing)
    BY <1>1, <1>21 DEF LocalsLoaded, Resume
  <2>2. Less("collections", net, net', "locals")
    BY <1>1, <1>2, <1>21, Ending DEF LocalsLoaded, Resume
  <2> QED
    BY <2>1, <2>2 DEF CollectionsFlags, Less
<1>22. CASE Busy(s) /\ net[s].k = "rerankers" /\ RerankersLoaded(s)
  <2>1. Sets(ui.loading, ui.submitting, ui.testing, ui.listing, ui.probing)
    BY <1>1, <1>22 DEF RerankersLoaded, Resume
  <2>2. Less("collections", net, net', "rerankers")
    BY <1>1, <1>2, <1>22, Ending DEF RerankersLoaded, Resume
  <2> QED
    BY <2>1, <2>2 DEF CollectionsFlags, Less
<1>23. CASE Busy(s) /\ net[s].k = "create" /\ CollectionsCreated(s) /\ Ok(s)
  <2>1. Sets(TRUE, FALSE, ui.testing, ui.listing, ui.probing)
    BY <1>1, <1>23 DEF CollectionsCreated, Resume
  <2>2. Swap("collections", net, net', "create", "list")
    BY <1>1, <1>2, <1>23, Chaining DEF CollectionsCreated, Resume
  <2> QED
    BY <2>1, <2>2 DEF CollectionsFlags, Swap
<1>24. CASE Busy(s) /\ net[s].k = "create" /\ CollectionsCreated(s) /\ ~Ok(s)
  <2>1. Sets(ui.loading, FALSE, ui.testing, ui.listing, ui.probing)
    BY <1>1, <1>24 DEF CollectionsCreated, Resume
  <2>2. Less("collections", net, net', "create")
    BY <1>1, <1>2, <1>24, Ending DEF CollectionsCreated, Resume
  <2> QED
    BY <2>1, <2>2 DEF CollectionsFlags, Less
<1> QED
  BY <1>4, <1>5, <1>6, <1>7, <1>8, <1>9, <1>10, <1>11, <1>12, <1>13, <1>14, <1>15, <1>16, <1>17, <1>18, <1>19,
    <1>20, <1>21, <1>22, <1>23, <1>24
    DEF CollectionsUser, CollectionsResume

LEMMA CollectionsFlagPage ==
    ASSUME screen = "collections"
    PROVE  /\ Init => CollectionsFlags
           /\ CollectionsFlags /\ [Next]_vars => CollectionsFlags'
           /\ CollectionsFlags => SpinnersWaited /\ OneSubmitAtATime
<1>1. ASSUME Init PROVE CollectionsFlags
  <2>1. (\E a \in BOOLEAN : ui = CollectionsUi(a)) /\ net = Send(NoCalls, "list", 1)
    BY <1>1, Zenon DEF Init
  <2>2. DOMAIN ui = {"admin", "rows", "page", "loading", "open", "form", "submitting", "testing", "listing", "probing", "at"} /\ ui.loading = TRUE /\ ui.submitting = FALSE /\ ui.testing = FALSE /\ ui.listing = FALSE /\ ui.probing = FALSE
    BY <2>1 DEF CollectionsUi
  <2>3. Kind("collections", "list", 1) = "list"
    BY DEF Kind, Marks
  <2>4. More("collections", NoCalls, net, "list")
    BY <2>1, <2>3, OneYet
  <2> QED
    BY <2>2, <2>4, NoneYet DEF CollectionsFlags, More
<1>2. ASSUME CollectionsFlags, [Next]_vars PROVE CollectionsFlags'
  <2>1. CASE \E s \in Slots : Serve(s) \/ Fault(s)
    <3>1. CallsIn(net)
      BY <1>2 DEF CollectionsFlags
    <3>2. ui' = ui /\ Same("collections", net, net')
      BY <2>1, <3>1, ServerFlags
    <3> QED
      BY <1>2, <3>2 DEF CollectionsFlags, Same
  <2>2. ASSUME NEW s \in Slots, Act \/ Interval \/ Elsewhere \/ Continue(s)
        PROVE  CollectionsFlags'
    <3>1. CollectionsUser \/ (Busy(s) /\ CollectionsResume(s))
      BY <2>2 DEF Act, Interval, Elsewhere, Continue
    <3> QED
      BY <1>2, <3>1, CollectionsFlagStep
  <2>3. CASE UNCHANGED vars
    BY <1>2, <2>3 DEF CollectionsFlags, vars
  <2> QED
    BY <1>2, <2>1, <2>2, <2>3, SomeSlot DEF Next
<1>3. ASSUME CollectionsFlags PROVE SpinnersWaited /\ OneSubmitAtATime
  <2>1. /\ Spinners = {<<ui.loading, {"list"}>>,
                        <<ui.submitting, {"create"}>>,
                        <<ui.testing, {"check", "models", "probe"}>>,
                        <<ui.listing, {"models"}>>,
                        <<ui.probing, {"probe"}>>}
        /\ Submits = {{"create"}, {"check"}}
    BY DEF Spinners, Submits
  <2>2. ui.loading => InFlight({"list"}) # {}
    <3>1. \A k, a : Kind("collections", k, a) \in {"list"} => k \in {"list"}
      BY DEF Kind, Marks
    <3> QED
      BY <1>3, <3>1, WaitsIsInFlight DEF CollectionsFlags
  <2>3. ui.submitting => InFlight({"create"}) # {}
    <3>1. \A k, a : Kind("collections", k, a) \in {"create"} => k \in {"create"}
      BY DEF Kind, Marks
    <3> QED
      BY <1>3, <3>1, WaitsIsInFlight DEF CollectionsFlags
  <2>4. ui.testing => InFlight({"check", "models", "probe"}) # {}
    <3>1. \A k, a : Kind("collections", k, a) \in {"check", "awaited", "later"} => k \in {"check", "models", "probe"}
      BY DEF Kind, Marks
    <3> QED
      BY <1>3, <3>1, WaitsIsInFlight DEF CollectionsFlags
  <2>5. ui.listing => InFlight({"models"}) # {}
    <3>1. \A k, a : Kind("collections", k, a) \in {"models", "awaited"} => k \in {"models"}
      BY DEF Kind, Marks
    <3> QED
      BY <1>3, <3>1, WaitsIsInFlight DEF CollectionsFlags
  <2>6. ui.probing => InFlight({"probe"}) # {}
    <3>1. \A k, a : Kind("collections", k, a) \in {"probe"} => k \in {"probe"}
      BY DEF Kind, Marks
    <3> QED
      BY <1>3, <3>1, WaitsIsInFlight DEF CollectionsFlags
  <2>7. Cardinality(InFlight({"create"})) <= 1
    <3>1. \A k, a : k \in {"create"} => Kind("collections", k, a) \in {"create"}
      BY DEF Kind, Marks
    <3> QED
      BY <1>3, <3>1, AloneIsOne DEF CollectionsFlags
  <2>8. Cardinality(InFlight({"check"})) <= 1
    <3>1. \A k, a : k \in {"check"} => Kind("collections", k, a) \in {"check", "awaited", "later"}
      BY DEF Kind, Marks
    <3> QED
      BY <1>3, <3>1, AloneIsOne DEF CollectionsFlags
  <2> QED
    BY <2>1, <2>2, <2>3, <2>4, <2>5, <2>6, <2>7, <2>8 DEF SpinnersWaited, OneSubmitAtATime
<1> QED
  BY <1>1, <1>2, <1>3

----------------------------------------------------------------------------
(* A collection: the chains of a document and those of a whole collection. *)

CollectionFlags ==
    /\ CallsIn(net) /\ DOMAIN ui = {"admin", "rows", "loading", "progress", "reindexing", "cfg", "confirm", "rerank", "rerankers", "gone", "del"}
    /\ ui.loading => Waits("collection", net, {"list", "doc", "awaited"})
    /\ ui.progress => Waits("collection", net, {"upload", "doc", "awaited", "status", "later"})
    /\ ui.reindexing <=> Waits("collection", net, {"cfg", "awaited", "later"})
    /\ Alone("collection", net, {"cfg", "awaited", "later"})
    /\ ui.confirm # None => ui.confirm.k \in {"delete", "reindex"}
    /\ ui.del = "busy" => Waits("collection", net, {"destroy"})

LEMMA CollectionFlagStep ==
    ASSUME CollectionFlags, NEW s \in Slots, CollectionUser \/ CollectionWorld \/ (Busy(s) /\ CollectionResume(s))
    PROVE  CollectionFlags'
<1> DEFINE Sets(v0, v1, v2, v3, v4) == DOMAIN ui' = DOMAIN ui /\ ui'.loading = v0 /\ ui'.progress = v1 /\ ui'.reindexing = v2 /\ ui'.confirm = v3 /\ ui'.del = v4
<1>1. CallsIn(net) /\ DOMAIN ui = {"admin", "rows", "loading", "progress", "reindexing", "cfg", "confirm", "rerank", "rerankers", "gone", "del"}
  BY DEF CollectionFlags
<1>2. \A a : /\ Kind("collection", "upload", a) = "upload"
             /\ Kind("collection", "reindex", a) = "reindex"
             /\ Kind("collection", "cfg", a) = "cfg"
             /\ Kind("collection", "delete", a) = "delete"
             /\ Kind("collection", "patch", a) = "patch"
             /\ Kind("collection", "rerankers", a) = "rerankers"
             /\ Kind("collection", "destroy", a) = "destroy"
  BY DEF Kind, Marks
<1>3. \A a : /\ a.of = "no" => Kind("collection", "list", a) = "list"
             /\ a.of = "cfg" => Kind("collection", "list", a) = "awaited" /\ Kind("collection", "status", a) = "later"
             /\ (a.of # "no" /\ a.of # "cfg") => Kind("collection", "list", a) = "doc"
             /\ a.of # "cfg" => Kind("collection", "status", a) = "status"
  BY DEF Kind, Marks
<1>4. ui.confirm # None => ui.confirm.k \in {"delete", "reindex"}
  BY DEF CollectionFlags
<1>5. CASE CollectionOpenConfig
  <2>1. Sets(ui.loading, ui.progress, ui.reindexing, ui.confirm, ui.del)
    BY <1>1, <1>5 DEF CollectionOpenConfig, User
  <2>2. net' = net
    BY <1>5 DEF CollectionOpenConfig, User
  <2> QED
    BY <2>1, <2>2 DEF CollectionFlags
<1>6. CASE CollectionWorld
  <2>1. Sets(ui.loading, ui.progress, ui.reindexing, ui.confirm, ui.del)
    BY <1>1, <1>6 DEF CollectionWorld, World
  <2>2. net' = net
    BY <1>6 DEF CollectionWorld, World
  <2> QED
    BY <2>1, <2>2 DEF CollectionFlags
<1>7. CASE CollectionClose
  <2> DEFINE none == ""
  <2>1. none # "busy"
    BY Zenon
  <2>2. net' = net /\ (ui' = [ui EXCEPT !.cfg = FALSE] \/ ui' = [ui EXCEPT !.confirm = None] \/ ui' = [ui EXCEPT !.del = none])
    BY <1>7, Zenon DEF CollectionClose, User
  <2> HIDE DEF none
  <2>3. Sets(ui.loading, ui.progress, ui.reindexing, ui'.confirm, ui'.del) /\ (ui'.confirm # None => ui'.confirm = ui.confirm) /\ (ui'.del = "busy" => ui.del = "busy")
    BY <1>1, <2>1, <2>2
  <2> QED
    BY <2>2, <2>3 DEF CollectionFlags
<1>8. CASE \E r \in CollectionTable, k \in {"delete", "reindex"} : CollectionConfirm(r, k)
  <2>1. Sets(ui.loading, ui.progress, ui.reindexing, ui'.confirm, ui.del) /\ ui'.confirm.k \in {"delete", "reindex"}
    BY <1>1, <1>8 DEF CollectionConfirm, User
  <2>2. net' = net
    BY <1>8 DEF CollectionConfirm, User
  <2> QED
    BY <2>1, <2>2 DEF CollectionFlags
<1>9. CASE (~CollectionCovered /\ User([ui EXCEPT !.del = "open"])) \/ (ui.del = "open" /\ User([ui EXCEPT !.del = "typed"]))
  <2>1. Sets(ui.loading, ui.progress, ui.reindexing, ui.confirm, ui'.del) /\ ui'.del # "busy"
    BY <1>1, <1>9 DEF User
  <2>2. net' = net
    BY <1>9 DEF User
  <2> QED
    BY <2>1, <2>2 DEF CollectionFlags
<1>10. CASE ui.del = "typed" /\ Ask([ui EXCEPT !.del = "busy"], "destroy", None)
  <2>1. Sets(ui.loading, ui.progress, ui.reindexing, ui.confirm, "busy")
    BY <1>1, <1>10 DEF Ask
  <2>2. More("collection", net, net', "destroy")
    BY <1>1, <1>2, <1>10, Asking DEF Ask
  <2> QED
    BY <2>1, <2>2 DEF CollectionFlags, More
<1>11. CASE CollectionUpload
  <2>1. Sets(ui.loading, TRUE, ui.reindexing, ui.confirm, ui.del)
    BY <1>1, <1>11 DEF CollectionUpload, Ask
  <2>2. More("collection", net, net', "upload")
    BY <1>1, <1>2, <1>11, Asking DEF CollectionUpload, Ask
  <2> QED
    BY <2>1, <2>2 DEF CollectionFlags, More
<1>12. CASE CollectionRunConfirm /\ ui.confirm.k = "delete"
  <2>1. Sets(ui.loading, ui.progress, ui.reindexing, None, ui.del)
    BY <1>1, <1>12 DEF CollectionRunConfirm, Ask
  <2>2. net' = Send(net, "delete", [id |-> ui.confirm.id]) /\ Room(1)
    BY <1>12 DEF CollectionRunConfirm, Ask
  <2>3. Kind("collection", "delete", [id |-> ui.confirm.id]) = "delete"
    BY <1>12 DEF Kind, Marks
  <2>4. More("collection", net, net', "delete")
    BY <1>1, <2>2, <2>3, Asking
  <2> QED
    BY <2>1, <2>4 DEF CollectionFlags, More
<1>13. CASE CollectionRunConfirm /\ ui.confirm.k = "reindex"
  <2>1. Sets(ui.loading, ui.progress, ui.reindexing, None, ui.del)
    BY <1>1, <1>13 DEF CollectionRunConfirm, Ask
  <2>2. net' = Send(net, "reindex", [id |-> ui.confirm.id]) /\ Room(1)
    BY <1>13 DEF CollectionRunConfirm, Ask
  <2>3. Kind("collection", "reindex", [id |-> ui.confirm.id]) = "reindex"
    BY <1>13 DEF Kind, Marks
  <2>4. More("collection", net, net', "reindex")
    BY <1>1, <2>2, <2>3, Asking
  <2> QED
    BY <2>1, <2>4 DEF CollectionFlags, More
<1>14. CASE CollectionReindex
  <2>1. Sets(ui.loading, ui.progress, TRUE, ui.confirm, ui.del) /\ ~ui.reindexing
    BY <1>1, <1>14 DEF CollectionReindex, Ask
  <2>2. More("collection", net, net', "cfg")
    BY <1>1, <1>2, <1>14, Asking DEF CollectionReindex, Ask
  <2> QED
    BY <2>1, <2>2 DEF CollectionFlags, More
<1>15. CASE \E v \in {"none", "local"} : CollectionReranker(v)
  <2>1. Sets(ui.loading, ui.progress, ui.reindexing, ui.confirm, ui.del)
    BY <1>1, <1>15 DEF CollectionReranker, Ask
  <2>2. More("collection", net, net', "patch")
    BY <1>1, <1>2, <1>15, Asking DEF CollectionReranker, Ask
  <2> QED
    BY <2>1, <2>2 DEF CollectionFlags, More
<1>16. CASE Busy(s) /\ net[s].k = "list" /\ CollectionListed(s) /\ net[s].a.of = "no"
  <2>1. Sets(FALSE, ui.progress, ui.reindexing, ui.confirm, ui.del)
    BY <1>1, <1>16 DEF CollectionListed, Resume, CollectionFinish, CollectionRefresh
  <2>2. Less("collection", net, net', "list")
    BY <1>1, <1>3, <1>16, Ending DEF CollectionListed, Resume, CollectionFinish, CollectionRefresh
  <2> QED
    BY <2>1, <2>2 DEF CollectionFlags, Less
<1>17. CASE Busy(s) /\ net[s].k = "list" /\ CollectionListed(s) /\ net[s].a.of = "cfg" /\ net[s].a.id = "empty"
  <2>1. Sets(TRUE, FALSE, FALSE, ui.confirm, ui.del)
    BY <1>1, <1>17 DEF CollectionListed, Resume, CollectionFinish, CollectionRefresh
  <2>2. net' = Send(Rest(s), "list", CollectionAlone)
    BY <1>17 DEF CollectionListed, Resume, CollectionFinish, CollectionRefresh
  <2>3. Kind("collection", "list", CollectionAlone) = "list"
    BY <1>17 DEF Kind, Marks, CollectionAlone, CollectionChain
  <2>4. Busy(s) /\ Kind("collection", net[s].k, net[s].a) = "awaited"
    BY <1>3, <1>17
  <2>5. Swap("collection", net, net', "awaited", "list")
    BY <1>1, <2>2, <2>3, <2>4, Chaining
  <2> QED
    BY <2>1, <2>5 DEF CollectionFlags, Swap
<1>18. CASE Busy(s) /\ net[s].k = "list" /\ CollectionListed(s) /\ net[s].a.of = "cfg" /\ net[s].a.id # "empty"
  <2>1. Sets(FALSE, TRUE, ui.reindexing, ui.confirm, ui.del)
    BY <1>1, <1>18 DEF CollectionListed, Resume, CollectionFinish, CollectionRefresh
  <2>2. net' = Send(Rest(s), "status", [of |-> net[s].a.of, id |-> net[s].a.id, n |-> 1])
    BY <1>18 DEF CollectionListed, Resume, CollectionFinish, CollectionRefresh
  <2>3. Kind("collection", "status", [of |-> net[s].a.of, id |-> net[s].a.id, n |-> 1]) = "later"
    BY <1>18 DEF Kind, Marks
  <2>4. Busy(s) /\ Kind("collection", net[s].k, net[s].a) = "awaited"
    BY <1>3, <1>18
  <2>5. Swap("collection", net, net', "awaited", "later")
    BY <1>1, <2>2, <2>3, <2>4, Chaining
  <2> QED
    BY <2>1, <2>5 DEF CollectionFlags, Swap
<1>19. CASE Busy(s) /\ net[s].k = "list" /\ CollectionListed(s) /\ net[s].a.of \notin {"no", "cfg"} /\ net[s].a.id = "empty"
  <2>1. Sets(TRUE, FALSE, (ui.reindexing /\ TRUE), ui.confirm, ui.del)
    BY <1>1, <1>19 DEF CollectionListed, Resume, CollectionFinish, CollectionRefresh
  <2>2. net' = Send(Rest(s), "list", CollectionAlone)
    BY <1>19 DEF CollectionListed, Resume, CollectionFinish, CollectionRefresh
  <2>3. Kind("collection", "list", CollectionAlone) = "list"
    BY <1>19 DEF Kind, Marks, CollectionAlone, CollectionChain
  <2>4. Busy(s) /\ Kind("collection", net[s].k, net[s].a) = "doc"
    BY <1>3, <1>19
  <2>5. Swap("collection", net, net', "doc", "list")
    BY <1>1, <2>2, <2>3, <2>4, Chaining
  <2> QED
    BY <2>1, <2>5 DEF CollectionFlags, Swap
<1>20. CASE Busy(s) /\ net[s].k = "list" /\ CollectionListed(s) /\ net[s].a.of \notin {"no", "cfg"} /\ net[s].a.id # "empty"
  <2>1. Sets(FALSE, TRUE, ui.reindexing, ui.confirm, ui.del)
    BY <1>1, <1>20 DEF CollectionListed, Resume, CollectionFinish, CollectionRefresh
  <2>2. net' = Send(Rest(s), "status", [of |-> net[s].a.of, id |-> net[s].a.id, n |-> 1])
    BY <1>20 DEF CollectionListed, Resume, CollectionFinish, CollectionRefresh
  <2>3. Kind("collection", "status", [of |-> net[s].a.of, id |-> net[s].a.id, n |-> 1]) = "status"
    BY <1>20 DEF Kind, Marks
  <2>4. Busy(s) /\ Kind("collection", net[s].k, net[s].a) = "doc"
    BY <1>3, <1>20
  <2>5. Swap("collection", net, net', "doc", "status")
    BY <1>1, <2>2, <2>3, <2>4, Chaining
  <2> QED
    BY <2>1, <2>5 DEF CollectionFlags, Swap
<1>21. CASE Busy(s) /\ net[s].k = "upload" /\ CollectionUploaded(s) /\ Ok(s)
  <2>1. Sets(TRUE, ui.progress, ui.reindexing, ui.confirm, ui.del)
    BY <1>1, <1>21 DEF CollectionUploaded, CollectionRefresh, CollectionFinish, Resume
  <2>2. net' = Send(Rest(s), "list", CollectionChain("doc", net[s].r))
    BY <1>21 DEF CollectionUploaded, CollectionRefresh, CollectionFinish, Resume
  <2>3. Kind("collection", "list", CollectionChain("doc", net[s].r)) = "doc"
    BY <1>21 DEF Kind, Marks, CollectionChain
  <2>4. Busy(s) /\ Kind("collection", net[s].k, net[s].a) = "upload"
    BY <1>2, <1>21
  <2>5. Swap("collection", net, net', "upload", "doc")
    BY <1>1, <2>2, <2>3, <2>4, Chaining
  <2> QED
    BY <2>1, <2>5 DEF CollectionFlags, Swap
<1>22. CASE Busy(s) /\ net[s].k = "upload" /\ CollectionUploaded(s) /\ ~Ok(s)
  <2>1. Sets(TRUE, FALSE, (ui.reindexing /\ TRUE), ui.confirm, ui.del)
    BY <1>1, <1>22 DEF CollectionUploaded, CollectionRefresh, CollectionFinish, Resume
  <2>2. net' = Send(Rest(s), "list", CollectionAlone)
    BY <1>22 DEF CollectionUploaded, CollectionRefresh, CollectionFinish, Resume
  <2>3. Kind("collection", "list", CollectionAlone) = "list"
    BY <1>22 DEF Kind, Marks, CollectionAlone, CollectionChain
  <2>4. Busy(s) /\ Kind("collection", net[s].k, net[s].a) = "upload"
    BY <1>2, <1>22
  <2>5. Swap("collection", net, net', "upload", "list")
    BY <1>1, <2>2, <2>3, <2>4, Chaining
  <2> QED
    BY <2>1, <2>5 DEF CollectionFlags, Swap
<1>23. CASE Busy(s) /\ net[s].k = "reindex" /\ CollectionReindexed(s) /\ Ok(s)
  <2>1. Sets(TRUE, TRUE, ui.reindexing, ui.confirm, ui.del)
    BY <1>1, <1>23 DEF CollectionReindexed, CollectionRefresh, CollectionFinish, Resume
  <2>2. net' = Send(Rest(s), "list", CollectionChain("doc", net[s].a.id))
    BY <1>23 DEF CollectionReindexed, CollectionRefresh, CollectionFinish, Resume
  <2>3. Kind("collection", "list", CollectionChain("doc", net[s].a.id)) = "doc"
    BY <1>23 DEF Kind, Marks, CollectionChain
  <2>4. Busy(s) /\ Kind("collection", net[s].k, net[s].a) = "reindex"
    BY <1>2, <1>23
  <2>5. Swap("collection", net, net', "reindex", "doc")
    BY <1>1, <2>2, <2>3, <2>4, Chaining
  <2> QED
    BY <2>1, <2>5 DEF CollectionFlags, Swap
<1>24. CASE Busy(s) /\ net[s].k = "reindex" /\ CollectionReindexed(s) /\ ~Ok(s)
  <2>1. Sets(TRUE, FALSE, (ui.reindexing /\ TRUE), ui.confirm, ui.del)
    BY <1>1, <1>24 DEF CollectionReindexed, CollectionRefresh, CollectionFinish, Resume
  <2>2. net' = Send(Rest(s), "list", CollectionAlone)
    BY <1>24 DEF CollectionReindexed, CollectionRefresh, CollectionFinish, Resume
  <2>3. Kind("collection", "list", CollectionAlone) = "list"
    BY <1>24 DEF Kind, Marks, CollectionAlone, CollectionChain
  <2>4. Busy(s) /\ Kind("collection", net[s].k, net[s].a) = "reindex"
    BY <1>2, <1>24
  <2>5. Swap("collection", net, net', "reindex", "list")
    BY <1>1, <2>2, <2>3, <2>4, Chaining
  <2> QED
    BY <2>1, <2>5 DEF CollectionFlags, Swap
<1>25. CASE Busy(s) /\ net[s].k = "cfg" /\ CollectionConfigured(s) /\ Ok(s)
  <2>1. Sets(TRUE, ui.progress, ui.reindexing, ui.confirm, ui.del)
    BY <1>1, <1>25 DEF CollectionConfigured, CollectionRefresh, CollectionFinish, Resume
  <2>2. net' = Send(Rest(s), "list", CollectionChain("cfg", net[s].r))
    BY <1>25 DEF CollectionConfigured, CollectionRefresh, CollectionFinish, Resume
  <2>3. Kind("collection", "list", CollectionChain("cfg", net[s].r)) = "awaited"
    BY <1>25 DEF Kind, Marks, CollectionChain
  <2>4. Busy(s) /\ Kind("collection", net[s].k, net[s].a) = "cfg"
    BY <1>2, <1>25
  <2>5. Swap("collection", net, net', "cfg", "awaited")
    BY <1>1, <2>2, <2>3, <2>4, Chaining
  <2> QED
    BY <2>1, <2>5 DEF CollectionFlags, Swap
<1>26. CASE Busy(s) /\ net[s].k = "cfg" /\ CollectionConfigured(s) /\ ~Ok(s)
  <2>1. Sets(TRUE, FALSE, FALSE, ui.confirm, ui.del)
    BY <1>1, <1>26 DEF CollectionConfigured, CollectionRefresh, CollectionFinish, Resume
  <2>2. net' = Send(Rest(s), "list", CollectionAlone)
    BY <1>26 DEF CollectionConfigured, CollectionRefresh, CollectionFinish, Resume
  <2>3. Kind("collection", "list", CollectionAlone) = "list"
    BY <1>26 DEF Kind, Marks, CollectionAlone, CollectionChain
  <2>4. Busy(s) /\ Kind("collection", net[s].k, net[s].a) = "cfg"
    BY <1>2, <1>26
  <2>5. Swap("collection", net, net', "cfg", "list")
    BY <1>1, <2>2, <2>3, <2>4, Chaining
  <2> QED
    BY <2>1, <2>5 DEF CollectionFlags, Swap
<1>27. CASE Busy(s) /\ net[s].k = "status" /\ CollectionPolled(s) /\ (~Ok(s) \/ net[s].r \/ PollGivesUp(net[s].a.n)) /\ net[s].a.of = "cfg"
  <2>1. Sets(TRUE, FALSE, FALSE, ui.confirm, ui.del)
    BY <1>1, <1>27 DEF CollectionPolled, CollectionFinish, Resume, CollectionRefresh
  <2>2. net' = Send(Rest(s), "list", CollectionAlone)
    BY <1>27 DEF CollectionPolled, CollectionFinish, Resume, CollectionRefresh
  <2>3. Kind("collection", "list", CollectionAlone) = "list"
    BY <1>27 DEF Kind, Marks, CollectionAlone, CollectionChain
  <2>4. Busy(s) /\ Kind("collection", net[s].k, net[s].a) = "later"
    BY <1>3, <1>27
  <2>5. Swap("collection", net, net', "later", "list")
    BY <1>1, <2>2, <2>3, <2>4, Chaining
  <2> QED
    BY <2>1, <2>5 DEF CollectionFlags, Swap
<1>28. CASE Busy(s) /\ net[s].k = "status" /\ CollectionPolled(s) /\ (~Ok(s) \/ net[s].r \/ PollGivesUp(net[s].a.n)) /\ net[s].a.of # "cfg"
  <2>1. Sets(TRUE, FALSE, (ui.reindexing /\ TRUE), ui.confirm, ui.del)
    BY <1>1, <1>28 DEF CollectionPolled, CollectionFinish, Resume, CollectionRefresh
  <2>2. net' = Send(Rest(s), "list", CollectionAlone)
    BY <1>28 DEF CollectionPolled, CollectionFinish, Resume, CollectionRefresh
  <2>3. Kind("collection", "list", CollectionAlone) = "list"
    BY <1>28 DEF Kind, Marks, CollectionAlone, CollectionChain
  <2>4. Busy(s) /\ Kind("collection", net[s].k, net[s].a) = "status"
    BY <1>3, <1>28
  <2>5. Swap("collection", net, net', "status", "list")
    BY <1>1, <2>2, <2>3, <2>4, Chaining
  <2> QED
    BY <2>1, <2>5 DEF CollectionFlags, Swap
<1>29. CASE Busy(s) /\ net[s].k = "status" /\ CollectionPolled(s) /\ ~(~Ok(s) \/ net[s].r \/ PollGivesUp(net[s].a.n)) /\ net[s].a.of = "cfg"
  <2>1. Sets(ui.loading, ui.progress, ui.reindexing, ui.confirm, ui.del)
    BY <1>1, <1>29 DEF CollectionPolled, CollectionFinish, Resume, CollectionRefresh
  <2>2. net' = Send(Rest(s), "status", [of |-> net[s].a.of, id |-> net[s].a.id, n |-> IF net[s].a.n = MaxPolls THEN net[s].a.n ELSE net[s].a.n + 1])
    BY <1>29 DEF CollectionPolled, CollectionFinish, Resume, CollectionRefresh
  <2>3. Kind("collection", "status", [of |-> net[s].a.of, id |-> net[s].a.id, n |-> IF net[s].a.n = MaxPolls THEN net[s].a.n ELSE net[s].a.n + 1]) = "later"
    BY <1>29 DEF Kind, Marks
  <2>4. Busy(s) /\ Kind("collection", net[s].k, net[s].a) = "later"
    BY <1>3, <1>29
  <2>5. Swap("collection", net, net', "later", "later")
    BY <1>1, <2>2, <2>3, <2>4, Chaining
  <2> QED
    BY <2>1, <2>5 DEF CollectionFlags, Swap
<1>30. CASE Busy(s) /\ net[s].k = "status" /\ CollectionPolled(s) /\ ~(~Ok(s) \/ net[s].r \/ PollGivesUp(net[s].a.n)) /\ net[s].a.of # "cfg"
  <2>1. Sets(ui.loading, ui.progress, ui.reindexing, ui.confirm, ui.del)
    BY <1>1, <1>30 DEF CollectionPolled, CollectionFinish, Resume, CollectionRefresh
  <2>2. net' = Send(Rest(s), "status", [of |-> net[s].a.of, id |-> net[s].a.id, n |-> IF net[s].a.n = MaxPolls THEN net[s].a.n ELSE net[s].a.n + 1])
    BY <1>30 DEF CollectionPolled, CollectionFinish, Resume, CollectionRefresh
  <2>3. Kind("collection", "status", [of |-> net[s].a.of, id |-> net[s].a.id, n |-> IF net[s].a.n = MaxPolls THEN net[s].a.n ELSE net[s].a.n + 1]) = "status"
    BY <1>30 DEF Kind, Marks
  <2>4. Busy(s) /\ Kind("collection", net[s].k, net[s].a) = "status"
    BY <1>3, <1>30
  <2>5. Swap("collection", net, net', "status", "status")
    BY <1>1, <2>2, <2>3, <2>4, Chaining
  <2> QED
    BY <2>1, <2>5 DEF CollectionFlags, Swap
<1>31. CASE Busy(s) /\ net[s].k = "delete" /\ CollectionDeleted(s) /\ Ok(s)
  <2>1. Sets(TRUE, ui.progress, ui.reindexing, ui.confirm, ui.del)
    BY <1>1, <1>31 DEF CollectionDeleted, CollectionRefresh, Resume
  <2>2. net' = Send(Rest(s), "list", CollectionAlone)
    BY <1>31 DEF CollectionDeleted, CollectionRefresh, Resume
  <2>3. Kind("collection", "list", CollectionAlone) = "list"
    BY <1>31 DEF Kind, Marks, CollectionAlone, CollectionChain
  <2>4. Busy(s) /\ Kind("collection", net[s].k, net[s].a) = "delete"
    BY <1>2, <1>31
  <2>5. Swap("collection", net, net', "delete", "list")
    BY <1>1, <2>2, <2>3, <2>4, Chaining
  <2> QED
    BY <2>1, <2>5 DEF CollectionFlags, Swap
<1>32. CASE Busy(s) /\ net[s].k = "delete" /\ CollectionDeleted(s) /\ ~Ok(s)
  <2>1. Sets(ui.loading, ui.progress, ui.reindexing, ui.confirm, ui.del)
    BY <1>1, <1>32 DEF CollectionDeleted, CollectionRefresh, Resume
  <2>2. Less("collection", net, net', "delete")
    BY <1>1, <1>2, <1>32, Ending DEF CollectionDeleted, CollectionRefresh, Resume
  <2> QED
    BY <2>1, <2>2 DEF CollectionFlags, Less
<1>33. CASE Busy(s) /\ net[s].k = "patch" /\ CollectionReranked(s) /\ (~Ok(s) \/ net[s].a.v = "none")
  <2>1. Sets(ui.loading, ui.progress, ui.reindexing, ui.confirm, ui.del)
    BY <1>1, <1>33 DEF CollectionReranked, Resume
  <2>2. Less("collection", net, net', "patch")
    BY <1>1, <1>2, <1>33, Ending DEF CollectionReranked, Resume
  <2> QED
    BY <2>1, <2>2 DEF CollectionFlags, Less
<1>34. CASE Busy(s) /\ net[s].k = "patch" /\ CollectionReranked(s) /\ Ok(s) /\ net[s].a.v # "none"
  <2>1. Sets(ui.loading, ui.progress, ui.reindexing, ui.confirm, ui.del)
    BY <1>1, <1>34 DEF CollectionReranked, Resume
  <2>2. Swap("collection", net, net', "patch", "rerankers")
    BY <1>1, <1>2, <1>34, Chaining DEF CollectionReranked, Resume
  <2> QED
    BY <2>1, <2>2 DEF CollectionFlags, Swap
<1>35. CASE Busy(s) /\ net[s].k = "rerankers" /\ CollectionRerankers(s)
  <2>1. Sets(ui.loading, ui.progress, ui.reindexing, ui.confirm, ui.del)
    BY <1>1, <1>35 DEF CollectionRerankers, Resume
  <2>2. Less("collection", net, net', "rerankers")
    BY <1>1, <1>2, <1>35, Ending DEF CollectionRerankers, Resume
  <2> QED
    BY <2>1, <2>2 DEF CollectionFlags, Less
<1>36. CASE Busy(s) /\ net[s].k = "destroy" /\ CollectionDestroyed(s)
  <2>1. Sets(ui.loading, ui.progress, ui.reindexing, ui.confirm, ui'.del) /\ ui'.del # "busy"
    BY <1>1, <1>36 DEF CollectionDestroyed, Resume
  <2>2. Less("collection", net, net', "destroy")
    BY <1>1, <1>2, <1>36, Ending DEF CollectionDestroyed, Resume
  <2> QED
    BY <2>1, <2>2 DEF CollectionFlags, Less
<1> QED
  BY <1>4, <1>5, <1>6, <1>7, <1>8, <1>9, <1>10, <1>11, <1>12, <1>13, <1>14, <1>15, <1>16, <1>17, <1>18, <1>19,
    <1>20, <1>21, <1>22, <1>23, <1>24, <1>25, <1>26, <1>27, <1>28, <1>29, <1>30, <1>31, <1>32, <1>33, <1>34,
    <1>35, <1>36
    DEF CollectionUser, CollectionDestroy, CollectionRunConfirm, CollectionResume

LEMMA CollectionFlagPage ==
    ASSUME screen = "collection"
    PROVE  /\ Init => CollectionFlags
           /\ CollectionFlags /\ [Next]_vars => CollectionFlags'
           /\ CollectionFlags => SpinnersWaited /\ OneSubmitAtATime
<1>1. ASSUME Init PROVE CollectionFlags
  <2> DEFINE none == ""
  <2>1. /\ \E a \in BOOLEAN :
               ui = [admin |-> a, rows |-> NoRows, loading |-> TRUE, progress |-> FALSE, reindexing |-> FALSE, cfg |-> FALSE,
                     confirm |-> None, rerank |-> "none", rerankers |-> None, gone |-> FALSE, del |-> none]
        /\ net = Send(NoCalls, "list", CollectionAlone)
    BY <1>1, Zenon DEF Init, CollectionUi
  <2>2. none # "busy"
    BY Zenon
  <2> HIDE DEF none
  <2>3. /\ DOMAIN ui = {"admin", "rows", "loading", "progress", "reindexing", "cfg", "confirm", "rerank", "rerankers", "gone", "del"}
        /\ ui.progress = FALSE /\ ui.reindexing = FALSE /\ ui.confirm = None /\ ui.del # "busy"
    BY <2>1, <2>2
  <2>4. Kind("collection", "list", CollectionAlone) = "list"
    BY DEF Kind, Marks, CollectionAlone, CollectionChain
  <2>5. More("collection", NoCalls, net, "list")
    BY <2>1, <2>4, OneYet
  <2> QED
    BY <2>3, <2>5, NoneYet DEF CollectionFlags, More
<1>2. ASSUME CollectionFlags, [Next]_vars PROVE CollectionFlags'
  <2>1. CASE \E s \in Slots : Serve(s) \/ Fault(s)
    <3>1. CallsIn(net)
      BY <1>2 DEF CollectionFlags
    <3>2. ui' = ui /\ Same("collection", net, net')
      BY <2>1, <3>1, ServerFlags
    <3> QED
      BY <1>2, <3>2 DEF CollectionFlags, Same
  <2>2. ASSUME NEW s \in Slots, Act \/ Interval \/ Elsewhere \/ Continue(s)
        PROVE  CollectionFlags'
    <3>1. CollectionUser \/ CollectionWorld \/ (Busy(s) /\ CollectionResume(s))
      BY <2>2 DEF Act, Interval, Elsewhere, Continue
    <3> QED
      BY <1>2, <3>1, CollectionFlagStep
  <2>3. CASE UNCHANGED vars
    BY <1>2, <2>3 DEF CollectionFlags, vars
  <2> QED
    BY <1>2, <2>1, <2>2, <2>3, SomeSlot DEF Next
<1>3. ASSUME CollectionFlags PROVE SpinnersWaited /\ OneSubmitAtATime
  <2> DEFINE c4 == ui.del = "busy"
  <2>1. /\ Spinners = {<<ui.loading, {"list"}>>,
                        <<ui.progress, {"upload", "list", "status"}>>,
                        <<ui.reindexing, {"cfg", "list", "status"}>>,
                        <<c4, {"destroy"}>>}
        /\ Submits = {{"cfg"}}
    BY DEF Spinners, Submits
  <2>2. ui.loading => InFlight({"list"}) # {}
    <3>1. \A k, a : Kind("collection", k, a) \in {"list", "doc", "awaited"} => k \in {"list"}
      BY DEF Kind, Marks
    <3> QED
      BY <1>3, <3>1, WaitsIsInFlight DEF CollectionFlags
  <2>3. ui.progress => InFlight({"upload", "list", "status"}) # {}
    <3>1. \A k, a : Kind("collection", k, a) \in {"upload", "doc", "awaited", "status", "later"} => k \in {"upload", "list", "status"}
      BY DEF Kind, Marks
    <3> QED
      BY <1>3, <3>1, WaitsIsInFlight DEF CollectionFlags
  <2>4. ui.reindexing => InFlight({"cfg", "list", "status"}) # {}
    <3>1. \A k, a : Kind("collection", k, a) \in {"cfg", "awaited", "later"} => k \in {"cfg", "list", "status"}
      BY DEF Kind, Marks
    <3> QED
      BY <1>3, <3>1, WaitsIsInFlight DEF CollectionFlags
  <2>5. c4 => InFlight({"destroy"}) # {}
    <3>1. \A k, a : Kind("collection", k, a) \in {"destroy"} => k \in {"destroy"}
      BY DEF Kind, Marks
    <3> QED
      BY <1>3, <3>1, WaitsIsInFlight DEF CollectionFlags
  <2>6. Cardinality(InFlight({"cfg"})) <= 1
    <3>1. \A k, a : k \in {"cfg"} => Kind("collection", k, a) \in {"cfg", "awaited", "later"}
      BY DEF Kind, Marks
    <3> QED
      BY <1>3, <3>1, AloneIsOne DEF CollectionFlags
  <2> HIDE DEF c4
  <2> QED
    BY <2>1, <2>2, <2>3, <2>4, <2>5, <2>6 DEF SpinnersWaited, OneSubmitAtATime
<1> QED
  BY <1>1, <1>2, <1>3

----------------------------------------------------------------------------
(* The configuration form.                                                 *)

ConfigFlags ==
    /\ CallsIn(net) /\ DOMAIN ui = {"open", "url", "tested", "models", "model", "provider", "testing", "listing"}
    /\ ui.testing <=> Waits("config", net, {"check", "awaited"})
    /\ Alone("config", net, {"check", "awaited"})
    /\ ui.listing => Waits("config", net, {"models", "awaited"})

LEMMA ConfigFlagStep ==
    ASSUME ConfigFlags, NEW s \in Slots, ConfigUser \/ (Busy(s) /\ ConfigResume(s))
    PROVE  ConfigFlags'
<1> DEFINE Sets(v0, v1) == DOMAIN ui' = DOMAIN ui /\ ui'.testing = v0 /\ ui'.listing = v1
<1>1. CallsIn(net) /\ DOMAIN ui = {"open", "url", "tested", "models", "model", "provider", "testing", "listing"}
  BY DEF ConfigFlags
<1>2. \A a : /\ Kind("config", "check", a) = "check"
             /\ Kind("config", "locals", a) = "locals"
             /\ Kind("config", "probe", a) = "probe"
  BY DEF Kind, Marks
<1>3. \A a : /\ a.test => Kind("config", "models", a) = "awaited"
             /\ ~a.test => Kind("config", "models", a) = "models"
  BY DEF Kind, Marks
<1>4. CASE ConfigOpen \/ ConfigClose \/ ConfigProvider("openai") \/ \E u \in Urls : ConfigUrl(u)
  <2>1. Sets(ui.testing, ui.listing)
    BY <1>1, <1>4 DEF ConfigOpen, ConfigClose, ConfigProvider, ConfigUrl, User, Ask
  <2>2. net' = net
    BY <1>4 DEF ConfigOpen, ConfigClose, ConfigProvider, ConfigUrl, User, Ask
  <2> QED
    BY <2>1, <2>2 DEF ConfigFlags
<1>5. CASE ConfigProvider("local")
  <2>1. Sets(ui.testing, ui.listing)
    BY <1>1, <1>5 DEF ConfigProvider, Ask, User
  <2>2. More("config", net, net', "locals")
    BY <1>1, <1>2, <1>5, Asking DEF ConfigProvider, Ask, User
  <2> QED
    BY <2>1, <2>2 DEF ConfigFlags, More
<1>6. CASE ConfigTest
  <2>1. Sets(TRUE, ui.listing) /\ ~ui.testing
    BY <1>1, <1>6 DEF ConfigTest, Ask
  <2>2. More("config", net, net', "check")
    BY <1>1, <1>2, <1>6, Asking DEF ConfigTest, Ask
  <2> QED
    BY <2>1, <2>2 DEF ConfigFlags, More
<1>7. CASE ConfigLoadModels
  <2>1. Sets(ui.testing, TRUE)
    BY <1>1, <1>7 DEF ConfigLoadModels, Ask
  <2>2. net' = Send(net, "models", [url |-> ui.url, m |-> ui.model, test |-> FALSE]) /\ Room(1)
    BY <1>7 DEF ConfigLoadModels, Ask
  <2>3. Kind("config", "models", [url |-> ui.url, m |-> ui.model, test |-> FALSE]) = "models"
    BY <1>7 DEF Kind, Marks
  <2>4. More("config", net, net', "models")
    BY <1>1, <2>2, <2>3, Asking
  <2> QED
    BY <2>1, <2>4 DEF ConfigFlags, More
<1>8. CASE \E m \in ui.models : ConfigPick(m)
  <2>1. Sets(ui.testing, ui.listing)
    BY <1>1, <1>8 DEF ConfigPick, Ask
  <2>2. More("config", net, net', "probe")
    BY <1>1, <1>2, <1>8, Asking DEF ConfigPick, Ask
  <2> QED
    BY <2>1, <2>2 DEF ConfigFlags, More
<1>9. CASE Busy(s) /\ net[s].k = "check" /\ ConfigTested(s) /\ Ok(s)
  <2>1. Sets(ui.testing, TRUE)
    BY <1>1, <1>9 DEF ConfigTested, Resume
  <2>2. net' = Send(Rest(s), "models", [url |-> net[s].a.url, m |-> ui.model, test |-> TRUE])
    BY <1>9 DEF ConfigTested, Resume
  <2>3. Kind("config", "models", [url |-> net[s].a.url, m |-> ui.model, test |-> TRUE]) = "awaited"
    BY <1>9 DEF Kind, Marks
  <2>4. Busy(s) /\ Kind("config", net[s].k, net[s].a) = "check"
    BY <1>2, <1>9
  <2>5. Swap("config", net, net', "check", "awaited")
    BY <1>1, <2>2, <2>3, <2>4, Chaining
  <2> QED
    BY <2>1, <2>5 DEF ConfigFlags, Swap
<1>10. CASE Busy(s) /\ net[s].k = "check" /\ ConfigTested(s) /\ ~Ok(s)
  <2>1. Sets(FALSE, ui.listing)
    BY <1>1, <1>10 DEF ConfigTested, Resume
  <2>2. Less("config", net, net', "check")
    BY <1>1, <1>2, <1>10, Ending DEF ConfigTested, Resume
  <2> QED
    BY <2>1, <2>2 DEF ConfigFlags, Less
<1>11. CASE Busy(s) /\ net[s].k = "models" /\ ConfigModels(s) /\ net[s].a.test
  <2>1. Sets(FALSE, FALSE)
    BY <1>1, <1>11 DEF ConfigModels, Resume
  <2>2. Less("config", net, net', "awaited")
    BY <1>1, <1>3, <1>11, Ending DEF ConfigModels, Resume
  <2> QED
    BY <2>1, <2>2 DEF ConfigFlags, Less
<1>12. CASE Busy(s) /\ net[s].k = "models" /\ ConfigModels(s) /\ ~net[s].a.test
  <2>1. Sets((ui.testing /\ TRUE), FALSE)
    BY <1>1, <1>12 DEF ConfigModels, Resume
  <2>2. Less("config", net, net', "models")
    BY <1>1, <1>3, <1>12, Ending DEF ConfigModels, Resume
  <2> QED
    BY <2>1, <2>2 DEF ConfigFlags, Less
<1>13. CASE Busy(s) /\ net[s].k = "locals" /\ ConfigLocals(s)
  <2>1. Sets(ui.testing, ui.listing)
    BY <1>1, <1>13 DEF ConfigLocals, Resume
  <2>2. Less("config", net, net', "locals")
    BY <1>1, <1>2, <1>13, Ending DEF ConfigLocals, Resume
  <2> QED
    BY <2>1, <2>2 DEF ConfigFlags, Less
<1>14. CASE Busy(s) /\ net[s].k = "probe" /\ Resume(s, ui, Rest(s))
  <2>1. Sets(ui.testing, ui.listing)
    BY <1>1, <1>14 DEF Resume
  <2>2. Less("config", net, net', "probe")
    BY <1>1, <1>2, <1>14, Ending DEF Resume
  <2> QED
    BY <2>1, <2>2 DEF ConfigFlags, Less
<1> QED
  BY <1>4, <1>5, <1>6, <1>7, <1>8, <1>9, <1>10, <1>11, <1>12, <1>13, <1>14 DEF ConfigUser, ConfigResume

LEMMA ConfigFlagPage ==
    ASSUME screen = "config"
    PROVE  /\ Init => ConfigFlags
           /\ ConfigFlags /\ [Next]_vars => ConfigFlags'
           /\ ConfigFlags => SpinnersWaited /\ OneSubmitAtATime
<1>1. ASSUME Init PROVE ConfigFlags
  <2>1. ui = ConfigUi /\ net = NoCalls
    BY <1>1, Zenon DEF Init
  <2>2. DOMAIN ui = {"open", "url", "tested", "models", "model", "provider", "testing", "listing"} /\ ui.testing = FALSE /\ ui.listing = FALSE
    BY <2>1 DEF ConfigUi
  <2> QED
    BY <2>1, <2>2, NoneYet DEF ConfigFlags
<1>2. ASSUME ConfigFlags, [Next]_vars PROVE ConfigFlags'
  <2>1. CASE \E s \in Slots : Serve(s) \/ Fault(s)
    <3>1. CallsIn(net)
      BY <1>2 DEF ConfigFlags
    <3>2. ui' = ui /\ Same("config", net, net')
      BY <2>1, <3>1, ServerFlags
    <3> QED
      BY <1>2, <3>2 DEF ConfigFlags, Same
  <2>2. ASSUME NEW s \in Slots, Act \/ Interval \/ Elsewhere \/ Continue(s)
        PROVE  ConfigFlags'
    <3>1. ConfigUser \/ (Busy(s) /\ ConfigResume(s))
      BY <2>2 DEF Act, Interval, Elsewhere, Continue
    <3> QED
      BY <1>2, <3>1, ConfigFlagStep
  <2>3. CASE UNCHANGED vars
    BY <1>2, <2>3 DEF ConfigFlags, vars
  <2> QED
    BY <1>2, <2>1, <2>2, <2>3, SomeSlot DEF Next
<1>3. ASSUME ConfigFlags PROVE SpinnersWaited /\ OneSubmitAtATime
  <2>1. /\ Spinners = {<<ui.testing, {"check", "models"}>>, <<ui.listing, {"models"}>>}
        /\ Submits = {{"check"}}
    BY DEF Spinners, Submits
  <2>2. ui.testing => InFlight({"check", "models"}) # {}
    <3>1. \A k, a : Kind("config", k, a) \in {"check", "awaited"} => k \in {"check", "models"}
      BY DEF Kind, Marks
    <3> QED
      BY <1>3, <3>1, WaitsIsInFlight DEF ConfigFlags
  <2>3. ui.listing => InFlight({"models"}) # {}
    <3>1. \A k, a : Kind("config", k, a) \in {"models", "awaited"} => k \in {"models"}
      BY DEF Kind, Marks
    <3> QED
      BY <1>3, <3>1, WaitsIsInFlight DEF ConfigFlags
  <2>4. Cardinality(InFlight({"check"})) <= 1
    <3>1. \A k, a : k \in {"check"} => Kind("config", k, a) \in {"check", "awaited"}
      BY DEF Kind, Marks
    <3> QED
      BY <1>3, <3>1, AloneIsOne DEF ConfigFlags
  <2> QED
    BY <2>1, <2>2, <2>3, <2>4 DEF SpinnersWaited, OneSubmitAtATime
<1> QED
  BY <1>1, <1>2, <1>3

----------------------------------------------------------------------------
(* The document viewers.                                                   *)

ViewFlags ==
    /\ CallsIn(net) /\ DOMAIN ui = {"kind", "doc", "arg", "data", "loading", "timer"}
    /\ ui.loading => Waits("docview", net, {"load"})

LEMMA ViewFlagStep ==
    ASSUME ViewFlags, NEW s \in Slots, ViewUser \/ ViewTimer \/ (Busy(s) /\ ViewResume(s))
    PROVE  ViewFlags'
<1> DEFINE Sets(v0) == DOMAIN ui' = DOMAIN ui /\ ui'.loading = v0
<1>1. CallsIn(net) /\ DOMAIN ui = {"kind", "doc", "arg", "data", "loading", "timer"}
  BY DEF ViewFlags
<1>2. \A a : /\ Kind("docview", "load", a) = "load"
  BY DEF Kind, Marks
<1>3. CASE ViewClose \/ \E v \in {1, 2} : ViewApplyForm(v)
  <2>1. Sets(ui.loading)
    BY <1>1, <1>3 DEF ViewClose, ViewApplyForm, User
  <2>2. net' = net
    BY <1>3 DEF ViewClose, ViewApplyForm, User
  <2> QED
    BY <2>1, <2>2 DEF ViewFlags
<1>4. CASE \E d \in Rows : ViewOpen(d)
  <2>1. Sets(TRUE)
    BY <1>1, <1>4 DEF ViewOpen, Ask
  <2>2. More("docview", net, net', "load")
    BY <1>1, <1>2, <1>4, Asking DEF ViewOpen, Ask
  <2> QED
    BY <2>1, <2>2 DEF ViewFlags, More
<1>5. CASE \E p \in {1, 2} : ViewGoPage(p)
  <2>1. Sets(TRUE)
    BY <1>1, <1>5 DEF ViewGoPage, Ask
  <2>2. More("docview", net, net', "load")
    BY <1>1, <1>2, <1>5, Asking DEF ViewGoPage, Ask
  <2> QED
    BY <2>1, <2>2 DEF ViewFlags, More
<1>6. CASE ViewTimer
  <2>1. Sets(TRUE)
    BY <1>1, <1>6 DEF ViewTimer
  <2>2. More("docview", net, net', "load")
    BY <1>1, <1>2, <1>6, Asking DEF ViewTimer
  <2> QED
    BY <2>1, <2>2 DEF ViewFlags, More
<1>7. CASE Busy(s) /\ net[s].k = "load" /\ ViewLoaded(s)
  <2>1. Sets(FALSE)
    BY <1>1, <1>7 DEF ViewLoaded, Resume
  <2>2. Less("docview", net, net', "load")
    BY <1>1, <1>2, <1>7, Ending DEF ViewLoaded, Resume
  <2> QED
    BY <2>1, <2>2 DEF ViewFlags, Less
<1> QED
  BY <1>3, <1>4, <1>5, <1>6, <1>7 DEF ViewUser, ViewResume

LEMMA ViewFlagPage ==
    ASSUME screen = "docview"
    PROVE  /\ Init => ViewFlags
           /\ ViewFlags /\ [Next]_vars => ViewFlags'
           /\ ViewFlags => SpinnersWaited /\ OneSubmitAtATime
<1>1. ASSUME Init PROVE ViewFlags
  <2>1. (\E k \in {"chunks", "compare", "parse"} : ui = ViewUi(k)) /\ net = NoCalls
    BY <1>1, Zenon DEF Init
  <2>2. DOMAIN ui = {"kind", "doc", "arg", "data", "loading", "timer"} /\ ui.loading = FALSE
    BY <2>1 DEF ViewUi
  <2> QED
    BY <2>1, <2>2, NoneYet DEF ViewFlags
<1>2. ASSUME ViewFlags, [Next]_vars PROVE ViewFlags'
  <2>1. CASE \E s \in Slots : Serve(s) \/ Fault(s)
    <3>1. CallsIn(net)
      BY <1>2 DEF ViewFlags
    <3>2. ui' = ui /\ Same("docview", net, net')
      BY <2>1, <3>1, ServerFlags
    <3> QED
      BY <1>2, <3>2 DEF ViewFlags, Same
  <2>2. ASSUME NEW s \in Slots, Act \/ Interval \/ Elsewhere \/ Continue(s)
        PROVE  ViewFlags'
    <3>1. ViewUser \/ ViewTimer \/ (Busy(s) /\ ViewResume(s))
      BY <2>2 DEF Act, Interval, Elsewhere, Continue
    <3> QED
      BY <1>2, <3>1, ViewFlagStep
  <2>3. CASE UNCHANGED vars
    BY <1>2, <2>3 DEF ViewFlags, vars
  <2> QED
    BY <1>2, <2>1, <2>2, <2>3, SomeSlot DEF Next
<1>3. ASSUME ViewFlags PROVE SpinnersWaited /\ OneSubmitAtATime
  <2>1. /\ Spinners = {<<ui.loading, {"load"}>>}
        /\ Submits = {}
    BY DEF Spinners, Submits
  <2>2. ui.loading => InFlight({"load"}) # {}
    <3>1. \A k, a : Kind("docview", k, a) \in {"load"} => k \in {"load"}
      BY DEF Kind, Marks
    <3> QED
      BY <1>3, <3>1, WaitsIsInFlight DEF ViewFlags
  <2> QED
    BY <2>1, <2>2 DEF SpinnersWaited, OneSubmitAtATime
<1> QED
  BY <1>1, <1>2, <1>3

----------------------------------------------------------------------------
(* The ingestion pipeline builder.                                         *)

BuilderFlags ==
    /\ CallsIn(net) /\ DOMAIN ui = {"stages", "types", "doc", "preview", "busy"}
    /\ ui.busy # "no" <=> Waits("builder", net, {"preview", "save"})
    /\ Alone("builder", net, {"preview", "save"})

LEMMA BuilderFlagStep ==
    ASSUME BuilderFlags, NEW s \in Slots, BuilderUser \/ (Busy(s) /\ BuilderResume(s))
    PROVE  BuilderFlags'
<1> DEFINE Sets(v0) == DOMAIN ui' = DOMAIN ui /\ ui'.busy = v0
<1>1. CallsIn(net) /\ DOMAIN ui = {"stages", "types", "doc", "preview", "busy"}
  BY DEF BuilderFlags
<1>2. \A a : /\ Kind("builder", "preview", a) = "preview"
             /\ Kind("builder", "save", a) = "save"
  BY DEF Kind, Marks
<1>3. CASE (\E p \in Phases : AddStage(p, "pii")) \/ (\E p \in Phases : \E i \in DOMAIN ui.stages[p] : RemoveStage(p, i) \/ \E j \in {i - 1, i + 1} : MoveStage(p, i, j)) \/ (\E t \in {"chart", "photo"} : CaptionToggle(t)) \/ \E d \in Rows : BuilderDocument(d)
  <2>1. Sets(ui.busy)
    BY <1>1, <1>3 DEF AddStage, RemoveStage, MoveStage, CaptionToggle, BuilderDocument, SetStages, User
  <2>2. net' = net
    BY <1>3 DEF AddStage, RemoveStage, MoveStage, CaptionToggle, BuilderDocument, SetStages, User
  <2> QED
    BY <2>1, <2>2 DEF BuilderFlags
<1>4. CASE BuilderRunPreview
  <2>1. Sets("preview") /\ ui.busy = "no"
    BY <1>1, <1>4 DEF BuilderRunPreview, Ask
  <2>2. More("builder", net, net', "preview")
    BY <1>1, <1>2, <1>4, Asking DEF BuilderRunPreview, Ask
  <2> QED
    BY <2>1, <2>2 DEF BuilderFlags, More
<1>5. CASE BuilderSave
  <2>1. Sets("save") /\ ui.busy = "no"
    BY <1>1, <1>5 DEF BuilderSave, Ask
  <2>2. More("builder", net, net', "save")
    BY <1>1, <1>2, <1>5, Asking DEF BuilderSave, Ask
  <2> QED
    BY <2>1, <2>2 DEF BuilderFlags, More
<1>6. CASE Busy(s) /\ net[s].k = "preview" /\ BuilderPreviewed(s)
  <2>1. Sets("no")
    BY <1>1, <1>6 DEF BuilderPreviewed, Resume
  <2>2. Less("builder", net, net', "preview")
    BY <1>1, <1>2, <1>6, Ending DEF BuilderPreviewed, Resume
  <2> QED
    BY <2>1, <2>2 DEF BuilderFlags, Less
<1>7. CASE Busy(s) /\ net[s].k = "save" /\ BuilderSaved(s)
  <2>1. Sets("no")
    BY <1>1, <1>7 DEF BuilderSaved, Resume
  <2>2. Less("builder", net, net', "save")
    BY <1>1, <1>2, <1>7, Ending DEF BuilderSaved, Resume
  <2> QED
    BY <2>1, <2>2 DEF BuilderFlags, Less
<1> QED
  BY <1>3, <1>4, <1>5, <1>6, <1>7 DEF BuilderUser, BuilderResume

LEMMA BuilderFlagPage ==
    ASSUME screen = "builder"
    PROVE  /\ Init => BuilderFlags
           /\ BuilderFlags /\ [Next]_vars => BuilderFlags'
           /\ BuilderFlags => SpinnersWaited /\ OneSubmitAtATime
<1>1. ASSUME Init PROVE BuilderFlags
  <2>1. ui = BuilderUi /\ net = NoCalls
    BY <1>1, Zenon DEF Init
  <2>2. DOMAIN ui = {"stages", "types", "doc", "preview", "busy"} /\ ui.busy = "no"
    BY <2>1 DEF BuilderUi
  <2> QED
    BY <2>1, <2>2, NoneYet DEF BuilderFlags
<1>2. ASSUME BuilderFlags, [Next]_vars PROVE BuilderFlags'
  <2>1. CASE \E s \in Slots : Serve(s) \/ Fault(s)
    <3>1. CallsIn(net)
      BY <1>2 DEF BuilderFlags
    <3>2. ui' = ui /\ Same("builder", net, net')
      BY <2>1, <3>1, ServerFlags
    <3> QED
      BY <1>2, <3>2 DEF BuilderFlags, Same
  <2>2. ASSUME NEW s \in Slots, Act \/ Interval \/ Elsewhere \/ Continue(s)
        PROVE  BuilderFlags'
    <3>1. BuilderUser \/ (Busy(s) /\ BuilderResume(s))
      BY <2>2 DEF Act, Interval, Elsewhere, Continue
    <3> QED
      BY <1>2, <3>1, BuilderFlagStep
  <2>3. CASE UNCHANGED vars
    BY <1>2, <2>3 DEF BuilderFlags, vars
  <2> QED
    BY <1>2, <2>1, <2>2, <2>3, SomeSlot DEF Next
<1>3. ASSUME BuilderFlags PROVE SpinnersWaited /\ OneSubmitAtATime
  <2> DEFINE c1 == ui.busy # "no"
  <2>1. /\ Spinners = {<<c1, {"preview", "save"}>>}
        /\ Submits = {{"save", "preview"}}
    BY DEF Spinners, Submits
  <2>2. c1 => InFlight({"preview", "save"}) # {}
    <3>1. \A k, a : Kind("builder", k, a) \in {"preview", "save"} => k \in {"preview", "save"}
      BY DEF Kind, Marks
    <3> QED
      BY <1>3, <3>1, WaitsIsInFlight DEF BuilderFlags
  <2>3. Cardinality(InFlight({"save", "preview"})) <= 1
    <3>1. \A k, a : k \in {"save", "preview"} => Kind("builder", k, a) \in {"preview", "save"}
      BY DEF Kind, Marks
    <3> QED
      BY <1>3, <3>1, AloneIsOne DEF BuilderFlags
  <2> HIDE DEF c1
  <2> QED
    BY <2>1, <2>2, <2>3 DEF SpinnersWaited, OneSubmitAtATime
<1> QED
  BY <1>1, <1>2, <1>3

----------------------------------------------------------------------------
(* The search panel.                                                       *)

SearchFlags ==
    /\ CallsIn(net) /\ DOMAIN ui = {"q", "mode", "loading", "result"}
    /\ ui.loading => Waits("search", net, {"search"})

LEMMA SearchFlagStep ==
    ASSUME SearchFlags, NEW s \in Slots, SearchUser \/ (Busy(s) /\ SearchResume(s))
    PROVE  SearchFlags'
<1> DEFINE Sets(v0) == DOMAIN ui' = DOMAIN ui /\ ui'.loading = v0
<1>1. CallsIn(net) /\ DOMAIN ui = {"q", "mode", "loading", "result"}
  BY DEF SearchFlags
<1>2. \A a : /\ Kind("search", "search", a) = "search"
  BY DEF Kind, Marks
<1>3. CASE (\E q \in {"a", "b"} : SearchType(q)) \/ \E m \in {"hybrid", "lexical"} : SearchMode(m)
  <2>1. Sets(ui.loading)
    BY <1>1, <1>3 DEF SearchType, SearchMode, User
  <2>2. net' = net
    BY <1>3 DEF SearchType, SearchMode, User
  <2> QED
    BY <2>1, <2>2 DEF SearchFlags
<1>4. CASE RunSearch
  <2>0. Ask([ui EXCEPT !.loading = TRUE], "search", [q |-> ui.q, mode |-> ui.mode])
    BY <1>4, Zenon DEF RunSearch
  <2>1. Sets(TRUE)
    BY <1>1, <2>0 DEF Ask
  <2>2. More("search", net, net', "search")
    BY <1>1, <1>2, <2>0, Asking DEF Ask
  <2> QED
    BY <2>1, <2>2 DEF SearchFlags, More
<1>5. CASE Busy(s) /\ net[s].k = "search" /\ Searched(s)
  <2>1. Sets(FALSE)
    BY <1>1, <1>5 DEF Searched, Resume
  <2>2. Less("search", net, net', "search")
    BY <1>1, <1>2, <1>5, Ending DEF Searched, Resume
  <2> QED
    BY <2>1, <2>2 DEF SearchFlags, Less
<1> QED
  BY <1>3, <1>4, <1>5 DEF SearchUser, SearchResume

LEMMA SearchFlagPage ==
    ASSUME screen = "search"
    PROVE  /\ Init => SearchFlags
           /\ SearchFlags /\ [Next]_vars => SearchFlags'
           /\ SearchFlags => SpinnersWaited /\ OneSubmitAtATime
<1>1. ASSUME Init PROVE SearchFlags
  <2> DEFINE none == ""
  <2>1. ui = [q |-> none, mode |-> "hybrid", loading |-> FALSE, result |-> None]
        /\ net = NoCalls
    BY <1>1, Zenon DEF Init, SearchUi
  <2> HIDE DEF none
  <2>2. DOMAIN ui = {"q", "mode", "loading", "result"} /\ ui.loading = FALSE
    BY <2>1
  <2> QED
    BY <2>1, <2>2, NoneYet DEF SearchFlags
<1>2. ASSUME SearchFlags, [Next]_vars PROVE SearchFlags'
  <2>1. CASE \E s \in Slots : Serve(s) \/ Fault(s)
    <3>1. CallsIn(net)
      BY <1>2 DEF SearchFlags
    <3>2. ui' = ui /\ Same("search", net, net')
      BY <2>1, <3>1, ServerFlags
    <3> QED
      BY <1>2, <3>2 DEF SearchFlags, Same
  <2>2. ASSUME NEW s \in Slots, Act \/ Interval \/ Elsewhere \/ Continue(s)
        PROVE  SearchFlags'
    <3>1. SearchUser \/ (Busy(s) /\ SearchResume(s))
      BY <2>2 DEF Act, Interval, Elsewhere, Continue
    <3> QED
      BY <1>2, <3>1, SearchFlagStep
  <2>3. CASE UNCHANGED vars
    BY <1>2, <2>3 DEF SearchFlags, vars
  <2> QED
    BY <1>2, <2>1, <2>2, <2>3, SomeSlot DEF Next
<1>3. ASSUME SearchFlags PROVE SpinnersWaited /\ OneSubmitAtATime
  <2>1. /\ Spinners = {<<ui.loading, {"search"}>>}
        /\ Submits = {}
    BY DEF Spinners, Submits
  <2>2. ui.loading => InFlight({"search"}) # {}
    <3>1. \A k, a : Kind("search", k, a) \in {"search"} => k \in {"search"}
      BY DEF Kind, Marks
    <3> QED
      BY <1>3, <3>1, WaitsIsInFlight DEF SearchFlags
  <2> QED
    BY <2>1, <2>2 DEF SpinnersWaited, OneSubmitAtATime
<1> QED
  BY <1>1, <1>2, <1>3

----------------------------------------------------------------------------
(* The routing profiles.                                                   *)

ProfilesFlags ==
    /\ CallsIn(net) /\ DOMAIN ui = {"admin", "rows", "loading", "computing"}
    /\ ui.loading => Waits("profiles", net, {"list", "awaited"})
    /\ ui.computing # None <=> Waits("profiles", net, {"recompute", "awaited"})
    /\ Alone("profiles", net, {"recompute", "awaited"})

LEMMA ProfilesFlagStep ==
    ASSUME ProfilesFlags, NEW s \in Slots, ProfilesUser \/ ProfilesWorld \/ (Busy(s) /\ ProfilesResume(s))
    PROVE  ProfilesFlags'
<1> DEFINE Sets(v0, v1) == DOMAIN ui' = DOMAIN ui /\ ui'.loading = v0 /\ ui'.computing = v1
<1>1. CallsIn(net) /\ DOMAIN ui = {"admin", "rows", "loading", "computing"}
  BY DEF ProfilesFlags
<1>2. \A a : /\ Kind("profiles", "recompute", a) = "recompute"
  BY DEF Kind, Marks
<1>3. \A a : /\ a = "recompute" => Kind("profiles", "list", a) = "awaited"
             /\ a # "recompute" => Kind("profiles", "list", a) = "list"
  BY DEF Kind, Marks
<1>4. CASE ProfilesWorld
  <2>1. Sets(ui.loading, ui.computing)
    BY <1>1, <1>4 DEF ProfilesWorld, World
  <2>2. net' = net
    BY <1>4 DEF ProfilesWorld, World
  <2> QED
    BY <2>1, <2>2 DEF ProfilesFlags
<1>5. CASE ProfilesUser
  <2>0. ui.computing = None /\ \E id : id # None /\ Ask([ui EXCEPT !.computing = id], "recompute", id)
    BY <1>5, BrowserAssumption, NullAssumption, Zenon DEF ProfilesUser, ProfilesRecompute, Present, Words
  <2>1. Sets(ui.loading, ui'.computing) /\ ui.computing = None /\ ui'.computing # None
    BY <1>1, <2>0 DEF Ask
  <2>2. More("profiles", net, net', "recompute")
    BY <1>1, <1>2, <2>0, Asking DEF Ask
  <2> QED
    BY <2>1, <2>2 DEF ProfilesFlags, More
<1>6. CASE Busy(s) /\ net[s].k = "recompute" /\ ProfilesRecomputed(s) /\ Ok(s)
  <2>1. Sets(TRUE, ui.computing)
    BY <1>1, <1>6 DEF ProfilesRecomputed, Resume
  <2>2. net' = Send(Rest(s), "list", "recompute")
    BY <1>6 DEF ProfilesRecomputed, Resume
  <2>3. Kind("profiles", "list", "recompute") = "awaited"
    BY <1>6 DEF Kind, Marks
  <2>4. Busy(s) /\ Kind("profiles", net[s].k, net[s].a) = "recompute"
    BY <1>2, <1>6
  <2>5. Swap("profiles", net, net', "recompute", "awaited")
    BY <1>1, <2>2, <2>3, <2>4, Chaining
  <2> QED
    BY <2>1, <2>5 DEF ProfilesFlags, Swap
<1>7. CASE Busy(s) /\ net[s].k = "recompute" /\ ProfilesRecomputed(s) /\ ~Ok(s)
  <2>1. Sets(ui.loading, None)
    BY <1>1, <1>7 DEF ProfilesRecomputed, Resume
  <2>2. Less("profiles", net, net', "recompute")
    BY <1>1, <1>2, <1>7, Ending DEF ProfilesRecomputed, Resume
  <2> QED
    BY <2>1, <2>2 DEF ProfilesFlags, Less
<1>8. CASE Busy(s) /\ net[s].k = "list" /\ ProfilesListed(s) /\ net[s].a = "recompute"
  <2>1. Sets(FALSE, None)
    BY <1>1, <1>8 DEF ProfilesListed, Resume
  <2>2. Less("profiles", net, net', "awaited")
    BY <1>1, <1>3, <1>8, Ending DEF ProfilesListed, Resume
  <2> QED
    BY <2>1, <2>2 DEF ProfilesFlags, Less
<1>9. CASE Busy(s) /\ net[s].k = "list" /\ ProfilesListed(s) /\ net[s].a # "recompute"
  <2>1. Sets(FALSE, ui.computing)
    BY <1>1, <1>9 DEF ProfilesListed, Resume
  <2>2. Less("profiles", net, net', "list")
    BY <1>1, <1>3, <1>9, Ending DEF ProfilesListed, Resume
  <2> QED
    BY <2>1, <2>2 DEF ProfilesFlags, Less
<1> QED
  BY <1>4, <1>5, <1>6, <1>7, <1>8, <1>9 DEF ProfilesResume

LEMMA ProfilesFlagPage ==
    ASSUME screen = "profiles"
    PROVE  /\ Init => ProfilesFlags
           /\ ProfilesFlags /\ [Next]_vars => ProfilesFlags'
           /\ ProfilesFlags => SpinnersWaited /\ OneSubmitAtATime
<1>1. ASSUME Init PROVE ProfilesFlags
  <2>1. (\E a \in BOOLEAN : ui = ProfilesUi(a)) /\ net = Send(NoCalls, "list", None)
    BY <1>1, Zenon DEF Init
  <2>2. DOMAIN ui = {"admin", "rows", "loading", "computing"} /\ ui.loading = TRUE /\ ui.computing = None
    BY <2>1 DEF ProfilesUi
  <2>3. Kind("profiles", "list", None) = "list"
    BY NullAssumption DEF Kind, Marks, Words
  <2>4. More("profiles", NoCalls, net, "list")
    BY <2>1, <2>3, OneYet
  <2> QED
    BY <2>2, <2>4, NoneYet DEF ProfilesFlags, More
<1>2. ASSUME ProfilesFlags, [Next]_vars PROVE ProfilesFlags'
  <2>1. CASE \E s \in Slots : Serve(s) \/ Fault(s)
    <3>1. CallsIn(net)
      BY <1>2 DEF ProfilesFlags
    <3>2. ui' = ui /\ Same("profiles", net, net')
      BY <2>1, <3>1, ServerFlags
    <3> QED
      BY <1>2, <3>2 DEF ProfilesFlags, Same
  <2>2. ASSUME NEW s \in Slots, Act \/ Interval \/ Elsewhere \/ Continue(s)
        PROVE  ProfilesFlags'
    <3>1. ProfilesUser \/ ProfilesWorld \/ (Busy(s) /\ ProfilesResume(s))
      BY <2>2 DEF Act, Interval, Elsewhere, Continue
    <3> QED
      BY <1>2, <3>1, ProfilesFlagStep
  <2>3. CASE UNCHANGED vars
    BY <1>2, <2>3 DEF ProfilesFlags, vars
  <2> QED
    BY <1>2, <2>1, <2>2, <2>3, SomeSlot DEF Next
<1>3. ASSUME ProfilesFlags PROVE SpinnersWaited /\ OneSubmitAtATime
  <2> DEFINE c2 == ui.computing # None
  <2>1. /\ Spinners = {<<ui.loading, {"list"}>>, <<c2, {"recompute", "list"}>>}
        /\ Submits = {{"recompute"}}
    BY DEF Spinners, Submits
  <2>2. ui.loading => InFlight({"list"}) # {}
    <3>1. \A k, a : Kind("profiles", k, a) \in {"list", "awaited"} => k \in {"list"}
      BY DEF Kind, Marks
    <3> QED
      BY <1>3, <3>1, WaitsIsInFlight DEF ProfilesFlags
  <2>3. c2 => InFlight({"recompute", "list"}) # {}
    <3>1. \A k, a : Kind("profiles", k, a) \in {"recompute", "awaited"} => k \in {"recompute", "list"}
      BY DEF Kind, Marks
    <3> QED
      BY <1>3, <3>1, WaitsIsInFlight DEF ProfilesFlags
  <2>4. Cardinality(InFlight({"recompute"})) <= 1
    <3>1. \A k, a : k \in {"recompute"} => Kind("profiles", k, a) \in {"recompute", "awaited"}
      BY DEF Kind, Marks
    <3> QED
      BY <1>3, <3>1, AloneIsOne DEF ProfilesFlags
  <2> HIDE DEF c2
  <2> QED
    BY <2>1, <2>2, <2>3, <2>4 DEF SpinnersWaited, OneSubmitAtATime
<1> QED
  BY <1>1, <1>2, <1>3

----------------------------------------------------------------------------
(* The review of decisions.                                                *)

ReviewFlags ==
    /\ CallsIn(net) /\ DOMAIN ui = {"admin", "rows", "all", "loading", "busy", "pending", "moved", "applying"}
    /\ ui.loading => Waits("review", net, {"list", "awaited"})
    /\ ui.busy # None <=> Waits("review", net, {"resolve", "awaited"})
    /\ Alone("review", net, {"resolve", "awaited"})
    /\ ui.applying <=> Waits("review", net, {"apply", "later"})
    /\ Alone("review", net, {"apply", "later"})

LEMMA ReviewFlagStep ==
    ASSUME ReviewFlags, NEW s \in Slots, ReviewUser \/ (Busy(s) /\ ReviewResume(s))
    PROVE  ReviewFlags'
<1> DEFINE Sets(v0, v1, v2) == DOMAIN ui' = DOMAIN ui /\ ui'.loading = v0 /\ ui'.busy = v1 /\ ui'.applying = v2
<1>1. CallsIn(net) /\ DOMAIN ui = {"admin", "rows", "all", "loading", "busy", "pending", "moved", "applying"}
  BY DEF ReviewFlags
<1>2. \A a : /\ Kind("review", "resolve", a) = "resolve"
             /\ Kind("review", "apply", a) = "apply"
  BY DEF Kind, Marks
<1>3. \A a : /\ a.busy => Kind("review", "list", a) = "awaited"
             /\ ~a.busy => Kind("review", "list", a) = "list"
             /\ a # None => Kind("review", "rules", a) = "later"
             /\ a = None => Kind("review", "rules", a) = "rules"
  BY NullAssumption DEF Kind, Marks, Words
<1>4. CASE ReviewShowAll
  <2>1. Sets(TRUE, ui.busy, ui.applying)
    BY <1>1, <1>4 DEF ReviewShowAll, Ask
  <2>2. net' = Send(net, "list", [all |-> ~ui.all, busy |-> FALSE]) /\ Room(1)
    BY <1>4 DEF ReviewShowAll, Ask
  <2>3. Kind("review", "list", [all |-> ~ui.all, busy |-> FALSE]) = "list"
    BY NullAssumption, <1>4 DEF Kind, Marks, Words
  <2>4. More("review", net, net', "list")
    BY <1>1, <2>2, <2>3, Asking
  <2> QED
    BY <2>1, <2>4 DEF ReviewFlags, More
<1>5. CASE \E r \in Present(ui.rows), move \in BOOLEAN : ReviewResolve(r, move)
  <2>0. ui.busy = None /\ \E r, a : r # None /\ Ask([ui EXCEPT !.busy = r], "resolve", a)
    BY <1>5, BrowserAssumption, Zenon DEF ReviewResolve, Present
  <2>1. Sets(ui.loading, ui'.busy, ui.applying) /\ ui.busy = None /\ ui'.busy # None
    BY <1>1, <2>0 DEF Ask
  <2>2. More("review", net, net', "resolve")
    BY <1>1, <1>2, <2>0, Asking DEF Ask
  <2> QED
    BY <2>1, <2>2 DEF ReviewFlags, More
<1>6. CASE ReviewApply
  <2>1. Sets(ui.loading, ui.busy, TRUE) /\ ~ui.applying
    BY <1>1, <1>6 DEF ReviewApply, Ask
  <2>2. More("review", net, net', "apply")
    BY <1>1, <1>2, <1>6, Asking DEF ReviewApply, Ask
  <2> QED
    BY <2>1, <2>2 DEF ReviewFlags, More
<1>7. CASE Busy(s) /\ net[s].k = "list" /\ ReviewListed(s) /\ net[s].a.busy /\ (~Ok(s) \/ net[s].r.pending = ui.pending)
  <2>1. Sets(FALSE, None, ui.applying)
    BY <1>1, <1>7 DEF ReviewListed, Resume
  <2>2. Less("review", net, net', "awaited")
    BY <1>1, <1>3, <1>7, Ending DEF ReviewListed, Resume
  <2> QED
    BY <2>1, <2>2 DEF ReviewFlags, Less
<1>8. CASE Busy(s) /\ net[s].k = "list" /\ ReviewListed(s) /\ net[s].a.busy /\ Ok(s) /\ net[s].r.pending # ui.pending
  <2>1. Sets(FALSE, None, ui.applying)
    BY <1>1, <1>8 DEF ReviewListed, Resume
  <2>2. net' = Send(Rest(s), "rules", None)
    BY <1>8 DEF ReviewListed, Resume
  <2>3. Kind("review", "rules", None) = "rules"
    BY NullAssumption, <1>8 DEF Kind, Marks, Words
  <2>4. Busy(s) /\ Kind("review", net[s].k, net[s].a) = "awaited"
    BY <1>3, <1>8
  <2>5. Swap("review", net, net', "awaited", "rules")
    BY <1>1, <2>2, <2>3, <2>4, Chaining
  <2> QED
    BY <2>1, <2>5 DEF ReviewFlags, Swap
<1>9. CASE Busy(s) /\ net[s].k = "list" /\ ReviewListed(s) /\ ~net[s].a.busy /\ (~Ok(s) \/ net[s].r.pending = ui.pending)
  <2>1. Sets(FALSE, ui.busy, ui.applying)
    BY <1>1, <1>9 DEF ReviewListed, Resume
  <2>2. Less("review", net, net', "list")
    BY <1>1, <1>3, <1>9, Ending DEF ReviewListed, Resume
  <2> QED
    BY <2>1, <2>2 DEF ReviewFlags, Less
<1>10. CASE Busy(s) /\ net[s].k = "list" /\ ReviewListed(s) /\ ~net[s].a.busy /\ Ok(s) /\ net[s].r.pending # ui.pending
  <2>1. Sets(FALSE, ui.busy, ui.applying)
    BY <1>1, <1>10 DEF ReviewListed, Resume
  <2>2. net' = Send(Rest(s), "rules", None)
    BY <1>10 DEF ReviewListed, Resume
  <2>3. Kind("review", "rules", None) = "rules"
    BY NullAssumption, <1>10 DEF Kind, Marks, Words
  <2>4. Busy(s) /\ Kind("review", net[s].k, net[s].a) = "list"
    BY <1>3, <1>10
  <2>5. Swap("review", net, net', "list", "rules")
    BY <1>1, <2>2, <2>3, <2>4, Chaining
  <2> QED
    BY <2>1, <2>5 DEF ReviewFlags, Swap
<1>11. CASE Busy(s) /\ net[s].k = "resolve" /\ ReviewResolved(s) /\ Ok(s)
  <2>1. Sets(TRUE, ui.busy, ui.applying)
    BY <1>1, <1>11 DEF ReviewResolved, Resume
  <2>2. net' = Send(Rest(s), "list", [all |-> net[s].a.all, busy |-> TRUE])
    BY <1>11 DEF ReviewResolved, Resume
  <2>3. Kind("review", "list", [all |-> net[s].a.all, busy |-> TRUE]) = "awaited"
    BY NullAssumption, <1>11 DEF Kind, Marks, Words
  <2>4. Busy(s) /\ Kind("review", net[s].k, net[s].a) = "resolve"
    BY <1>2, <1>11
  <2>5. Swap("review", net, net', "resolve", "awaited")
    BY <1>1, <2>2, <2>3, <2>4, Chaining
  <2> QED
    BY <2>1, <2>5 DEF ReviewFlags, Swap
<1>12. CASE Busy(s) /\ net[s].k = "resolve" /\ ReviewResolved(s) /\ ~Ok(s)
  <2>1. Sets(ui.loading, None, ui.applying)
    BY <1>1, <1>12 DEF ReviewResolved, Resume
  <2>2. Less("review", net, net', "resolve")
    BY <1>1, <1>2, <1>12, Ending DEF ReviewResolved, Resume
  <2> QED
    BY <2>1, <2>2 DEF ReviewFlags, Less
<1>13. CASE Busy(s) /\ net[s].k = "rules" /\ ReviewRules(s) /\ net[s].a = None
  <2>1. Sets(ui.loading, ui.busy, (ui.applying /\ TRUE))
    BY <1>1, <1>13 DEF ReviewRules, Resume
  <2>2. Less("review", net, net', "rules")
    BY <1>1, <1>3, <1>13, Ending DEF ReviewRules, Resume
  <2> QED
    BY <2>1, <2>2 DEF ReviewFlags, Less
<1>14. CASE Busy(s) /\ net[s].k = "rules" /\ ReviewRules(s) /\ net[s].a # None
  <2>1. Sets(ui.loading, ui.busy, (ui.applying /\ FALSE))
    BY <1>1, <1>14 DEF ReviewRules, Resume
  <2>2. Less("review", net, net', "later")
    BY <1>1, <1>3, <1>14, Ending DEF ReviewRules, Resume
  <2> QED
    BY <2>1, <2>2 DEF ReviewFlags, Less
<1>15. CASE Busy(s) /\ net[s].k = "apply" /\ ReviewApplied(s) /\ Ok(s)
  <2>1. Sets(ui.loading, ui.busy, ui.applying)
    BY <1>1, <1>15 DEF ReviewApplied, Resume
  <2>2. net' = Send(Rest(s), "rules", "apply")
    BY <1>15 DEF ReviewApplied, Resume
  <2>3. Kind("review", "rules", "apply") = "later"
    BY NullAssumption, <1>15 DEF Kind, Marks, Words
  <2>4. Busy(s) /\ Kind("review", net[s].k, net[s].a) = "apply"
    BY <1>2, <1>15
  <2>5. Swap("review", net, net', "apply", "later")
    BY <1>1, <2>2, <2>3, <2>4, Chaining
  <2> QED
    BY <2>1, <2>5 DEF ReviewFlags, Swap
<1>16. CASE Busy(s) /\ net[s].k = "apply" /\ ReviewApplied(s) /\ ~Ok(s)
  <2>1. Sets(ui.loading, ui.busy, FALSE)
    BY <1>1, <1>16 DEF ReviewApplied, Resume
  <2>2. Less("review", net, net', "apply")
    BY <1>1, <1>2, <1>16, Ending DEF ReviewApplied, Resume
  <2> QED
    BY <2>1, <2>2 DEF ReviewFlags, Less
<1> QED
  BY <1>4, <1>5, <1>6, <1>7, <1>8, <1>9, <1>10, <1>11, <1>12, <1>13, <1>14, <1>15, <1>16
    DEF ReviewUser, ReviewResume

LEMMA ReviewFlagPage ==
    ASSUME screen = "review"
    PROVE  /\ Init => ReviewFlags
           /\ ReviewFlags /\ [Next]_vars => ReviewFlags'
           /\ ReviewFlags => SpinnersWaited /\ OneSubmitAtATime
<1>1. ASSUME Init PROVE ReviewFlags
  <2>1. (\E a \in BOOLEAN : ui = ReviewUi(a)) /\ net = Send(NoCalls, "list", [all |-> FALSE, busy |-> FALSE])
    BY <1>1, Zenon DEF Init
  <2>2. DOMAIN ui = {"admin", "rows", "all", "loading", "busy", "pending", "moved", "applying"} /\ ui.loading = TRUE /\ ui.busy = None /\ ui.applying = FALSE
    BY <2>1 DEF ReviewUi
  <2>3. Kind("review", "list", [all |-> FALSE, busy |-> FALSE]) = "list"
    BY NullAssumption DEF Kind, Marks
  <2>4. More("review", NoCalls, net, "list")
    BY <2>1, <2>3, OneYet
  <2> QED
    BY <2>2, <2>4, NoneYet DEF ReviewFlags, More
<1>2. ASSUME ReviewFlags, [Next]_vars PROVE ReviewFlags'
  <2>1. CASE \E s \in Slots : Serve(s) \/ Fault(s)
    <3>1. CallsIn(net)
      BY <1>2 DEF ReviewFlags
    <3>2. ui' = ui /\ Same("review", net, net')
      BY <2>1, <3>1, ServerFlags
    <3> QED
      BY <1>2, <3>2 DEF ReviewFlags, Same
  <2>2. ASSUME NEW s \in Slots, Act \/ Interval \/ Elsewhere \/ Continue(s)
        PROVE  ReviewFlags'
    <3>1. ReviewUser \/ (Busy(s) /\ ReviewResume(s))
      BY <2>2 DEF Act, Interval, Elsewhere, Continue
    <3> QED
      BY <1>2, <3>1, ReviewFlagStep
  <2>3. CASE UNCHANGED vars
    BY <1>2, <2>3 DEF ReviewFlags, vars
  <2> QED
    BY <1>2, <2>1, <2>2, <2>3, SomeSlot DEF Next
<1>3. ASSUME ReviewFlags PROVE SpinnersWaited /\ OneSubmitAtATime
  <2> DEFINE c2 == ui.busy # None
  <2>1. /\ Spinners = {<<ui.loading, {"list"}>>,
                        <<c2, {"resolve", "list"}>>,
                        <<ui.applying, {"apply", "rules"}>>}
        /\ Submits = {{"resolve"}, {"apply"}}
    BY DEF Spinners, Submits
  <2>2. ui.loading => InFlight({"list"}) # {}
    <3>1. \A k, a : Kind("review", k, a) \in {"list", "awaited"} => k \in {"list"}
      BY NullAssumption DEF Kind, Marks
    <3> QED
      BY <1>3, <3>1, WaitsIsInFlight DEF ReviewFlags
  <2>3. c2 => InFlight({"resolve", "list"}) # {}
    <3>1. \A k, a : Kind("review", k, a) \in {"resolve", "awaited"} => k \in {"resolve", "list"}
      BY NullAssumption DEF Kind, Marks
    <3> QED
      BY <1>3, <3>1, WaitsIsInFlight DEF ReviewFlags
  <2>4. ui.applying => InFlight({"apply", "rules"}) # {}
    <3>1. \A k, a : Kind("review", k, a) \in {"apply", "later"} => k \in {"apply", "rules"}
      BY NullAssumption DEF Kind, Marks
    <3> QED
      BY <1>3, <3>1, WaitsIsInFlight DEF ReviewFlags
  <2>5. Cardinality(InFlight({"resolve"})) <= 1
    <3>1. \A k, a : k \in {"resolve"} => Kind("review", k, a) \in {"resolve", "awaited"}
      BY NullAssumption DEF Kind, Marks
    <3> QED
      BY <1>3, <3>1, AloneIsOne DEF ReviewFlags
  <2>6. Cardinality(InFlight({"apply"})) <= 1
    <3>1. \A k, a : k \in {"apply"} => Kind("review", k, a) \in {"apply", "later"}
      BY NullAssumption DEF Kind, Marks
    <3> QED
      BY <1>3, <3>1, AloneIsOne DEF ReviewFlags
  <2> HIDE DEF c2
  <2> QED
    BY <2>1, <2>2, <2>3, <2>4, <2>5, <2>6 DEF SpinnersWaited, OneSubmitAtATime
<1> QED
  BY <1>1, <1>2, <1>3

----------------------------------------------------------------------------
(* The routing policy.                                                     *)

PolicyFlags ==
    /\ CallsIn(net) /\ DOMAIN ui = {"admin", "loading", "policy", "draft", "versions", "saving"}
    /\ ui.loading => Waits("policy", net, {"list"})
    /\ ui.saving <=> Waits("policy", net, {"save"})
    /\ Alone("policy", net, {"save"})

LEMMA PolicyFlagStep ==
    ASSUME PolicyFlags, NEW s \in Slots, PolicyUser \/ (Busy(s) /\ PolicyResume(s))
    PROVE  PolicyFlags'
<1> DEFINE Sets(v0, v1) == DOMAIN ui' = DOMAIN ui /\ ui'.loading = v0 /\ ui'.saving = v1
<1>1. CallsIn(net) /\ DOMAIN ui = {"admin", "loading", "policy", "draft", "versions", "saving"}
  BY DEF PolicyFlags
<1>2. \A a : /\ Kind("policy", "list", a) = "list"
             /\ Kind("policy", "save", a) = "save"
             /\ Kind("policy", "rollback", a) = "rollback"
  BY DEF Kind, Marks
<1>3. PolicyUser => (\E d : PolicyDraft(d)) \/ PolicySave \/ \E v : PolicyRollback(v)
  BY Zenon DEF PolicyUser, PolicyPatchStage, PolicyAddStage, PolicyRemoveStage, PolicyMoveStage, PolicyMode, PolicyReview, PolicyDiscard
<1>4. CASE \E d : PolicyDraft(d)
  <2>1. Sets(ui.loading, ui.saving)
    BY <1>1, <1>4 DEF PolicyDraft, User
  <2>2. net' = net
    BY <1>4 DEF PolicyDraft, User
  <2> QED
    BY <2>1, <2>2 DEF PolicyFlags
<1>5. CASE PolicySave
  <2>1. Sets(ui.loading, TRUE) /\ ~ui.saving
    BY <1>1, <1>5 DEF PolicySave, Ask
  <2>2. More("policy", net, net', "save")
    BY <1>1, <1>2, <1>5, Asking DEF PolicySave, Ask
  <2> QED
    BY <2>1, <2>2 DEF PolicyFlags, More
<1>6. CASE \E v : PolicyRollback(v)
  <2>1. Sets(ui.loading, ui.saving)
    BY <1>1, <1>6 DEF PolicyRollback, Ask
  <2>2. More("policy", net, net', "rollback")
    BY <1>1, <1>2, <1>6, Asking DEF PolicyRollback, Ask
  <2> QED
    BY <2>1, <2>2 DEF PolicyFlags, More
<1>7. CASE Busy(s) /\ net[s].k = "list" /\ PolicyLoaded(s)
  <2>1. Sets(FALSE, ui.saving)
    BY <1>1, <1>7 DEF PolicyLoaded, Resume
  <2>2. Less("policy", net, net', "list")
    BY <1>1, <1>2, <1>7, Ending DEF PolicyLoaded, Resume
  <2> QED
    BY <2>1, <2>2 DEF PolicyFlags, Less
<1>8. CASE Busy(s) /\ net[s].k = "save" /\ PolicySaved(s) /\ Ok(s)
  <2>1. Sets(TRUE, FALSE)
    BY <1>1, <1>8 DEF PolicySaved, Refresh, Resume
  <2>2. Swap("policy", net, net', "save", "list")
    BY <1>1, <1>2, <1>8, Chaining DEF PolicySaved, Refresh, Resume
  <2> QED
    BY <2>1, <2>2 DEF PolicyFlags, Swap
<1>9. CASE Busy(s) /\ net[s].k = "save" /\ PolicySaved(s) /\ ~Ok(s)
  <2>1. Sets(ui.loading, FALSE)
    BY <1>1, <1>9 DEF PolicySaved, Refresh, Resume
  <2>2. Less("policy", net, net', "save")
    BY <1>1, <1>2, <1>9, Ending DEF PolicySaved, Refresh, Resume
  <2> QED
    BY <2>1, <2>2 DEF PolicyFlags, Less
<1>10. CASE Busy(s) /\ net[s].k = "rollback" /\ PolicyRolledBack(s) /\ Ok(s)
  <2>1. Sets(TRUE, ui.saving)
    BY <1>1, <1>10 DEF PolicyRolledBack, Refresh, Resume
  <2>2. Swap("policy", net, net', "rollback", "list")
    BY <1>1, <1>2, <1>10, Chaining DEF PolicyRolledBack, Refresh, Resume
  <2> QED
    BY <2>1, <2>2 DEF PolicyFlags, Swap
<1>11. CASE Busy(s) /\ net[s].k = "rollback" /\ PolicyRolledBack(s) /\ ~Ok(s)
  <2>1. Sets(ui.loading, ui.saving)
    BY <1>1, <1>11 DEF PolicyRolledBack, Refresh, Resume
  <2>2. Less("policy", net, net', "rollback")
    BY <1>1, <1>2, <1>11, Ending DEF PolicyRolledBack, Refresh, Resume
  <2> QED
    BY <2>1, <2>2 DEF PolicyFlags, Less
<1> QED
  BY <1>3, <1>4, <1>5, <1>6, <1>7, <1>8, <1>9, <1>10, <1>11 DEF PolicyResume

LEMMA PolicyFlagPage ==
    ASSUME screen = "policy"
    PROVE  /\ Init => PolicyFlags
           /\ PolicyFlags /\ [Next]_vars => PolicyFlags'
           /\ PolicyFlags => SpinnersWaited /\ OneSubmitAtATime
<1>1. ASSUME Init PROVE PolicyFlags
  <2>1. (\E a \in BOOLEAN : ui = PolicyUi(a)) /\ net = Send(NoCalls, "list", None)
    BY <1>1, Zenon DEF Init
  <2>2. DOMAIN ui = {"admin", "loading", "policy", "draft", "versions", "saving"} /\ ui.loading = TRUE /\ ui.saving = FALSE
    BY <2>1 DEF PolicyUi
  <2>3. Kind("policy", "list", None) = "list"
    BY DEF Kind, Marks
  <2>4. More("policy", NoCalls, net, "list")
    BY <2>1, <2>3, OneYet
  <2> QED
    BY <2>2, <2>4, NoneYet DEF PolicyFlags, More
<1>2. ASSUME PolicyFlags, [Next]_vars PROVE PolicyFlags'
  <2>1. CASE \E s \in Slots : Serve(s) \/ Fault(s)
    <3>1. CallsIn(net)
      BY <1>2 DEF PolicyFlags
    <3>2. ui' = ui /\ Same("policy", net, net')
      BY <2>1, <3>1, ServerFlags
    <3> QED
      BY <1>2, <3>2 DEF PolicyFlags, Same
  <2>2. ASSUME NEW s \in Slots, Act \/ Interval \/ Elsewhere \/ Continue(s)
        PROVE  PolicyFlags'
    <3>1. PolicyUser \/ (Busy(s) /\ PolicyResume(s))
      BY <2>2 DEF Act, Interval, Elsewhere, Continue
    <3> QED
      BY <1>2, <3>1, PolicyFlagStep
  <2>3. CASE UNCHANGED vars
    BY <1>2, <2>3 DEF PolicyFlags, vars
  <2> QED
    BY <1>2, <2>1, <2>2, <2>3, SomeSlot DEF Next
<1>3. ASSUME PolicyFlags PROVE SpinnersWaited /\ OneSubmitAtATime
  <2>1. /\ Spinners = {<<ui.loading, {"list"}>>, <<ui.saving, {"save"}>>}
        /\ Submits = {{"save"}}
    BY DEF Spinners, Submits
  <2>2. ui.loading => InFlight({"list"}) # {}
    <3>1. \A k, a : Kind("policy", k, a) \in {"list"} => k \in {"list"}
      BY DEF Kind, Marks
    <3> QED
      BY <1>3, <3>1, WaitsIsInFlight DEF PolicyFlags
  <2>3. ui.saving => InFlight({"save"}) # {}
    <3>1. \A k, a : Kind("policy", k, a) \in {"save"} => k \in {"save"}
      BY DEF Kind, Marks
    <3> QED
      BY <1>3, <3>1, WaitsIsInFlight DEF PolicyFlags
  <2>4. Cardinality(InFlight({"save"})) <= 1
    <3>1. \A k, a : k \in {"save"} => Kind("policy", k, a) \in {"save"}
      BY DEF Kind, Marks
    <3> QED
      BY <1>3, <3>1, AloneIsOne DEF PolicyFlags
  <2> QED
    BY <2>1, <2>2, <2>3, <2>4 DEF SpinnersWaited, OneSubmitAtATime
<1> QED
  BY <1>1, <1>2, <1>3

----------------------------------------------------------------------------
(* The routing test.                                                       *)

RouteTestFlags ==
    /\ CallsIn(net) /\ DOMAIN ui = {"file", "path", "running", "simulating", "result"}
    /\ ui.running <=> Waits("routetest", net, {"preview"})
    /\ Alone("routetest", net, {"preview"})
    /\ ui.simulating => Waits("routetest", net, {"simulate"})

LEMMA RouteTestFlagStep ==
    ASSUME RouteTestFlags, NEW s \in Slots, RouteTestUser \/ (Busy(s) /\ RouteTestResume(s))
    PROVE  RouteTestFlags'
<1> DEFINE Sets(v0, v1) == DOMAIN ui' = DOMAIN ui /\ ui'.running = v0 /\ ui'.simulating = v1
<1>1. CallsIn(net) /\ DOMAIN ui = {"file", "path", "running", "simulating", "result"}
  BY DEF RouteTestFlags
<1>2. \A a : /\ Kind("routetest", "preview", a) = "preview"
             /\ Kind("routetest", "simulate", a) = "simulate"
  BY DEF Kind, Marks
<1>3. CASE (\E f \in Rows : RouteTestFile(f)) \/ \E p \in {"p", "q"} \ {ui.path} : RouteTestPath(p)
  <2>1. Sets(ui.running, ui.simulating)
    BY <1>1, <1>3 DEF RouteTestFile, RouteTestPath, User
  <2>2. net' = net
    BY <1>3 DEF RouteTestFile, RouteTestPath, User
  <2> QED
    BY <2>1, <2>2 DEF RouteTestFlags
<1>4. CASE RouteTestRun
  <2>1. Sets(TRUE, ui.simulating) /\ ~ui.running
    BY <1>1, <1>4 DEF RouteTestRun, Ask
  <2>2. More("routetest", net, net', "preview")
    BY <1>1, <1>2, <1>4, Asking DEF RouteTestRun, Ask
  <2> QED
    BY <2>1, <2>2 DEF RouteTestFlags, More
<1>5. CASE RouteTestRunPathSim
  <2>0. Ask([ui EXCEPT !.simulating = TRUE], "simulate", [path |-> ui.path])
    BY <1>5, Zenon DEF RouteTestRunPathSim
  <2>1. Sets(ui.running, TRUE)
    BY <1>1, <2>0 DEF Ask
  <2>2. More("routetest", net, net', "simulate")
    BY <1>1, <1>2, <2>0, Asking DEF Ask
  <2> QED
    BY <2>1, <2>2 DEF RouteTestFlags, More
<1>6. CASE Busy(s) /\ net[s].k = "preview" /\ RouteTested(s)
  <2>1. Sets(FALSE, ui.simulating)
    BY <1>1, <1>6 DEF RouteTested, Resume
  <2>2. Less("routetest", net, net', "preview")
    BY <1>1, <1>2, <1>6, Ending DEF RouteTested, Resume
  <2> QED
    BY <2>1, <2>2 DEF RouteTestFlags, Less
<1>7. CASE Busy(s) /\ net[s].k = "simulate" /\ RouteTested(s)
  <2>1. Sets(ui.running, FALSE)
    BY <1>1, <1>7 DEF RouteTested, Resume
  <2>2. Less("routetest", net, net', "simulate")
    BY <1>1, <1>2, <1>7, Ending DEF RouteTested, Resume
  <2> QED
    BY <2>1, <2>2 DEF RouteTestFlags, Less
<1> QED
  BY <1>3, <1>4, <1>5, <1>6, <1>7 DEF RouteTestUser, RouteTestResume

LEMMA RouteTestFlagPage ==
    ASSUME screen = "routetest"
    PROVE  /\ Init => RouteTestFlags
           /\ RouteTestFlags /\ [Next]_vars => RouteTestFlags'
           /\ RouteTestFlags => SpinnersWaited /\ OneSubmitAtATime
<1>1. ASSUME Init PROVE RouteTestFlags
  <2> DEFINE none == ""
  <2>1. ui = [file |-> None, path |-> none, running |-> FALSE, simulating |-> FALSE, result |-> None]
        /\ net = NoCalls
    BY <1>1, Zenon DEF Init, RouteTestUi
  <2> HIDE DEF none
  <2>2. DOMAIN ui = {"file", "path", "running", "simulating", "result"} /\ ui.running = FALSE /\ ui.simulating = FALSE
    BY <2>1
  <2> QED
    BY <2>1, <2>2, NoneYet DEF RouteTestFlags
<1>2. ASSUME RouteTestFlags, [Next]_vars PROVE RouteTestFlags'
  <2>1. CASE \E s \in Slots : Serve(s) \/ Fault(s)
    <3>1. CallsIn(net)
      BY <1>2 DEF RouteTestFlags
    <3>2. ui' = ui /\ Same("routetest", net, net')
      BY <2>1, <3>1, ServerFlags
    <3> QED
      BY <1>2, <3>2 DEF RouteTestFlags, Same
  <2>2. ASSUME NEW s \in Slots, Act \/ Interval \/ Elsewhere \/ Continue(s)
        PROVE  RouteTestFlags'
    <3>1. RouteTestUser \/ (Busy(s) /\ RouteTestResume(s))
      BY <2>2 DEF Act, Interval, Elsewhere, Continue
    <3> QED
      BY <1>2, <3>1, RouteTestFlagStep
  <2>3. CASE UNCHANGED vars
    BY <1>2, <2>3 DEF RouteTestFlags, vars
  <2> QED
    BY <1>2, <2>1, <2>2, <2>3, SomeSlot DEF Next
<1>3. ASSUME RouteTestFlags PROVE SpinnersWaited /\ OneSubmitAtATime
  <2>1. /\ Spinners = {<<ui.running, {"preview"}>>, <<ui.simulating, {"simulate"}>>}
        /\ Submits = {{"preview"}}
    BY DEF Spinners, Submits
  <2>2. ui.running => InFlight({"preview"}) # {}
    <3>1. \A k, a : Kind("routetest", k, a) \in {"preview"} => k \in {"preview"}
      BY DEF Kind, Marks
    <3> QED
      BY <1>3, <3>1, WaitsIsInFlight DEF RouteTestFlags
  <2>3. ui.simulating => InFlight({"simulate"}) # {}
    <3>1. \A k, a : Kind("routetest", k, a) \in {"simulate"} => k \in {"simulate"}
      BY DEF Kind, Marks
    <3> QED
      BY <1>3, <3>1, WaitsIsInFlight DEF RouteTestFlags
  <2>4. Cardinality(InFlight({"preview"})) <= 1
    <3>1. \A k, a : k \in {"preview"} => Kind("routetest", k, a) \in {"preview"}
      BY DEF Kind, Marks
    <3> QED
      BY <1>3, <3>1, AloneIsOne DEF RouteTestFlags
  <2> QED
    BY <2>1, <2>2, <2>3, <2>4 DEF SpinnersWaited, OneSubmitAtATime
<1> QED
  BY <1>1, <1>2, <1>3

----------------------------------------------------------------------------
(* The intake of documents.                                                *)

IntakeFlags ==
    /\ CallsIn(net) /\ DOMAIN ui = {"admin", "file", "running", "result", "source", "prefix", "scanning", "report"}
    /\ ui.running <=> Waits("intake", net, {"intake"})
    /\ Alone("intake", net, {"intake"})
    /\ ui.scanning # "no" <=> Waits("intake", net, {"scan"})
    /\ Alone("intake", net, {"scan"})

LEMMA IntakeFlagStep ==
    ASSUME IntakeFlags, NEW s \in Slots, IntakeUser \/ (Busy(s) /\ IntakeResume(s))
    PROVE  IntakeFlags'
<1> DEFINE Sets(v0, v1) == DOMAIN ui' = DOMAIN ui /\ ui'.running = v0 /\ ui'.scanning = v1
<1>1. CallsIn(net) /\ DOMAIN ui = {"admin", "file", "running", "result", "source", "prefix", "scanning", "report"}
  BY DEF IntakeFlags
<1>2. \A a : /\ Kind("intake", "intake", a) = "intake"
             /\ Kind("intake", "scan", a) = "scan"
  BY DEF Kind, Marks
<1>3. CASE (\E f \in Rows : IntakeFile(f)) \/ IntakePrefix
  <2>1. Sets(ui.running, ui.scanning)
    BY <1>1, <1>3 DEF IntakeFile, IntakePrefix, User
  <2>2. net' = net
    BY <1>3 DEF IntakeFile, IntakePrefix, User
  <2> QED
    BY <2>1, <2>2 DEF IntakeFlags
<1>4. CASE \E r \in Rows : IntakeSource(r)
  <2>0. \E r, p : User([ui EXCEPT !.source = r, !.prefix = p, !.report = None])
    BY <1>4, Zenon DEF IntakeSource
  <2>1. Sets(ui.running, ui.scanning)
    BY <1>1, <2>0 DEF User
  <2>2. net' = net
    BY <2>0 DEF User
  <2> QED
    BY <2>1, <2>2 DEF IntakeFlags
<1>5. CASE IntakeFinish
  <2>1. Sets(TRUE, ui.scanning) /\ ~ui.running
    BY <1>1, <1>5 DEF IntakeFinish, Ask
  <2>2. More("intake", net, net', "intake")
    BY <1>1, <1>2, <1>5, Asking DEF IntakeFinish, Ask
  <2> QED
    BY <2>1, <2>2 DEF IntakeFlags, More
<1>6. CASE \E dry \in BOOLEAN : IntakeRun(dry)
  <2>1. Sets(ui.running, ui'.scanning) /\ ui.scanning = "no" /\ ui'.scanning # "no"
    BY <1>1, <1>6 DEF IntakeRun, Ask
  <2>2. More("intake", net, net', "scan")
    BY <1>1, <1>2, <1>6, Asking DEF IntakeRun, Ask
  <2> QED
    BY <2>1, <2>2 DEF IntakeFlags, More
<1>7. CASE Busy(s) /\ net[s].k = "intake" /\ IntakeDone(s)
  <2>1. Sets(FALSE, ui.scanning)
    BY <1>1, <1>7 DEF IntakeDone, Resume
  <2>2. Less("intake", net, net', "intake")
    BY <1>1, <1>2, <1>7, Ending DEF IntakeDone, Resume
  <2> QED
    BY <2>1, <2>2 DEF IntakeFlags, Less
<1>8. CASE Busy(s) /\ net[s].k = "scan" /\ IntakeScanned(s)
  <2>1. Sets(ui.running, "no")
    BY <1>1, <1>8 DEF IntakeScanned, Resume
  <2>2. Less("intake", net, net', "scan")
    BY <1>1, <1>2, <1>8, Ending DEF IntakeScanned, Resume
  <2> QED
    BY <2>1, <2>2 DEF IntakeFlags, Less
<1> QED
  BY <1>3, <1>4, <1>5, <1>6, <1>7, <1>8 DEF IntakeUser, IntakeResume

LEMMA IntakeFlagPage ==
    ASSUME screen = "intake"
    PROVE  /\ Init => IntakeFlags
           /\ IntakeFlags /\ [Next]_vars => IntakeFlags'
           /\ IntakeFlags => SpinnersWaited /\ OneSubmitAtATime
<1>1. ASSUME Init PROVE IntakeFlags
  <2> DEFINE none == ""
  <2>1. (\E a \in BOOLEAN : ui = [admin |-> a, file |-> None, running |-> FALSE, result |-> None, source |-> None, prefix |-> none, scanning |-> "no", report |-> None])
        /\ net = NoCalls
    BY <1>1, Zenon DEF Init, IntakeUi
  <2> HIDE DEF none
  <2>2. DOMAIN ui = {"admin", "file", "running", "result", "source", "prefix", "scanning", "report"} /\ ui.running = FALSE /\ ui.scanning = "no"
    BY <2>1
  <2> QED
    BY <2>1, <2>2, NoneYet DEF IntakeFlags
<1>2. ASSUME IntakeFlags, [Next]_vars PROVE IntakeFlags'
  <2>1. CASE \E s \in Slots : Serve(s) \/ Fault(s)
    <3>1. CallsIn(net)
      BY <1>2 DEF IntakeFlags
    <3>2. ui' = ui /\ Same("intake", net, net')
      BY <2>1, <3>1, ServerFlags
    <3> QED
      BY <1>2, <3>2 DEF IntakeFlags, Same
  <2>2. ASSUME NEW s \in Slots, Act \/ Interval \/ Elsewhere \/ Continue(s)
        PROVE  IntakeFlags'
    <3>1. IntakeUser \/ (Busy(s) /\ IntakeResume(s))
      BY <2>2 DEF Act, Interval, Elsewhere, Continue
    <3> QED
      BY <1>2, <3>1, IntakeFlagStep
  <2>3. CASE UNCHANGED vars
    BY <1>2, <2>3 DEF IntakeFlags, vars
  <2> QED
    BY <1>2, <2>1, <2>2, <2>3, SomeSlot DEF Next
<1>3. ASSUME IntakeFlags PROVE SpinnersWaited /\ OneSubmitAtATime
  <2> DEFINE c2 == ui.scanning # "no"
  <2>1. /\ Spinners = {<<ui.running, {"intake"}>>, <<c2, {"scan"}>>}
        /\ Submits = {{"intake"}, {"scan"}}
    BY DEF Spinners, Submits
  <2>2. ui.running => InFlight({"intake"}) # {}
    <3>1. \A k, a : Kind("intake", k, a) \in {"intake"} => k \in {"intake"}
      BY DEF Kind, Marks
    <3> QED
      BY <1>3, <3>1, WaitsIsInFlight DEF IntakeFlags
  <2>3. c2 => InFlight({"scan"}) # {}
    <3>1. \A k, a : Kind("intake", k, a) \in {"scan"} => k \in {"scan"}
      BY DEF Kind, Marks
    <3> QED
      BY <1>3, <3>1, WaitsIsInFlight DEF IntakeFlags
  <2>4. Cardinality(InFlight({"intake"})) <= 1
    <3>1. \A k, a : k \in {"intake"} => Kind("intake", k, a) \in {"intake"}
      BY DEF Kind, Marks
    <3> QED
      BY <1>3, <3>1, AloneIsOne DEF IntakeFlags
  <2>5. Cardinality(InFlight({"scan"})) <= 1
    <3>1. \A k, a : k \in {"scan"} => Kind("intake", k, a) \in {"scan"}
      BY DEF Kind, Marks
    <3> QED
      BY <1>3, <3>1, AloneIsOne DEF IntakeFlags
  <2> HIDE DEF c2
  <2> QED
    BY <2>1, <2>2, <2>3, <2>4, <2>5 DEF SpinnersWaited, OneSubmitAtATime
<1> QED
  BY <1>1, <1>2, <1>3

----------------------------------------------------------------------------
(* The analysis of images.                                                 *)

AnalyzeFlags ==
    /\ CallsIn(net) /\ DOMAIN ui = {"phase", "items", "done", "total", "url", "hist"}
    /\ ui.phase = "extracting" <=> Waits("analyze", net, {"extract"})
    /\ ui.phase = "analyzing" <=> Waits("analyze", net, {"analyze"})
    /\ ui.phase \in {"extracting", "analyzing"} <=> Waits("analyze", net, {"extract", "analyze"})
    /\ Alone("analyze", net, {"extract", "analyze"})
    /\ Alone("analyze", net, {"extract"})
    /\ Alone("analyze", net, {"analyze"})

LEMMA AnalyzeFlagStep ==
    ASSUME AnalyzeFlags, NEW s \in Slots, AnalyzeUser \/ (Busy(s) /\ AnalyzeResume(s))
    PROVE  AnalyzeFlags'
<1> DEFINE Sets(v0) == DOMAIN ui' = DOMAIN ui /\ ui'.phase = v0
<1>1. CallsIn(net) /\ DOMAIN ui = {"phase", "items", "done", "total", "url", "hist"}
  BY DEF AnalyzeFlags
<1>2. \A a : /\ Kind("analyze", "extract", a) = "extract"
             /\ Kind("analyze", "analyze", a) = "analyze"
             /\ Kind("analyze", "list", a) = "list"
  BY DEF Kind, Marks
<1>3. CASE AnalyzePanel \/ AnalyzeClear \/ \E r \in Present(ui.items) : AnalyzeToggle(r)
  <2>1. Sets(ui.phase)
    BY <1>1, <1>3 DEF AnalyzePanel, AnalyzeClear, AnalyzeToggle, User
  <2>2. net' = net
    BY <1>3 DEF AnalyzePanel, AnalyzeClear, AnalyzeToggle, User
  <2> QED
    BY <2>1, <2>2 DEF AnalyzeFlags
<1>4. CASE (\E n \in 1..MaxFiles : AnalyzeFiles(n)) \/ AnalyzeUrl
  <2>1. Sets("extracting") /\ ui.phase \notin {"extracting", "analyzing"}
    BY <1>1, <1>4 DEF AnalyzeFiles, AnalyzeUrl, AnalyzeStart, Ask, AnalyzeBusy
  <2>2. More("analyze", net, net', "extract")
    BY <1>1, <1>2, <1>4, Asking DEF AnalyzeFiles, AnalyzeUrl, AnalyzeStart, Ask, AnalyzeBusy
  <2> QED
    BY <2>1, <2>2 DEF AnalyzeFlags, More
<1>5. CASE AnalyzeRun
  <2>1. Sets("analyzing") /\ ui.phase \notin {"extracting", "analyzing"}
    BY <1>1, <1>5 DEF AnalyzeRun, Ask, AnalyzeBusy
  <2>2. More("analyze", net, net', "analyze")
    BY <1>1, <1>2, <1>5, Asking DEF AnalyzeRun, Ask, AnalyzeBusy
  <2> QED
    BY <2>1, <2>2 DEF AnalyzeFlags, More
<1>6. CASE Busy(s) /\ net[s].k = "extract" /\ AnalyzeExtracted(s) /\ (~Ok(s) \/ net[s].a = 1)
  <2>1. Sets("ready")
    BY <1>1, <1>6 DEF AnalyzeExtracted, AnalyzeBatchDone, Resume
  <2>2. Swap("analyze", net, net', "extract", "list")
    BY <1>1, <1>2, <1>6, Chaining DEF AnalyzeExtracted, AnalyzeBatchDone, Resume
  <2> QED
    BY <2>1, <2>2 DEF AnalyzeFlags, Swap
<1>7. CASE Busy(s) /\ net[s].k = "extract" /\ AnalyzeExtracted(s) /\ Ok(s) /\ net[s].a # 1
  <2>1. Sets(ui.phase)
    BY <1>1, <1>7 DEF AnalyzeExtracted, AnalyzeBatchDone, Resume
  <2>2. Swap("analyze", net, net', "extract", "extract")
    BY <1>1, <1>2, <1>7, Chaining DEF AnalyzeExtracted, AnalyzeBatchDone, Resume
  <2> QED
    BY <2>1, <2>2 DEF AnalyzeFlags, Swap
<1>8. CASE Busy(s) /\ net[s].k = "analyze" /\ AnalyzeItem(s) /\ (~Ok(s) \/ net[s].a.todo = {})
  <2>1. Sets("done")
    BY <1>1, <1>8 DEF AnalyzeItem, AnalyzeBatchDone, Resume
  <2>2. Swap("analyze", net, net', "analyze", "list")
    BY <1>1, <1>2, <1>8, Chaining DEF AnalyzeItem, AnalyzeBatchDone, Resume
  <2> QED
    BY <2>1, <2>2 DEF AnalyzeFlags, Swap
<1>9. CASE Busy(s) /\ net[s].k = "analyze" /\ AnalyzeItem(s) /\ Ok(s) /\ net[s].a.todo # {}
  <2>1. Sets(ui.phase)
    BY <1>1, <1>9 DEF AnalyzeItem, AnalyzeBatchDone, Resume
  <2>2. Swap("analyze", net, net', "analyze", "analyze")
    BY <1>1, <1>2, <1>9, Chaining DEF AnalyzeItem, AnalyzeBatchDone, Resume
  <2> QED
    BY <2>1, <2>2 DEF AnalyzeFlags, Swap
<1>10. CASE Busy(s) /\ net[s].k = "list" /\ AnalyzeListed(s)
  <2>1. Sets(ui.phase)
    BY <1>1, <1>10 DEF AnalyzeListed, Resume
  <2>2. Less("analyze", net, net', "list")
    BY <1>1, <1>2, <1>10, Ending DEF AnalyzeListed, Resume
  <2> QED
    BY <2>1, <2>2 DEF AnalyzeFlags, Less
<1> QED
  BY <1>3, <1>4, <1>5, <1>6, <1>7, <1>8, <1>9, <1>10 DEF AnalyzeUser, AnalyzeResume

LEMMA AnalyzeFlagPage ==
    ASSUME screen = "analyze"
    PROVE  /\ Init => AnalyzeFlags
           /\ AnalyzeFlags /\ [Next]_vars => AnalyzeFlags'
           /\ AnalyzeFlags => SpinnersWaited /\ OneSubmitAtATime
<1>1. ASSUME Init PROVE AnalyzeFlags
  <2>1. ui = AnalyzeUi /\ net = NoCalls
    BY <1>1, Zenon DEF Init
  <2>2. DOMAIN ui = {"phase", "items", "done", "total", "url", "hist"} /\ ui.phase = "idle"
    BY <2>1 DEF AnalyzeUi
  <2> QED
    BY <2>1, <2>2, NoneYet DEF AnalyzeFlags
<1>2. ASSUME AnalyzeFlags, [Next]_vars PROVE AnalyzeFlags'
  <2>1. CASE \E s \in Slots : Serve(s) \/ Fault(s)
    <3>1. CallsIn(net)
      BY <1>2 DEF AnalyzeFlags
    <3>2. ui' = ui /\ Same("analyze", net, net')
      BY <2>1, <3>1, ServerFlags
    <3> QED
      BY <1>2, <3>2 DEF AnalyzeFlags, Same
  <2>2. ASSUME NEW s \in Slots, Act \/ Interval \/ Elsewhere \/ Continue(s)
        PROVE  AnalyzeFlags'
    <3>1. AnalyzeUser \/ (Busy(s) /\ AnalyzeResume(s))
      BY <2>2 DEF Act, Interval, Elsewhere, Continue
    <3> QED
      BY <1>2, <3>1, AnalyzeFlagStep
  <2>3. CASE UNCHANGED vars
    BY <1>2, <2>3 DEF AnalyzeFlags, vars
  <2> QED
    BY <1>2, <2>1, <2>2, <2>3, SomeSlot DEF Next
<1>3. ASSUME AnalyzeFlags PROVE SpinnersWaited /\ OneSubmitAtATime
  <2> DEFINE c1 == ui.phase = "extracting"
             c2 == ui.phase = "analyzing"
  <2>1. /\ Spinners = {<<c1, {"extract"}>>, <<c2, {"analyze"}>>}
        /\ Submits = {{"extract", "analyze"}}
    BY DEF Spinners, Submits
  <2>2. c1 => InFlight({"extract"}) # {}
    <3>1. \A k, a : Kind("analyze", k, a) \in {"extract"} => k \in {"extract"}
      BY DEF Kind, Marks
    <3> QED
      BY <1>3, <3>1, WaitsIsInFlight DEF AnalyzeFlags
  <2>3. c2 => InFlight({"analyze"}) # {}
    <3>1. \A k, a : Kind("analyze", k, a) \in {"analyze"} => k \in {"analyze"}
      BY DEF Kind, Marks
    <3> QED
      BY <1>3, <3>1, WaitsIsInFlight DEF AnalyzeFlags
  <2>4. Cardinality(InFlight({"extract", "analyze"})) <= 1
    <3>1. \A k, a : k \in {"extract", "analyze"} => Kind("analyze", k, a) \in {"extract", "analyze"}
      BY DEF Kind, Marks
    <3> QED
      BY <1>3, <3>1, AloneIsOne DEF AnalyzeFlags
  <2> HIDE DEF c1, c2
  <2> QED
    BY <2>1, <2>2, <2>3, <2>4 DEF SpinnersWaited, OneSubmitAtATime
<1> QED
  BY <1>1, <1>2, <1>3

----------------------------------------------------------------------------
(* The history of runs.                                                    *)

HistoryFlags ==
    /\ CallsIn(net) /\ DOMAIN ui = {"rows", "loading", "sel", "detail", "dloading", "picked", "analyzing", "dlg", "deleting", "ids"}
    /\ ui.loading => Waits("history", net, {"list"})
    /\ ui.dloading => Waits("history", net, {"detail"})
    /\ ui.analyzing <=> Waits("history", net, {"analyze", "end"})
    /\ Alone("history", net, {"analyze", "end"})
    /\ ui.deleting <=> Waits("history", net, {"delete", "wipe", "bulk"})
    /\ Alone("history", net, {"delete", "wipe", "bulk"})

LEMMA HistoryFlagStep ==
    ASSUME HistoryFlags, NEW s \in Slots, HistoryUser \/ (Busy(s) /\ HistoryResume(s))
    PROVE  HistoryFlags'
<1> DEFINE Sets(v0, v1, v2, v3) == DOMAIN ui' = DOMAIN ui /\ ui'.loading = v0 /\ ui'.dloading = v1 /\ ui'.analyzing = v2 /\ ui'.deleting = v3
<1>1. CallsIn(net) /\ DOMAIN ui = {"rows", "loading", "sel", "detail", "dloading", "picked", "analyzing", "dlg", "deleting", "ids"}
  BY DEF HistoryFlags
<1>2. \A a : /\ Kind("history", "list", a) = "list"
             /\ Kind("history", "detail", a) = "detail"
             /\ Kind("history", "analyze", a) = "analyze"
             /\ Kind("history", "end", a) = "end"
             /\ Kind("history", "delete", a) = "delete"
             /\ Kind("history", "wipe", a) = "wipe"
             /\ Kind("history", "bulk", a) = "bulk"
  BY DEF Kind, Marks
<1>3. CASE HistoryBack \/ HistoryPick \/ HistoryAskDelete \/ HistoryAskBulk \/ HistoryKeep \/ \E r \in Present(ui.rows) : HistoryTick(r)
  <2>1. Sets(ui.loading, ui.dloading, ui.analyzing, ui.deleting)
    BY <1>1, <1>3
      DEF HistoryBack, HistoryPick, HistoryAskDelete, HistoryAskBulk, HistoryKeep, HistoryTick, User
  <2>2. net' = net
    BY <1>3 DEF HistoryBack, HistoryPick, HistoryAskDelete, HistoryAskBulk, HistoryKeep, HistoryTick, User
  <2> QED
    BY <2>1, <2>2 DEF HistoryFlags
<1>4. CASE HistoryRefresh
  <2>1. Sets(TRUE, ui.dloading, ui.analyzing, ui.deleting)
    BY <1>1, <1>4 DEF HistoryRefresh, HistoryReload, Ask
  <2>2. More("history", net, net', "list")
    BY <1>1, <1>2, <1>4, Asking DEF HistoryRefresh, HistoryReload, Ask
  <2> QED
    BY <2>1, <2>2 DEF HistoryFlags, More
<1>5. CASE \E r \in Present(ui.rows) : HistoryOpen(r)
  <2>1. Sets(ui.loading, TRUE, ui.analyzing, ui.deleting)
    BY <1>1, <1>5 DEF HistoryOpen, Ask
  <2>2. More("history", net, net', "detail")
    BY <1>1, <1>2, <1>5, Asking DEF HistoryOpen, Ask
  <2> QED
    BY <2>1, <2>2 DEF HistoryFlags, More
<1>6. CASE HistoryReanalyze
  <2>1. Sets(ui.loading, ui.dloading, TRUE, ui.deleting) /\ ~ui.analyzing
    BY <1>1, <1>6 DEF HistoryReanalyze, Ask
  <2>2. More("history", net, net', "analyze")
    BY <1>1, <1>2, <1>6, Asking DEF HistoryReanalyze, Ask
  <2> QED
    BY <2>1, <2>2 DEF HistoryFlags, More
<1>7. CASE HistoryDelete
  <2>1. Sets(ui.loading, ui.dloading, ui.analyzing, TRUE) /\ ~ui.deleting
    BY <1>1, <1>7 DEF HistoryDelete, Ask
  <2>2. More("history", net, net', "delete")
    BY <1>1, <1>2, <1>7, Asking DEF HistoryDelete, Ask
  <2> QED
    BY <2>1, <2>2 DEF HistoryFlags, More
<1>8. CASE HistoryWipe
  <2>1. Sets(ui.loading, ui.dloading, ui.analyzing, TRUE) /\ ~ui.deleting
    BY <1>1, <1>8 DEF HistoryWipe, Ask
  <2>2. More("history", net, net', "wipe")
    BY <1>1, <1>2, <1>8, Asking DEF HistoryWipe, Ask
  <2> QED
    BY <2>1, <2>2 DEF HistoryFlags, More
<1>9. CASE HistoryBulk
  <2>1. Sets(ui.loading, ui.dloading, ui.analyzing, TRUE) /\ ~ui.deleting
    BY <1>1, <1>9 DEF HistoryBulk, Ask
  <2>2. More("history", net, net', "bulk")
    BY <1>1, <1>2, <1>9, Asking DEF HistoryBulk, Ask
  <2> QED
    BY <2>1, <2>2 DEF HistoryFlags, More
<1>10. CASE Busy(s) /\ net[s].k = "list" /\ HistoryListed(s)
  <2>1. Sets(FALSE, ui.dloading, ui.analyzing, ui.deleting)
    BY <1>1, <1>10 DEF HistoryListed, Resume
  <2>2. Less("history", net, net', "list")
    BY <1>1, <1>2, <1>10, Ending DEF HistoryListed, Resume
  <2> QED
    BY <2>1, <2>2 DEF HistoryFlags, Less
<1>11. CASE Busy(s) /\ net[s].k = "detail" /\ HistoryDetail(s)
  <2>1. Sets(ui.loading, FALSE, ui.analyzing, ui.deleting)
    BY <1>1, <1>11 DEF HistoryDetail, Resume
  <2>2. Less("history", net, net', "detail")
    BY <1>1, <1>2, <1>11, Ending DEF HistoryDetail, Resume
  <2> QED
    BY <2>1, <2>2 DEF HistoryFlags, Less
<1>12. CASE Busy(s) /\ net[s].k = "analyze" /\ HistoryItem(s) /\ Ok(s)
  <2>1. Sets(ui.loading, ui.dloading, ui.analyzing, ui.deleting)
    BY <1>1, <1>12 DEF HistoryItem, Resume
  <2>2. Swap("history", net, net', "analyze", "end")
    BY <1>1, <1>2, <1>12, Chaining DEF HistoryItem, Resume
  <2> QED
    BY <2>1, <2>2 DEF HistoryFlags, Swap
<1>13. CASE Busy(s) /\ net[s].k = "analyze" /\ HistoryItem(s) /\ ~Ok(s)
  <2>1. Sets(ui.loading, ui.dloading, FALSE, ui.deleting)
    BY <1>1, <1>13 DEF HistoryItem, Resume
  <2>2. Less("history", net, net', "analyze")
    BY <1>1, <1>2, <1>13, Ending DEF HistoryItem, Resume
  <2> QED
    BY <2>1, <2>2 DEF HistoryFlags, Less
<1>14. CASE Busy(s) /\ net[s].k = "end" /\ HistoryAnalyzed(s) /\ Ok(s)
  <2>1. Sets(TRUE, ui.dloading, FALSE, ui.deleting)
    BY <1>1, <1>14 DEF HistoryAnalyzed, Refresh, Resume
  <2>2. Swap("history", net, net', "end", "list")
    BY <1>1, <1>2, <1>14, Chaining DEF HistoryAnalyzed, Refresh, Resume
  <2> QED
    BY <2>1, <2>2 DEF HistoryFlags, Swap
<1>15. CASE Busy(s) /\ net[s].k = "end" /\ HistoryAnalyzed(s) /\ ~Ok(s)
  <2>1. Sets(ui.loading, ui.dloading, FALSE, ui.deleting)
    BY <1>1, <1>15 DEF HistoryAnalyzed, Refresh, Resume
  <2>2. Less("history", net, net', "end")
    BY <1>1, <1>2, <1>15, Ending DEF HistoryAnalyzed, Refresh, Resume
  <2> QED
    BY <2>1, <2>2 DEF HistoryFlags, Less
<1>16. CASE Busy(s) /\ net[s].k = "delete" /\ HistoryDeleted(s) /\ Ok(s)
  <2>1. Sets(TRUE, ui.dloading, ui.analyzing, FALSE)
    BY <1>1, <1>16 DEF HistoryDeleted, Refresh, Resume
  <2>2. Swap("history", net, net', "delete", "list")
    BY <1>1, <1>2, <1>16, Chaining DEF HistoryDeleted, Refresh, Resume
  <2> QED
    BY <2>1, <2>2 DEF HistoryFlags, Swap
<1>17. CASE Busy(s) /\ net[s].k = "delete" /\ HistoryDeleted(s) /\ ~Ok(s)
  <2>1. Sets(ui.loading, ui.dloading, ui.analyzing, FALSE)
    BY <1>1, <1>17 DEF HistoryDeleted, Refresh, Resume
  <2>2. Less("history", net, net', "delete")
    BY <1>1, <1>2, <1>17, Ending DEF HistoryDeleted, Refresh, Resume
  <2> QED
    BY <2>1, <2>2 DEF HistoryFlags, Less
<1>18. CASE Busy(s) /\ net[s].k = "wipe" /\ HistoryWiped(s) /\ Ok(s)
  <2>1. Sets(TRUE, ui.dloading, ui.analyzing, FALSE)
    BY <1>1, <1>18 DEF HistoryWiped, Refresh, Resume
  <2>2. Swap("history", net, net', "wipe", "list")
    BY <1>1, <1>2, <1>18, Chaining DEF HistoryWiped, Refresh, Resume
  <2> QED
    BY <2>1, <2>2 DEF HistoryFlags, Swap
<1>19. CASE Busy(s) /\ net[s].k = "wipe" /\ HistoryWiped(s) /\ ~Ok(s)
  <2>1. Sets(ui.loading, ui.dloading, ui.analyzing, FALSE)
    BY <1>1, <1>19 DEF HistoryWiped, Refresh, Resume
  <2>2. Less("history", net, net', "wipe")
    BY <1>1, <1>2, <1>19, Ending DEF HistoryWiped, Refresh, Resume
  <2> QED
    BY <2>1, <2>2 DEF HistoryFlags, Less
<1>20. CASE Busy(s) /\ net[s].k = "bulk" /\ HistoryBulked(s) /\ net[s].a \ {CHOOSE r \in net[s].a : TRUE} # {}
  <2>1. Sets(ui.loading, ui.dloading, ui.analyzing, ui.deleting)
    BY <1>1, <1>20 DEF HistoryBulked, Resume, Refresh
  <2>2. Swap("history", net, net', "bulk", "bulk")
    BY <1>1, <1>2, <1>20, Chaining DEF HistoryBulked, Resume, Refresh
  <2> QED
    BY <2>1, <2>2 DEF HistoryFlags, Swap
<1>21. CASE Busy(s) /\ net[s].k = "bulk" /\ HistoryBulked(s) /\ net[s].a \ {CHOOSE r \in net[s].a : TRUE} = {}
  <2>1. Sets(TRUE, ui.dloading, ui.analyzing, FALSE)
    BY <1>1, <1>21 DEF HistoryBulked, Resume, Refresh
  <2>2. Swap("history", net, net', "bulk", "list")
    BY <1>1, <1>2, <1>21, Chaining DEF HistoryBulked, Resume, Refresh
  <2> QED
    BY <2>1, <2>2 DEF HistoryFlags, Swap
<1> QED
  BY <1>3, <1>4, <1>5, <1>6, <1>7, <1>8, <1>9, <1>10, <1>11, <1>12, <1>13, <1>14, <1>15, <1>16, <1>17, <1>18,
    <1>19, <1>20, <1>21
    DEF HistoryUser, HistoryResume

LEMMA HistoryFlagPage ==
    ASSUME screen = "history"
    PROVE  /\ Init => HistoryFlags
           /\ HistoryFlags /\ [Next]_vars => HistoryFlags'
           /\ HistoryFlags => SpinnersWaited /\ OneSubmitAtATime
<1>1. ASSUME Init PROVE HistoryFlags
  <2>1. ui = HistoryUi /\ net = Send(NoCalls, "list", None)
    BY <1>1, Zenon DEF Init
  <2>2. DOMAIN ui = {"rows", "loading", "sel", "detail", "dloading", "picked", "analyzing", "dlg", "deleting", "ids"} /\ ui.loading = TRUE /\ ui.dloading = FALSE /\ ui.analyzing = FALSE /\ ui.deleting = FALSE
    BY <2>1 DEF HistoryUi
  <2>3. Kind("history", "list", None) = "list"
    BY DEF Kind, Marks
  <2>4. More("history", NoCalls, net, "list")
    BY <2>1, <2>3, OneYet
  <2> QED
    BY <2>2, <2>4, NoneYet DEF HistoryFlags, More
<1>2. ASSUME HistoryFlags, [Next]_vars PROVE HistoryFlags'
  <2>1. CASE \E s \in Slots : Serve(s) \/ Fault(s)
    <3>1. CallsIn(net)
      BY <1>2 DEF HistoryFlags
    <3>2. ui' = ui /\ Same("history", net, net')
      BY <2>1, <3>1, ServerFlags
    <3> QED
      BY <1>2, <3>2 DEF HistoryFlags, Same
  <2>2. ASSUME NEW s \in Slots, Act \/ Interval \/ Elsewhere \/ Continue(s)
        PROVE  HistoryFlags'
    <3>1. HistoryUser \/ (Busy(s) /\ HistoryResume(s))
      BY <2>2 DEF Act, Interval, Elsewhere, Continue
    <3> QED
      BY <1>2, <3>1, HistoryFlagStep
  <2>3. CASE UNCHANGED vars
    BY <1>2, <2>3 DEF HistoryFlags, vars
  <2> QED
    BY <1>2, <2>1, <2>2, <2>3, SomeSlot DEF Next
<1>3. ASSUME HistoryFlags PROVE SpinnersWaited /\ OneSubmitAtATime
  <2>1. /\ Spinners = {<<ui.loading, {"list"}>>,
                        <<ui.dloading, {"detail"}>>,
                        <<ui.analyzing, {"analyze", "end"}>>,
                        <<ui.deleting, {"delete", "wipe", "bulk"}>>}
        /\ Submits = {{"delete", "wipe", "bulk"}, {"analyze", "end"}}
    BY DEF Spinners, Submits
  <2>2. ui.loading => InFlight({"list"}) # {}
    <3>1. \A k, a : Kind("history", k, a) \in {"list"} => k \in {"list"}
      BY DEF Kind, Marks
    <3> QED
      BY <1>3, <3>1, WaitsIsInFlight DEF HistoryFlags
  <2>3. ui.dloading => InFlight({"detail"}) # {}
    <3>1. \A k, a : Kind("history", k, a) \in {"detail"} => k \in {"detail"}
      BY DEF Kind, Marks
    <3> QED
      BY <1>3, <3>1, WaitsIsInFlight DEF HistoryFlags
  <2>4. ui.analyzing => InFlight({"analyze", "end"}) # {}
    <3>1. \A k, a : Kind("history", k, a) \in {"analyze", "end"} => k \in {"analyze", "end"}
      BY DEF Kind, Marks
    <3> QED
      BY <1>3, <3>1, WaitsIsInFlight DEF HistoryFlags
  <2>5. ui.deleting => InFlight({"delete", "wipe", "bulk"}) # {}
    <3>1. \A k, a : Kind("history", k, a) \in {"delete", "wipe", "bulk"} => k \in {"delete", "wipe", "bulk"}
      BY DEF Kind, Marks
    <3> QED
      BY <1>3, <3>1, WaitsIsInFlight DEF HistoryFlags
  <2>6. Cardinality(InFlight({"delete", "wipe", "bulk"})) <= 1
    <3>1. \A k, a : k \in {"delete", "wipe", "bulk"} => Kind("history", k, a) \in {"delete", "wipe", "bulk"}
      BY DEF Kind, Marks
    <3> QED
      BY <1>3, <3>1, AloneIsOne DEF HistoryFlags
  <2>7. Cardinality(InFlight({"analyze", "end"})) <= 1
    <3>1. \A k, a : k \in {"analyze", "end"} => Kind("history", k, a) \in {"analyze", "end"}
      BY DEF Kind, Marks
    <3> QED
      BY <1>3, <3>1, AloneIsOne DEF HistoryFlags
  <2> QED
    BY <2>1, <2>2, <2>3, <2>4, <2>5, <2>6, <2>7 DEF SpinnersWaited, OneSubmitAtATime
<1> QED
  BY <1>1, <1>2, <1>3

=============================================================================
