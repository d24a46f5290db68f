-------------------------- MODULE EvaluationPages --------------------------
(***************************************************************************)
(* The evaluation pages: the dataset list (app/dashboard/evaluation/page), *)
(* one dataset with its items and runs (evaluation/[id]/page) and its      *)
(* configuration sweeps (features/evaluation/components/sweep-panel).      *)
(***************************************************************************)
EXTENDS TablePage

RunActive(st) == st \in {"queued", "running"}

----------------------------------------------------------------------------
(* The dataset list: a table with a form for new rows only.                *)

EvalsUi(admin) ==
    [admin |-> admin, rows |-> NoRows, loading |-> TRUE, dlg |-> None, submitting |-> FALSE, del |-> None]
EvalsDb == [rows |-> OneRow(Blank)]
EvalsAnswer(c) == IF c.k = "list" THEN db.rows ELSE None

EvalsOpen   == ui.admin /\ ~Modal /\ OpenForm(None, Blank)
EvalsCreate == FormReady /\ SubmitForm
EvalsUser   == EvalsOpen \/ TypeForm(Typed) \/ CloseForm \/ EvalsCreate

EvalsListed(s)  == Listed(s)
EvalsCreated(s) == Saved(s)
EvalsResume(s) ==
    \/ net[s].k = "list" /\ EvalsListed(s)
    \/ net[s].k = "create" /\ EvalsCreated(s)

----------------------------------------------------------------------------
(* One dataset: its number of items, and its runs by status.  The results  *)
(* panel shows the results of a run under the run the user selected.       *)

MaxItems == 2   \* bound

EvalUi(admin) ==
    [admin |-> admin, ready |-> FALSE, items |-> 0, runs |-> NoRows, open |-> FALSE,
     del |-> FALSE, running |-> FALSE, sel |-> None, results |-> None]
EvalDb == [items |-> 1, runs |-> NoRows]

EvalAccepts(c) ==
    CASE c.k = "add"    -> db.items < MaxItems
      [] c.k = "remove" -> db.items > 0
      [] c.k = "run"    -> ~Full(db.runs) /\ db.items > 0
      [] OTHER -> TRUE

EvalEffect(c) ==
    CASE c.k = "add"    -> [db EXCEPT !.items = @ + 1]
      [] c.k = "remove" -> [db EXCEPT !.items = @ - 1]
      [] c.k = "run"    -> [db EXCEPT !.runs[Fresh(db.runs)] = "queued"]
      [] OTHER -> db

EvalAnswer(c) ==
    CASE c.k = "load"    -> db
      [] c.k = "poll"    -> db.runs
      [] c.k = "results" -> c.a.id
      [] OTHER -> None

EvalCovered == ui.open \/ ui.del

EvalAdd    == ui.open /\ ui.ready /\ Ask(ui, "add", None)
EvalRemove == ui.del /\ Ask(ui, "remove", None)

EvalRun ==
    /\ ui.admin /\ ~EvalCovered /\ ui.ready
    /\ ~ui.running /\ ui.items > 0
    /\ Ask([ui EXCEPT !.running = TRUE], "run", None)

EvalOpenResults(r) ==
    IF ui.sel = r
    THEN User([ui EXCEPT !.sel = None])
    ELSE Ask([ui EXCEPT !.sel = r], "results", [id |-> r])

EvalDialogs ==
    \/ ~EvalCovered /\ ui.admin /\ User([ui EXCEPT !.open = TRUE])
    \/ ~EvalCovered /\ ui.admin /\ ui.items > 0 /\ User([ui EXCEPT !.del = TRUE])
    \/ EvalCovered /\ User([ui EXCEPT !.open = FALSE, !.del = FALSE])

EvalUser ==
    \/ EvalDialogs
    \/ EvalAdd
    \/ EvalRemove
    \/ EvalRun
    \/ ~EvalCovered /\ \E r \in Present(ui.runs) : EvalOpenResults(r)

\* The interval lives while a run on the page is queued or running.
EvalPolling == ui.ready /\ \E r \in Rows : RunActive(ui.runs[r])
EvalPoll == EvalPolling /\ Tick(ui, "poll", None)

EvalLoaded(s) ==
    Resume(s, IF Ok(s) THEN [ui EXCEPT !.ready = TRUE, !.items = net[s].r.items, !.runs = net[s].r.runs] ELSE ui, Rest(s))

EvalPolled(s) == Resume(s, [ui EXCEPT !.runs = Got(s, @)], Rest(s))

EvalItemsChanged(s) ==
    IF Ok(s)
    THEN Resume(s, IF net[s].k = "add" THEN [ui EXCEPT !.open = FALSE] ELSE [ui EXCEPT !.del = FALSE],
                Send(Rest(s), "load", None))
    ELSE Resume(s, ui, Rest(s))

EvalStarted(s) ==
    Resume(s, [ui EXCEPT !.running = FALSE], IF Ok(s) THEN Send(Rest(s), "load", None) ELSE Rest(s))

EvalResults(s) == Resume(s, [ui EXCEPT !.results = Got(s, None)], Rest(s))

EvalResume(s) ==
    \/ net[s].k = "load" /\ EvalLoaded(s)
    \/ net[s].k = "poll" /\ EvalPolled(s)
    \/ net[s].k \in {"add", "remove"} /\ EvalItemsChanged(s)
    \/ net[s].k = "run" /\ EvalStarted(s)
    \/ net[s].k = "results" /\ EvalResults(s)

\* The evaluation worker picks up a run and ends it.
EvalWorld == \E r \in Rows : RunActive(db.runs[r]) /\ World([db EXCEPT !.runs[r] = "succeeded"])

----------------------------------------------------------------------------
(* Sweeps.  The chips the user has on span the search space; a sweep has a *)
(* status, and a leaderboard that names the sweep it was computed for.     *)

Modes   == {"hybrid"}       \* chips of the mode axis
Reranks == {"off", "on"}    \* chips of the rerank axis
MaxRuns == 1                \* the form's limit on the number of runs

\* buildSearchSpace: an axis without a chip is left out of the product.
SweepEstimate(chips) ==
    LET size(axis) == IF chips \cap axis = {} THEN 1 ELSE Cardinality(chips \cap axis)
    IN  size(Modes) * size(Reranks)

SweepCanStart == ui.chips \cap Modes # {} /\ SweepEstimate(ui.chips) <= MaxRuns

SweepUi == [rows |-> NoRows, chips |-> {"hybrid", "off"}, creating |-> FALSE, expanded |-> None, board |-> None]
SweepDb == [rows |-> OneRow("running")]

SweepAccepts(c) ==
    CASE c.k = "create" -> ~Full(db.rows)
      [] c.k = "cancel" -> RunActive(db.rows[c.a.id])
      [] OTHER -> TRUE

SweepEffect(c) ==
    CASE c.k = "create" -> [db EXCEPT !.rows[Fresh(db.rows)] = "queued"]
      [] c.k = "cancel" -> [db EXCEPT !.rows[c.a.id] = "canceled"]
      [] OTHER -> db

SweepAnswer(c) ==
    CASE c.k = "create" -> Fresh(db.rows)
      [] c.k = "list"   -> db.rows
      [] c.k = "board"  -> c.a.id
      [] OTHER -> None

SweepChip(x) == User([ui EXCEPT !.chips = IF x \in @ THEN @ \ {x} ELSE @ \cup {x}])

SweepCreate == SweepCanStart /\ ~ui.creating /\ Ask([ui EXCEPT !.creating = TRUE], "create", None)

SweepExpand(r) ==
    IF ui.expanded = r
    THEN User([ui EXCEPT !.expanded = None, !.board = None])
    ELSE Ask([ui EXCEPT !.expanded = r, !.board = None], "board", [id |-> r])

SweepCancel(r) == RunActive(ui.rows[r]) /\ Ask(ui, "cancel", [id |-> r])

\* The rows of the leaderboard are drawn under the expanded sweep, and only
\* when the board is that sweep's; their button applies a run of the board.
SweepBoard(r) == ui.expanded = r /\ ui.board = r
SweepApply(r) == SweepBoard(r) /\ Ask(ui, "apply", [id |-> r, run |-> ui.board])

SweepUser ==
    \/ \E x \in Modes \cup Reranks : SweepChip(x)
    \/ SweepCreate
    \/ \E r \in Present(ui.rows) : SweepExpand(r) \/ SweepCancel(r) \/ SweepApply(r)

\* refresh(), awaited by handleCreate (mine) for the sweep it made or not.
SweepFetch(mine, new) == [mine |-> mine, new |-> new]

\* Every 2 s while a sweep on the page is active, refresh() and, with a sweep
\* expanded, its leaderboard.
SweepPolling == \E r \in Rows : RunActive(ui.rows[r])
SweepPoll ==
    /\ SweepPolling
    /\ IF ui.expanded = None
       THEN Tick(ui, "list", SweepFetch(FALSE, None))
       ELSE Room(2) /\ Fire(ui, Send(Send(net, "list", SweepFetch(FALSE, None)), "board", [id |-> ui.expanded]))

\* handleCreate: after the create its refresh() is awaited, then the new sweep
\* is expanded and its board fetched.
SweepCreated(s) ==
    IF Ok(s)
    THEN Resume(s, ui, Send(Rest(s), "list", SweepFetch(TRUE, net[s].r)))
    ELSE Resume(s, [ui EXCEPT !.creating = FALSE], Rest(s))

SweepListed(s) ==
    LET u == [ui EXCEPT !.rows = Got(s, @)]
    IN  IF net[s].a.mine
        THEN Resume(s, [u EXCEPT !.expanded = net[s].a.new, !.creating = FALSE],
                    Send(Rest(s), "board", [id |-> net[s].a.new]))
        ELSE Resume(s, u, Rest(s))

SweepBoarded(s) == Resume(s, [ui EXCEPT !.board = Got(s, @)], Rest(s))

SweepCanceled(s) == Resume(s, ui, IF Ok(s) THEN Send(Rest(s), "list", SweepFetch(FALSE, None)) ELSE Rest(s))

SweepResume(s) ==
    \/ net[s].k = "create" /\ SweepCreated(s)
    \/ net[s].k = "list" /\ SweepListed(s)
    \/ net[s].k = "board" /\ SweepBoarded(s)
    \/ net[s].k = "cancel" /\ SweepCanceled(s)
    \/ net[s].k = "apply" /\ Resume(s, ui, Rest(s))

SweepWorld == \E r \in Rows : RunActive(db.rows[r]) /\ World([db EXCEPT !.rows[r] = "succeeded"])
=============================================================================
