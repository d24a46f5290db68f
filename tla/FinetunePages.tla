--------------------------- MODULE FinetunePages ---------------------------
(***************************************************************************)
(* Fine-tuning (app/dashboard/fine-tuning): the lists of datasets, jobs    *)
(* and models, the page of each, and the labelling page that turns search  *)
(* results into training examples.                                         *)
(***************************************************************************)
EXTENDS TablePage

----------------------------------------------------------------------------
(* The three lists: a table and a dialog that adds a row.  What is typed   *)
(* outlives the dialog until a row is created; the submission ends with    *)
(* the reload it awaits.                                                   *)

FtListUi(a) == [admin |-> a, rows |-> NoRows, loading |-> TRUE, open |-> FALSE, v |-> "", submitting |-> FALSE]
FtListDb    == [rows |-> OneRow("x")]
FtListEffect(c) == IF c.k = "create" THEN [db EXCEPT !.rows[Fresh(db.rows)] = c.a] ELSE db
FtListAnswer(c) == IF c.k = "list" THEN db.rows ELSE None

FtSubmit == ~ui.submitting /\ Ask([ui EXCEPT !.submitting = TRUE], "create", ui.v)

\* A job needs a dataset, a dataset and a model need a name.
FtJobsSubmit     == ui.v # "" /\ FtSubmit
FtDatasetsSubmit == ui.v # "" /\ FtSubmit
FtModelsSubmit   == ui.v # "" /\ FtSubmit

FtDialog(Submit) ==
    \/ ui.admin /\ ~ui.open /\ User([ui EXCEPT !.open = TRUE])
    \/ /\ ui.open
       /\ \/ User([ui EXCEPT !.open = FALSE])
          \/ \E v \in Typed \cup {""} : User([ui EXCEPT !.v = v])
          \/ Submit

FtJobsUser     == FtDialog(FtJobsSubmit)
FtDatasetsUser == FtDialog(FtDatasetsSubmit)
FtModelsUser   == FtDialog(FtModelsSubmit)

FtListed(s) ==
    Resume(s, [ui EXCEPT !.rows = Got(s, @), !.loading = FALSE,
                         !.submitting = IF net[s].a = None THEN @ ELSE FALSE], Rest(s))
FtCreated(s) ==
    IF Ok(s)
    THEN Resume(s, [ui EXCEPT !.open = FALSE, !.v = "", !.loading = TRUE], Send(Rest(s), "list", "created"))
    ELSE Resume(s, [ui EXCEPT !.submitting = FALSE], Rest(s))

FtListResume(s) ==
    \/ net[s].k = "list" /\ FtListed(s)
    \/ net[s].k = "create" /\ FtCreated(s)
FtJobsResume(s)     == FtListResume(s)
FtDatasetsResume(s) == FtListResume(s)
FtModelsResume(s)   == FtListResume(s)

----------------------------------------------------------------------------
(* A job.  The trainer reports its progress to the server.                 *)

FtTerminal(st) == st \in {"succeeded", "failed", "canceled"}

FtJobUi(a) == [admin |-> a, job |-> None, loading |-> TRUE, left |-> FALSE]
FtJobDb    == [job |-> "queued", model |-> FALSE]

FtJobAccepts(c) ==
    /\ db.job # None
    /\ c.k = "cancel" => ~FtTerminal(db.job)
    /\ c.k = "register" => db.job = "succeeded"
FtJobEffect(c) ==
    CASE c.k = "cancel"   -> [db EXCEPT !.job = "canceled"]
      [] c.k = "delete"   -> [db EXCEPT !.job = None]
      [] c.k = "register" -> [db EXCEPT !.model = TRUE]
      [] OTHER -> db
FtJobAnswer(c) == CASE c.k = "list" -> db.job [] c.k = "cancel" -> "canceled" [] OTHER -> None

FtJobUser ==
    /\ ui.admin /\ ui.job # None /\ ~ui.left
    /\ \/ ui.job = "succeeded" /\ Ask(ui, "register", None)
       \/ ~FtTerminal(ui.job) /\ Ask(ui, "cancel", None)
       \/ Ask(ui, "delete", None)

FtJobWorld ==
    \/ db.job = "queued" /\ World([db EXCEPT !.job = "running"])
    \/ db.job = "running" /\ \E st \in {"succeeded", "failed"} : World([db EXCEPT !.job = st])

FtJobLoaded(s)   == Resume(s, [ui EXCEPT !.job = Got(s, @), !.loading = FALSE], Rest(s))
FtJobCanceled(s) == Resume(s, [ui EXCEPT !.job = Got(s, @)], Rest(s))
FtJobLeft(s)     == Resume(s, [ui EXCEPT !.left = @ \/ Ok(s)], Rest(s))

FtJobResume(s) ==
    \/ net[s].k = "list" /\ FtJobLoaded(s)
    \/ net[s].k = "cancel" /\ FtJobCanceled(s)
    \/ net[s].k \in {"delete", "register"} /\ FtJobLeft(s)

----------------------------------------------------------------------------
(* A dataset: its examples (a row is mined or not), and the counts of the  *)
(* header, which are fetched separately.                                   *)

FtCount(t) == Cardinality(Present(t))

FtDatasetUi(a) ==
    [admin |-> a, rows |-> NoRows, count |-> 0, loading |-> TRUE, open |-> FALSE, v |-> "", submitting |-> FALSE,
     build |-> FALSE, eval |-> FALSE, building |-> FALSE, mining |-> FALSE]
FtDatasetDb == [rows |-> OneRow("bare")]

FtDatasetAccepts(c) ==
    /\ c.k \in {"create", "build"} => ~Full(db.rows)
    /\ c.k = "patch" => db.rows[c.a.id] # None
FtDatasetEffect(c) ==
    CASE c.k = "create" -> [db EXCEPT !.rows[Fresh(db.rows)] = "bare"]
      [] c.k = "build"  -> [db EXCEPT !.rows[Fresh(db.rows)] = "mined"]
      [] c.k = "mine"   -> [db EXCEPT !.rows = [r \in Rows |-> IF @[r] = None THEN None ELSE "mined"]]
      [] c.k = "patch"  -> [db EXCEPT !.rows = Drop(@, c.a.id)]
      [] OTHER -> db
FtDatasetAnswer(c) ==
    CASE c.k \in {"load", "counts"} -> FtCount(db.rows)
      [] c.k = "list" -> db.rows
      [] OTHER -> None

FtAddExample  == ui.open /\ ui.v # "" /\ ~ui.submitting /\ Ask([ui EXCEPT !.submitting = TRUE], "create", ui.v)
FtDropExample(r) == Ask(ui, "patch", [id |-> r])
FtOpenBuild   == Ask(ui, "evals", None)
FtBuild       == ui.build /\ ui.eval /\ ~ui.building /\ Ask([ui EXCEPT !.building = TRUE], "build", None)
FtMine        == ~ui.mining /\ Ask([ui EXCEPT !.mining = TRUE], "mine", None)
FtExport      == ui.count > 0 /\ Ask(ui, "export", None)

FtDatasetUser ==
    \/ /\ ui.admin
       /\ \/ FtOpenBuild \/ FtMine \/ FtAddExample \/ FtBuild
          \/ \E r \in Present(ui.rows) : FtDropExample(r)
          \/ \E o \in BOOLEAN : o # ui.open /\ User([ui EXCEPT !.open = o])
          \/ ui.open /\ \E v \in Typed : User([ui EXCEPT !.v = v])
          \/ ui.build /\ \/ User([ui EXCEPT !.build = FALSE]) \/ User([ui EXCEPT !.eval = TRUE])
    \/ FtExport

\* refresh(), awaited by the handler that calls it: the dataset, its examples.
\* done names the flag the caller lowers at the end.
FtReload(s, u, done) ==
    Resume(s, [u EXCEPT !.loading = TRUE], Send(Rest(s), "load", [done |-> done, n |-> 0]))
FtLowered(u, done) ==
    [u EXCEPT !.submitting = @ /\ done # "create", !.building = @ /\ done # "build", !.mining = @ /\ done # "mine"]

FtGot(s) ==
    IF Ok(s)
    THEN Resume(s, ui, Send(Rest(s), "list", [done |-> net[s].a.done, n |-> net[s].r]))
    ELSE Resume(s, FtLowered([ui EXCEPT !.loading = FALSE], net[s].a.done), Rest(s))
FtShown(s) ==
    LET u == FtLowered([ui EXCEPT !.loading = FALSE], net[s].a.done)
    IN  Resume(s, IF Ok(s) THEN [u EXCEPT !.rows = net[s].r, !.count = net[s].a.n] ELSE u, Rest(s))

FtDone(s) ==
    LET k == net[s].k
        u == CASE k = "create" -> [ui EXCEPT !.v = "", !.open = FALSE]
               [] k = "build"  -> [ui EXCEPT !.build = FALSE]
               [] OTHER -> ui
    IN  IF Ok(s) THEN FtReload(s, u, k) ELSE Resume(s, FtLowered(ui, k), Rest(s))

\* The example leaves the page's list; the counts follow, un-awaited.
FtDropped(s) ==
    IF Ok(s) THEN Resume(s, [ui EXCEPT !.rows = Drop(@, net[s].a.id)], Send(Rest(s), "counts", None))
    ELSE Resume(s, ui, Rest(s))
FtCounted(s)    == Resume(s, [ui EXCEPT !.count = Got(s, @)], Rest(s))
FtBuildOpens(s) == Resume(s, IF Ok(s) THEN [ui EXCEPT !.build = TRUE, !.eval = FALSE] ELSE ui, Rest(s))

FtDatasetResume(s) ==
    \/ net[s].k = "load" /\ FtGot(s)
    \/ net[s].k = "list" /\ FtShown(s)
    \/ net[s].k \in {"create", "build", "mine"} /\ FtDone(s)
    \/ net[s].k = "patch" /\ FtDropped(s)
    \/ net[s].k = "counts" /\ FtCounted(s)
    \/ net[s].k = "evals" /\ FtBuildOpens(s)
    \/ net[s].k = "export" /\ Resume(s, ui, Rest(s))

----------------------------------------------------------------------------
(* A model: its fields are saved as a whole.                               *)

FtModelUi(a) == [admin |-> a, model |-> None, form |-> "", loading |-> TRUE, saving |-> FALSE, left |-> FALSE]
FtModelDb    == [model |-> "x"]
FtModelAccepts(c) == db.model # None
FtModelEffect(c) ==
    CASE c.k = "save"   -> [db EXCEPT !.model = c.a]
      [] c.k = "delete" -> [db EXCEPT !.model = None]
      [] OTHER -> db
FtModelAnswer(c) == CASE c.k = "list" -> db.model [] c.k = "save" -> c.a [] OTHER -> None

FtModelUser ==
    /\ ui.admin /\ ui.model # None /\ ~ui.left
    /\ \/ \E v \in Typed : User([ui EXCEPT !.form = v])
       \/ ~ui.saving /\ Ask([ui EXCEPT !.saving = TRUE], "save", ui.form)
       \/ Ask(ui, "delete", None)

FtModelLoaded(s) ==
    LET u == [ui EXCEPT !.loading = FALSE]
    IN  Resume(s, IF Ok(s) THEN [u EXCEPT !.model = net[s].r, !.form = net[s].r] ELSE u, Rest(s))
FtModelSaved(s) == Resume(s, [ui EXCEPT !.saving = FALSE, !.model = Got(s, @)], Rest(s))

FtModelResume(s) ==
    \/ net[s].k = "list" /\ FtModelLoaded(s)
    \/ net[s].k = "save" /\ FtModelSaved(s)
    \/ net[s].k = "delete" /\ FtJobLeft(s)

----------------------------------------------------------------------------
(* Labelling: a query is searched, one hit is marked as the positive and   *)
(* others as negatives, and the example is saved.  of is the query whose   *)
(* hits are on display; the chunks are the rows, each query finds its own. *)

FtQueries == {"p", "q"}
FtHits(q) == IF q = "" THEN {} ELSE IF q = "p" THEN Rows ELSE {CHOOSE r \in Rows : TRUE}

FtLabelUi(a) ==
    [admin |-> a, lists |-> FALSE, col |-> FALSE, set |-> FALSE, query |-> "", of |-> "", searching |-> FALSE,
     pos |-> None, neg |-> {}, saving |-> FALSE]
FtLabelDb == [saved |-> {}]
FtLabelEffect(c) == IF c.k = "save" THEN [db EXCEPT !.saved = @ \cup {c.a}] ELSE db
FtLabelAnswer(c) == None

OnSearch ==
    /\ ui.col /\ ui.query # "" /\ ~ui.searching
    /\ Ask([ui EXCEPT !.searching = TRUE, !.pos = None, !.neg = {}], "search", ui.query)

\* Mutant: a chunk that becomes the positive stays among the negatives.
MarkPositiveOnly(r) == User([ui EXCEPT !.pos = IF @ = r THEN None ELSE r])

MarkPositive(r)   == User([ui EXCEPT !.pos = IF @ = r THEN None ELSE r, !.neg = @ \ {r}])
ToggleNegative(r) == ui.pos # r /\ User([ui EXCEPT !.neg = IF r \in @ THEN @ \ {r} ELSE @ \cup {r}])

\* The marks may be of hits that a later search replaced: they are looked up.
OnSave ==
    /\ ui.set /\ ~ui.saving /\ ui.pos \in FtHits(ui.of)
    /\ Ask([ui EXCEPT !.saving = TRUE], "save", [q |-> ui.query, pos |-> ui.pos, neg |-> ui.neg \cap FtHits(ui.of)])

FtLabelUser ==
    \/ ui.lists /\ ~ui.col /\ User([ui EXCEPT !.col = TRUE])
    \/ ui.lists /\ ~ui.set /\ User([ui EXCEPT !.set = TRUE])
    \/ \E q \in FtQueries : User([ui EXCEPT !.query = q])
    \/ OnSearch
    \/ ui.admin /\ \/ OnSave
                   \/ \E r \in FtHits(ui.of) : MarkPositive(r) \/ ToggleNegative(r)

FtLabelLists(s)    == Resume(s, [ui EXCEPT !.lists = Ok(s)], Rest(s))
FtLabelSearched(s) == Resume(s, [ui EXCEPT !.searching = FALSE, !.of = IF Ok(s) THEN net[s].a ELSE @], Rest(s))
FtLabelSaved(s) ==
    LET u == [ui EXCEPT !.saving = FALSE]
    IN  Resume(s, IF Ok(s) THEN [u EXCEPT !.pos = None, !.neg = {}] ELSE u, Rest(s))

FtLabelResume(s) ==
    \/ net[s].k = "lists" /\ FtLabelLists(s)
    \/ net[s].k = "search" /\ FtLabelSearched(s)
    \/ net[s].k = "save" /\ FtLabelSaved(s)
=============================================================================
