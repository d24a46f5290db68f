----------------------------- MODULE ImagePages -----------------------------
(***************************************************************************)
(* Extraction and analysis of images                                       *)
(* (app/dashboard/annotations/recognition/page.tsx): the tab that extracts *)
(* the images of documents and analyses them, and the history of its runs. *)
(* A row is a run of the server; its image is "pending", "done" (analysed) *)
(* or "none" (deleted).  Streams (features/image-recognition/api.ts) are a *)
(* chain of requests: each read of the stream waits for the next event.    *)
(***************************************************************************)
EXTENDS TablePage

RunsAccepts(c) ==
    /\ c.k = "extract" => ~Full(db.rows)
    /\ c.k \in {"analyze", "end", "detail", "delete", "wipe"} => db.rows[c.a.id] # None
    /\ c.k = "bulk" => db.rows[CHOOSE r \in c.a : TRUE] # None
RunsEffect(c) ==
    CASE c.k = "extract" -> [db EXCEPT !.rows[Fresh(db.rows)] = "pending"]
      [] c.k = "analyze" -> [db EXCEPT !.rows[c.a.id] = IF @ = "none" THEN @ ELSE "done"]
      [] c.k = "wipe"    -> [db EXCEPT !.rows[c.a.id] = "none"]
      [] c.k = "delete"  -> [db EXCEPT !.rows = Drop(@, c.a.id)]
      [] c.k = "bulk"    -> [db EXCEPT !.rows = Drop(@, CHOOSE r \in c.a : TRUE)]
      [] OTHER -> db
RunsAnswer(c) ==
    CASE c.k = "list"    -> db.rows
      [] c.k = "extract" -> Fresh(db.rows)
      [] c.k = "detail"  -> db.rows[c.a.id]
      [] c.k = "analyze" -> db.rows[c.a.id] # "none"
      [] OTHER -> None

----------------------------------------------------------------------------
(* The analysis tab.  An item is an image of a run, [st, sel]; hist is the *)
(* list of the history tab, which is fetched again when a batch ends.      *)

MaxFiles == 2   \* bound: documents dropped at once

AnalyzeUi == [phase |-> "idle", items |-> NoRows, done |-> 0, total |-> 0, url |-> FALSE, hist |-> NoRows]
AnalyzeDb == [rows |-> NoRows]

AnalyzeBusy     == ui.phase \in {"extracting", "analyzing"}
AnalyzeSelected == {r \in Present(ui.items) : ui.items[r].sel}

\* Documents are extracted one after the other; a URL is a batch of one.
AnalyzeStart(n) ==
    Ask([ui EXCEPT !.phase = "extracting", !.items = NoRows, !.url = FALSE], "extract", n)
AnalyzeFiles(n) == ~AnalyzeBusy /\ AnalyzeStart(n)
AnalyzeUrl      == ui.url /\ ~AnalyzeBusy /\ AnalyzeStart(1)
AnalyzePanel    == ~AnalyzeBusy /\ User([ui EXCEPT !.url = ~@])

AnalyzeClear ==
    /\ ~AnalyzeBusy /\ Present(ui.items) # {}
    /\ User([ui EXCEPT !.items = NoRows, !.done = 0, !.total = 0])
AnalyzeToggle(r) == ui.phase \in {"ready", "done"} /\ User([ui EXCEPT !.items[r].sel = ~@])

\* The selected images are analysed run by run.
AnalyzeRun ==
    /\ ~AnalyzeBusy /\ AnalyzeSelected # {}
    /\ LET r == CHOOSE r \in AnalyzeSelected : TRUE
       IN  Ask([ui EXCEPT !.phase = "analyzing", !.done = 0, !.total = Cardinality(AnalyzeSelected)],
               "analyze", [id |-> r, todo |-> AnalyzeSelected \ {r}])

AnalyzeUser ==
    \/ \E n \in 1..MaxFiles : AnalyzeFiles(n)
    \/ AnalyzeUrl \/ AnalyzePanel \/ AnalyzeClear \/ AnalyzeRun
    \/ \E r \in Present(ui.items) : AnalyzeToggle(r)

\* onBatchDone: the history is fetched again.
AnalyzeBatchDone(s, u, phase) == Resume(s, [u EXCEPT !.phase = phase], Send(Rest(s), "list", None))

\* A failed document ends the batch: the images so far stay.
AnalyzeExtracted(s) ==
    LET u == [ui EXCEPT !.items[net[s].r] = [st |-> "pending", sel |-> TRUE]]
    IN  IF ~Ok(s) THEN AnalyzeBatchDone(s, ui, "ready")
        ELSE IF net[s].a = 1 THEN AnalyzeBatchDone(s, u, "ready")
        ELSE Resume(s, u, Send(Rest(s), "extract", net[s].a - 1))

AnalyzeItem(s) ==
    LET c == net[s].a
        u == [ui EXCEPT !.items[c.id].st = IF net[s].r THEN "done" ELSE "error", !.done = @ + 1]
        r == CHOOSE r \in c.todo : TRUE
    IN  IF ~Ok(s) THEN AnalyzeBatchDone(s, ui, "done")
        ELSE IF c.todo = {} THEN AnalyzeBatchDone(s, u, "done")
        ELSE Resume(s, u, Send(Rest(s), "analyze", [id |-> r, todo |-> c.todo \ {r}]))

AnalyzeListed(s) == Resume(s, [ui EXCEPT !.hist = Got(s, @)], Rest(s))

AnalyzeResume(s) ==
    \/ net[s].k = "extract" /\ AnalyzeExtracted(s)
    \/ net[s].k = "analyze" /\ AnalyzeItem(s)
    \/ net[s].k = "list" /\ AnalyzeListed(s)

----------------------------------------------------------------------------
(* The history.  sel is the run whose detail is open, detail what it shows *)
(* ([id, st, by]: the run it was fetched for, the state of the image, and  *)
(* the run whose analysis was last written into it).                       *)

HistoryUi ==
    [rows |-> NoRows, loading |-> TRUE, sel |-> None, detail |-> None, dloading |-> FALSE, picked |-> FALSE,
     analyzing |-> FALSE, dlg |-> "no", deleting |-> FALSE, ids |-> {}]
HistoryDb == [rows |-> [r \in Rows |-> "pending"]]

HistoryReload(u) == Ask([u EXCEPT !.loading = TRUE], "list", None)
HistoryRefresh == ui.sel = None /\ ~ui.loading /\ HistoryReload(ui)
HistoryOpen(r) ==
    /\ ui.sel = None
    /\ Ask([ui EXCEPT !.sel = r, !.dloading = TRUE, !.detail = None, !.picked = FALSE], "detail", [id |-> r])
HistoryBack == ui.sel # None /\ User([ui EXCEPT !.sel = None])

HistoryShown == ui.sel # None /\ ~ui.dloading /\ ui.detail # None
HistoryPick ==
    /\ HistoryShown /\ ui.detail.st # "none" /\ ~ui.analyzing
    /\ User([ui EXCEPT !.picked = ~@])
HistoryReanalyze ==
    /\ HistoryShown /\ ui.picked /\ ~ui.analyzing
    /\ Ask([ui EXCEPT !.analyzing = TRUE], "analyze", [id |-> ui.sel])

HistoryAskDelete == HistoryShown /\ ~ui.analyzing /\ User([ui EXCEPT !.dlg = "choice"])
HistoryKeep      == ui.dlg # "no" /\ ~ui.deleting /\ User([ui EXCEPT !.dlg = "no"])
HistoryDelete ==
    /\ ui.dlg = "choice" /\ ~ui.deleting /\ ui.sel # None
    /\ Ask([ui EXCEPT !.deleting = TRUE], "delete", [id |-> ui.sel])
HistoryWipe ==
    /\ ui.dlg = "choice" /\ ~ui.deleting /\ ui.sel # None /\ ui.picked
    /\ Ask([ui EXCEPT !.deleting = TRUE], "wipe", [id |-> ui.sel])

HistoryTick(r)   == ui.sel = None /\ User([ui EXCEPT !.ids = IF r \in @ THEN @ \ {r} ELSE @ \cup {r}])
HistoryAskBulk   == ui.sel = None /\ ~ui.loading /\ ui.ids # {} /\ User([ui EXCEPT !.dlg = "bulk"])
HistoryBulk ==
    /\ ui.dlg = "bulk" /\ ~ui.deleting /\ ui.ids # {}
    /\ Ask([ui EXCEPT !.deleting = TRUE], "bulk", ui.ids)

HistoryUser ==
    \/ /\ ui.dlg = "no"
       /\ \/ HistoryRefresh \/ HistoryBack \/ HistoryPick \/ HistoryReanalyze
          \/ HistoryAskDelete \/ HistoryAskBulk
          \/ \E r \in Present(ui.rows) : HistoryOpen(r) \/ HistoryTick(r)
    \/ HistoryKeep \/ HistoryDelete \/ HistoryWipe \/ HistoryBulk

HistoryListed(s) ==
    LET u == [ui EXCEPT !.loading = FALSE]
    IN  Resume(s, IF Ok(s) THEN [u EXCEPT !.rows = net[s].r, !.ids = {}] ELSE u, Rest(s))

HistoryDetail(s) ==
    LET u == [ui EXCEPT !.dloading = FALSE]
        d == [id |-> net[s].a.id, st |-> net[s].r, by |-> net[s].a.id]
    IN  Resume(s, IF Ok(s) THEN [u EXCEPT !.detail = d] ELSE [u EXCEPT !.sel = None], Rest(s))

\* An event of the analysis is written into the images on display by index.
HistoryItem(s) ==
    LET c == net[s].a
        u == IF ui.detail = None \/ ui.detail.st = "none" THEN ui
             ELSE [ui EXCEPT !.detail.st = IF net[s].r THEN "done" ELSE "error", !.detail.by = c.id]
    IN  IF Ok(s) THEN Resume(s, u, Send(Rest(s), "end", c))
        ELSE Resume(s, [ui EXCEPT !.analyzing = FALSE], Rest(s))

HistoryAnalyzed(s) ==
    LET u == [ui EXCEPT !.analyzing = FALSE]
    IN  IF Ok(s) THEN Refresh(s, [u EXCEPT !.picked = FALSE]) ELSE Resume(s, u, Rest(s))

HistoryDeleted(s) ==
    LET u == [ui EXCEPT !.deleting = FALSE]
    IN  IF Ok(s) THEN Refresh(s, [u EXCEPT !.dlg = "no", !.sel = None, !.detail = None]) ELSE Resume(s, u, Rest(s))

HistoryWiped(s) ==
    LET u == [ui EXCEPT !.deleting = FALSE]
        d == IF ui.detail = None THEN None ELSE [ui.detail EXCEPT !.st = "none"]
    IN  IF Ok(s) THEN Refresh(s, [u EXCEPT !.dlg = "no", !.picked = FALSE, !.detail = d]) ELSE Resume(s, u, Rest(s))

\* The chosen runs are deleted one by one; a failure is counted and skipped.
HistoryBulked(s) ==
    LET todo == net[s].a \ {CHOOSE r \in net[s].a : TRUE}
    IN  IF todo # {} THEN Resume(s, ui, Send(Rest(s), "bulk", todo))
        ELSE Refresh(s, [ui EXCEPT !.deleting = FALSE, !.dlg = "no", !.ids = {}])

HistoryResume(s) ==
    \/ net[s].k = "list" /\ HistoryListed(s)
    \/ net[s].k = "detail" /\ HistoryDetail(s)
    \/ net[s].k = "analyze" /\ HistoryItem(s)
    \/ net[s].k = "end" /\ HistoryAnalyzed(s)
    \/ net[s].k = "delete" /\ HistoryDeleted(s)
    \/ net[s].k = "wipe" /\ HistoryWiped(s)
    \/ net[s].k = "bulk" /\ HistoryBulked(s)
=============================================================================
