---------------------------- MODULE SourcePages ----------------------------
(***************************************************************************)
(* The storage source pages: the source table                              *)
(* (app/dashboard/storage-sources/page.tsx) and the watch table            *)
(* (features/storage-sources/components/watches-tab.tsx).                  *)
(*                                                                         *)
(* A source or a watch is [on, v]: its enabled switch and the rest of its  *)
(* configuration.  A form's v is "" until the fields the submit button     *)
(* asks for are filled in.                                                 *)
(***************************************************************************)
EXTENDS TablePage

----------------------------------------------------------------------------
(* Storage sources.                                                        *)

SourcesUi(admin) ==
    [admin |-> admin, rows |-> NoRows, loading |-> TRUE, dlg |-> None,
     submitting |-> FALSE, del |-> None, testing |-> None]

SourcesDb == [rows |-> OneRow([v |-> "x", on |-> TRUE])]

SourcesAccepts(c) == TableAccepts(c)
SourcesEffect(c)  == TableEffect(c)
SourcesAnswer(c)  == IF c.k = "list" THEN db.rows ELSE None

\* The table's row buttons: none while the table shows its spinner, and a
\* dialog covers them.
SourcesTable == IF ui.loading \/ Modal THEN {} ELSE Present(ui.rows)

\* The dialog's submit button.
SourcesCanSubmit == FormReady

SourcesOpenNew     == ui.admin /\ ~Modal /\ OpenForm(None, Blank)
SourcesOpenEdit(r) == ui.admin /\ OpenForm(r, ui.rows[r])
SourcesSubmit      == SourcesCanSubmit /\ SubmitForm
SourcesToggle(r)   == ui.admin /\ ToggleRow(r, "toggle")
SourcesConfirmDelete == DeleteRow

SourcesTest(r) ==
    /\ ui.admin /\ ui.testing # r
    /\ Ask([ui EXCEPT !.testing = r], "test", [id |-> r])

SourcesUser ==
    \/ SourcesOpenNew
    \/ TypeForm(Typed)
    \/ CloseForm
    \/ SourcesSubmit
    \/ KeepRow
    \/ SourcesConfirmDelete
    \/ \E r \in SourcesTable : \/ SourcesOpenEdit(r)
                               \/ SourcesToggle(r)
                               \/ ui.admin /\ AskDelete(r)
                               \/ SourcesTest(r)

SourcesRefreshed(s) == Listed(s)
SourcesSaved(s)   == Saved(s)
SourcesToggled(s) == Toggled(s)
SourcesDeleted(s) == Deleted(s)
SourcesTested(s) == Resume(s, [ui EXCEPT !.testing = None], Rest(s))

SourcesResume(s) ==
    \/ net[s].k = "list" /\ SourcesRefreshed(s)
    \/ net[s].k \in {"create", "update"} /\ SourcesSaved(s)
    \/ net[s].k = "toggle" /\ SourcesToggled(s)
    \/ net[s].k = "delete" /\ SourcesDeleted(s)
    \/ net[s].k = "test" /\ SourcesTested(s)

\* Another administrator removes a source.
SourcesWorld == \E r \in Present(db.rows) : World([db EXCEPT !.rows = Drop(@, r)])
----------------------------------------------------------------------------
(* Watches.  The table is polled every 15 s; a row is [on, v], a run list  *)
(* is known by the watch it belongs to.                                    *)

WatchesUi(admin) ==
    [admin |-> admin, rows |-> NoRows, srcs |-> FALSE, loading |-> TRUE, dlg |-> None,
     submitting |-> FALSE, del |-> None, runsOf |-> None, runs |-> None]

WatchesDb == [rows |-> OneRow([v |-> "x", on |-> TRUE]), srcs |-> TRUE]

WatchesAccepts(c) == TableAccepts(c)
WatchesEffect(c)  == TableEffect(c)
WatchesAnswer(c)  ==
    CASE c.k = "list" -> [rows |-> db.rows, srcs |-> db.srcs]
      [] c.k = "runs" -> c.a.id
      [] OTHER -> None

WatchesCovered == Modal \/ ui.runsOf # None
WatchesTable == IF WatchesCovered \/ ~ui.admin THEN {} ELSE Present(ui.rows)

\* handleSubmit returns early when the interval is under 60 s ("short").
WatchesCanSubmit == FormReady /\ ui.dlg.form.v # "short"

WatchesOpenNew     == ui.admin /\ ui.srcs /\ ~WatchesCovered /\ OpenForm(None, Blank)
WatchesOpenEdit(r) == OpenForm(r, ui.rows[r])
WatchesClose       == WatchesCovered /\ User([ui EXCEPT !.dlg = None, !.del = None, !.runsOf = None])
WatchesSubmit      == WatchesCanSubmit /\ SubmitForm
WatchesToggle(r)   == ToggleRow(r, "set")
WatchesRunNow(r) == ui.rows[r].on /\ Ask(ui, "test", [id |-> r])
WatchesConfirmDelete == DeleteRow
WatchesOpenRuns(r) == Ask([ui EXCEPT !.runsOf = r], "runs", [id |-> r])

WatchesUser ==
    \/ WatchesOpenNew
    \/ TypeForm(Typed \cup {"short"})
    \/ WatchesClose
    \/ WatchesSubmit
    \/ WatchesConfirmDelete
    \/ \E r \in WatchesTable : \/ WatchesOpenEdit(r)
                               \/ WatchesToggle(r)
                               \/ WatchesRunNow(r)
                               \/ AskDelete(r)
                               \/ WatchesOpenRuns(r)

WatchesPoll == Tick(ui, "list", None)

\* load(), awaited inside handleSubmit when its argument is "submit".
WatchesListed(s) ==
    LET u == [ui EXCEPT !.loading = FALSE, !.submitting = @ /\ net[s].a # "submit"]
    IN  Resume(s, IF Ok(s) THEN [u EXCEPT !.rows = net[s].r.rows, !.srcs = net[s].r.srcs] ELSE u, Rest(s))

WatchesSaved(s) ==
    IF Ok(s)
    THEN Resume(s, [ui EXCEPT !.dlg = None], Send(Rest(s), "list", "submit"))
    ELSE Resume(s, [ui EXCEPT !.submitting = FALSE], Rest(s))

WatchesChanged(s) ==
    IF Ok(s)
    THEN Resume(s, [ui EXCEPT !.del = IF net[s].k = "delete" THEN None ELSE @], Send(Rest(s), "list", None))
    ELSE Resume(s, ui, Rest(s))

WatchesRuns(s) == Resume(s, [ui EXCEPT !.runs = Got(s, @)], Rest(s))

WatchesResume(s) ==
    \/ net[s].k = "list" /\ WatchesListed(s)
    \/ net[s].k \in {"create", "update"} /\ WatchesSaved(s)
    \/ net[s].k \in {"set", "delete"} /\ WatchesChanged(s)
    \/ net[s].k = "runs" /\ WatchesRuns(s)
    \/ net[s].k = "test" /\ Resume(s, ui, Rest(s))

\* The watcher scans a folder and records the outcome.
WatchesWorld == \E r \in Present(db.rows) : World([db EXCEPT !.rows[r].v = "scanned"])

----------------------------------------------------------------------------
(* The path picker: the folder shown is the one whose entries were loaded. *)
(* Folders are numbered, 0 the root, n + 1 inside n; at every reopening    *)
(* the listing starts at the root again.                                   *)

PickerUi == [open |-> FALSE, src |-> 1, prefix |-> 0, entries |-> [src |-> 1, dir |-> 0], loading |-> FALSE, chosen |-> None]
PickerDb == [depth |-> 1]
PickerAnswer(c) == c.a

PickerOpen(src) ==
    /\ ~ui.open
    /\ Ask([ui EXCEPT !.open = TRUE, !.src = src, !.loading = TRUE], "dir", [src |-> src, dir |-> 0])

PickerLoad(p) == Ask([ui EXCEPT !.loading = TRUE], "dir", [src |-> ui.src, dir |-> p])

\* The breadcrumb is always there, the entries only when nothing is loading.
PickerCrumbs  == IF ui.open THEN 0..ui.prefix ELSE {}
PickerFolders == IF ui.open /\ ~ui.loading THEN {ui.entries.dir + 1} \cap 0..db.depth ELSE {}

PickerChoose ==
    /\ ui.open
    /\ User([ui EXCEPT !.chosen = ui.prefix, !.open = FALSE])

PickerUser ==
    \/ \E src \in {1, 2} : PickerOpen(src)
    \/ \E p \in PickerCrumbs \cup PickerFolders : PickerLoad(p)
    \/ PickerChoose

PickerListed(s) ==
    Resume(s, [ui EXCEPT !.entries = Got(s, @),
                         !.prefix = IF Ok(s) THEN net[s].a.dir ELSE @,
                         !.loading = FALSE], Rest(s))

PickerResume(s) == net[s].k = "dir" /\ PickerListed(s)
=============================================================================
