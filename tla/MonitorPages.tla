---------------------------- MODULE MonitorPages ----------------------------
(***************************************************************************)
(* The job monitor (app/dashboard/jobs/page.tsx) and the model registry    *)
(* (app/dashboard/models/page.tsx).                                        *)
(***************************************************************************)
EXTENDS TablePage

----------------------------------------------------------------------------
(* Ingestion tab.  A job is known by its document and has a status; a      *)
(* listing is the status of the jobs that pass the filter, with the query  *)
(* it answers.  The tab polls every few seconds, the list only on page 1.  *)

JobStates == {"running", "succeeded", "failed"}
JobsHome == [st |-> "all", page |-> 1]

JobsUi(admin) ==
    [admin |-> admin, q |-> JobsHome, shown |-> [q |-> JobsHome, rows |-> NoRows],
     loading |-> TRUE, reindexing |-> None, confirm |-> None]

JobsDb == [rows |-> [r \in Rows |-> IF r = Fresh(NoRows) THEN "running" ELSE "failed"]]

JobsListing(q) ==
    [q |-> q, rows |-> [r \in Rows |-> IF q.st \in {"all", db.rows[r]} THEN db.rows[r] ELSE None]]

JobsAccepts(c) == TRUE
JobsEffect(c)  == IF c.k = "reindex" THEN [db EXCEPT !.rows[c.a.id] = "running"] ELSE db
JobsAnswer(c)  == IF c.k \in {"load", "poll"} THEN JobsListing(c.a) ELSE None

\* The rows with a reindex button.
JobsTable ==
    IF ui.loading \/ ui.confirm # None \/ ~ui.admin THEN {}
    ELSE {r \in Present(ui.shown.rows) : ui.shown.rows[r] = "failed" /\ ui.reindexing # r}

\* Changing the status filter goes back to page 1; the effect on the filter
\* sets loading and calls refresh().
JobsFilter(st) ==
    /\ ui.confirm = None /\ st # ui.q.st
    /\ LET q == [st |-> st, page |-> 1]
       IN  Ask([ui EXCEPT !.q = q, !.loading = TRUE], "load", q)

JobsTurn ==
    /\ ui.confirm = None
    /\ LET q == [ui.q EXCEPT !.page = 3 - @]
       IN  Ask([ui EXCEPT !.q = q, !.loading = TRUE], "load", q)

JobsRefresh == ui.confirm = None /\ Ask(ui, "load", ui.q)

JobsAskReindex(r) == User([ui EXCEPT !.confirm = r])
JobsKeep == ui.confirm # None /\ User([ui EXCEPT !.confirm = None])

JobsDoReindex ==
    /\ ui.confirm # None /\ ui.reindexing = None
    /\ Ask([ui EXCEPT !.reindexing = ui.confirm], "reindex", [id |-> ui.confirm])

JobsUser ==
    \/ \E st \in {"all", "failed"} : JobsFilter(st)
    \/ JobsTurn
    \/ JobsRefresh
    \/ JobsKeep
    \/ JobsDoReindex
    \/ \E r \in JobsTable : JobsAskReindex(r)

JobsPoll == ui.q.page = 1 /\ Tick(ui, "poll", ui.q)

JobsLoaded(s) ==
    Resume(s, [ui EXCEPT !.shown = Got(s, @), !.loading = IF net[s].k = "load" THEN FALSE ELSE @], Rest(s))

JobsReindexed(s) ==
    IF Ok(s)
    THEN Resume(s, [ui EXCEPT !.confirm = None, !.reindexing = None], Send(Rest(s), "load", ui.q))
    ELSE Resume(s, [ui EXCEPT !.reindexing = None], Rest(s))

JobsResume(s) ==
    \/ net[s].k \in {"load", "poll"} /\ JobsLoaded(s)
    \/ net[s].k = "reindex" /\ JobsReindexed(s)

\* The worker finishes a job.
JobsWorld ==
    \E r \in Rows, st \in {"succeeded", "failed"} :
        db.rows[r] = "running" /\ World([db EXCEPT !.rows[r] = st])

----------------------------------------------------------------------------
(* The other tabs each mount a list polled by usePolledList while they are *)
(* active; switching unmounts the list, and its late answers go nowhere.   *)

PolledTabs == {"eval", "workers"}
PolledUi == [tab |-> "eval", data |-> None, loading |-> TRUE]
PolledDb == [t \in PolledTabs |-> 0]
PolledAnswer(c) == IF c.k = "list" THEN [tab |-> c.a, v |-> db[c.a]] ELSE None

\* Mutant: the answers asked for by the other tab are not cut off.
PolledSwitchLate(t) ==
    t # ui.tab /\ Ask([tab |-> t, data |-> None, loading |-> TRUE], "list", t)

PolledSwitch(t) ==
    /\ t # ui.tab
    /\ ops < MaxOps /\ ops' = ops + 1
    /\ Room(1)
    /\ ui' = [tab |-> t, data |-> None, loading |-> TRUE]
    /\ net' = Send(Abandon(net), "list", t)
    /\ UNCHANGED <<screen, db, evs, mixed>>

PolledRefresh == Ask(ui, "list", ui.tab)
PolledPoll == Tick(ui, "list", ui.tab)

PolledListed(s) == Resume(s, [ui EXCEPT !.data = Got(s, @), !.loading = FALSE], Rest(s))

PolledUser == PolledRefresh \/ \E t \in PolledTabs : PolledSwitch(t)
PolledResume(s) ==
    \/ net[s].k = "list" /\ PolledListed(s)
    \/ net[s].k = "gone" /\ Resume(s, ui, Rest(s))
PolledWorld == \E t \in PolledTabs : World([db EXCEPT ![t] = 1 - @])

----------------------------------------------------------------------------
(* Servers tab: the probes of the configured servers and the registered     *)
(* replicas are two polled lists.  A probe is [host, ok]; one of a host    *)
(* that has registered is hidden unless it failed.                         *)

ServerHosts == {"h1", "h2"}
ServersUi == [probes |-> {}, replicas |-> {}, loading |-> TRUE]
ServersDb == [probes |-> [h \in ServerHosts |-> TRUE], replicas |-> {"h1"}]

ServersAnswer(c) ==
    CASE c.k = "probes"   -> {[host |-> h, ok |-> db.probes[h]] : h \in ServerHosts}
      [] c.k = "replicas" -> db.replicas

ServerProbes(probes, replicas) == {p \in probes : ~p.ok \/ p.host \notin replicas}
ServerCards == [replicas |-> ui.replicas, probes |-> ServerProbes(ui.probes, ui.replicas)]

ServersUser == \/ Ask(ui, "probes", None) \/ Ask(ui, "replicas", None)
ServersPoll == Room(2) /\ Fire(ui, Send(Send(net, "probes", None), "replicas", None))
ServersResume(s) ==
    \/ net[s].k = "probes" /\ Resume(s, [ui EXCEPT !.probes = Got(s, @), !.loading = FALSE], Rest(s))
    \/ net[s].k = "replicas" /\ Resume(s, [ui EXCEPT !.replicas = Got(s, @)], Rest(s))
ServersWorld ==
    \/ \E h \in ServerHosts : World([db EXCEPT !.probes[h] = ~@])
    \/ World([db EXCEPT !.replicas = ServerHosts \ @])

----------------------------------------------------------------------------
(* Model registry.  A model is [on, v]; packs is the pack job of     *)
(* each model.  A pack downloads a model into the store in the background: *)
(* while the page knows of a running one it polls the jobs, and when none  *)
(* runs any more it lists the models again.                                *)

ModelsUi(admin) ==
    [admin |-> admin, rows |-> NoRows, loading |-> TRUE, dlg |-> None, submitting |-> FALSE,
     del |-> None, online |-> FALSE, packs |-> NoRows, pack |-> None]

ModelsDb(v) == [rows |-> OneRow([v |-> v, on |-> TRUE]), packs |-> NoRows]

ModelsAccepts(c) ==
    /\ TableAccepts(c)
    /\ c.k = "pack" => /\ db.rows[c.a.id] # None
                       /\ \A r \in Rows : db.packs[r] # "running"

ModelsEffect(c) ==
    IF c.k = "pack" THEN [db EXCEPT !.packs[c.a.id] = "running"] ELSE TableEffect(c)

ModelsAnswer(c) ==
    CASE c.k = "list" -> db.rows
      [] c.k = "jobs" -> db.packs
      [] OTHER -> None

ModelsPacking == \E r \in Rows : ui.packs[r] = "running"
ModelsCovered == Modal \/ ui.pack # None

\* Row buttons, the list of models and the dialogs.
ModelsTable == IF ui.loading \/ ModelsCovered THEN {} ELSE Present(ui.rows)
ModelsCanSubmit == FormReady
ModelsCanPack(r) == ui.admin /\ ui.online /\ ~ModelsPacking

ModelsOpenNew      == ui.admin /\ ~ModelsCovered /\ OpenForm(None, Blank)
ModelsOpenEdit(r)  == ui.admin /\ OpenForm(r, ui.rows[r])
ModelsSubmit       == ModelsCanSubmit /\ SubmitForm
ModelsToggle(r)    == ui.admin /\ ToggleRow(r, "toggle")
ModelsAskDelete(r) == ui.admin /\ ui.rows[r].v # "builtin" /\ AskDelete(r)
ModelsConfirmDelete == DeleteRow
ModelsAskPack(r)   == ModelsCanPack(r) /\ User([ui EXCEPT !.pack = r])
ModelsConfirmPack  == ui.pack # None /\ Ask(ui, "pack", [id |-> ui.pack])
ModelsKeep         == ModelsCovered /\ User([ui EXCEPT !.dlg = None, !.del = None, !.pack = None])

ModelsReload ==
    ~ui.loading /\ ~ModelsCovered /\ Ask([ui EXCEPT !.loading = TRUE], "list", None)

\* checkOnline() of the mount effect answers that the model hub can be reached.
ModelsOnline == ~ui.online /\ User([ui EXCEPT !.online = TRUE])

ModelsUser ==
    \/ ModelsOpenNew
    \/ TypeForm(Typed)
    \/ ModelsSubmit
    \/ ModelsConfirmDelete
    \/ ModelsConfirmPack
    \/ ModelsKeep
    \/ ModelsReload
    \/ ModelsOnline
    \/ \E r \in ModelsTable : \/ ModelsOpenEdit(r)
                              \/ ModelsToggle(r)
                              \/ ModelsAskDelete(r)
                              \/ ModelsAskPack(r)

\* The effect on packJobs keeps a 3 s interval while one of them runs.
ModelsPoll == ModelsPacking /\ Tick(ui, "jobs", "poll")

ModelsPolled(s) ==
    LET u == [ui EXCEPT !.packs = net[s].r]
    IN  CASE ~Ok(s) -> Resume(s, ui, Rest(s))
          [] Ok(s) /\ net[s].a = "poll" /\ (\A r \in Rows : net[s].r[r] # "running") -> Refresh(s, u)
          [] OTHER -> Resume(s, u, Rest(s))

ModelsPacked(s) ==
    LET u == [ui EXCEPT !.pack = None]
    IN  Resume(s, IF Ok(s) THEN [u EXCEPT !.packs[net[s].a.id] = "running"] ELSE u, Rest(s))

ModelsListed(s)  == Listed(s)
ModelsSaved(s)   == Saved(s)
ModelsToggled(s) == Toggled(s)
ModelsDeleted(s) == Deleted(s)

ModelsResume(s) ==
    \/ net[s].k = "list" /\ ModelsListed(s)
    \/ net[s].k \in {"create", "update"} /\ ModelsSaved(s)
    \/ net[s].k = "toggle" /\ ModelsToggled(s)
    \/ net[s].k = "delete" /\ ModelsDeleted(s)
    \/ net[s].k = "jobs" /\ ModelsPolled(s)
    \/ net[s].k = "pack" /\ ModelsPacked(s)

\* The server's pack job ends.
ModelsWorld ==
    \E r \in Rows, st \in {"done", "error"} :
        db.packs[r] = "running" /\ World([db EXCEPT !.packs[r] = st])
=============================================================================
