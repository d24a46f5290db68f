---------------------------- MODULE ConfigPages ----------------------------
(***************************************************************************)
(* The administration pages: settings, API keys, PII rules and functions,  *)
(* and feedback (app/dashboard/{settings,api-keys,pii-rules,feedback}).    *)
(***************************************************************************)
EXTENDS TablePage

----------------------------------------------------------------------------
(* Settings: one form for every setting of the server.  Choosing the       *)
(* Databricks platform overwrites some fields with recommended values      *)
(* (store) or with values derived from the workspace's host (url), and     *)
(* keeps what they had in prev, so that it can be switched back.           *)
(* Two fields of ui are history: own, the values the administrator gave (a *)
(* save that succeeds makes what it sent his), and moved, set when a save  *)
(* succeeds after the form changed under it.                               *)

Fields == {"store", "url"}
Hosts  == {"", "h1", "h2"}
Checks == {"databricks", "embedding", "storage"}   \* of the eight test buttons, the three that differ

\* What a field may hold: a value the administrator gave, or a recommended one.
FieldValues == {"x", "y", "dbx"} \cup Hosts

ASSUME FieldAssumption == None \notin FieldValues

NoPrev == [f \in Fields |-> None]
SettingsForm == [f \in Fields |-> "x"]

SettingsUi ==
    [ready |-> FALSE, loading |-> TRUE, base |-> "local", host |-> "", form |-> SettingsForm,
     prev |-> NoPrev, own |-> SettingsForm, moved |-> FALSE, saving |-> FALSE, testing |-> {}]
SettingsDb == [base |-> "local", host |-> "", form |-> SettingsForm]

SettingsEffect(c) == IF c.k = "save" THEN c.a ELSE db
SettingsAnswer(c) == IF c.k = "list" THEN db ELSE None

\* The form is there once it was loaded and is not being loaded.
SettingsShown == ui.ready /\ ~ui.loading

\* dbxServingUrl and DBX: "" when no value can be derived.
DbxTarget(host) == [f \in Fields |-> IF f = "store" THEN "dbx" ELSE host]

\* Mutant: the value before the last change is kept.
KeepLast(prev, form, f) == form[f]

\* apply: a field that changes keeps the value it had before the first change.
KeepFirst(prev, form, f) == IF prev[f] = None THEN form[f] ELSE prev[f]

ApplyDatabricks(u, F) ==
    LET t == DbxTarget(u.host)
        C == {f \in F : t[f] # "" /\ u.form[f] # t[f]}
    IN  [u EXCEPT !.prev = [f \in Fields |-> IF f \in C THEN KeepFirst(u.prev, u.form, f) ELSE u.prev[f]],
                  !.form = [f \in Fields |-> IF f \in C THEN t[f] ELSE u.form[f]]]

RevertAll(u) ==
    [u EXCEPT !.form = [f \in Fields |-> IF u.prev[f] = None THEN u.form[f] ELSE u.prev[f]],
              !.prev = NoPrev]

SettingsBase(b) ==
    LET u == [ui EXCEPT !.base = b]
    IN  User(IF b = "databricks" THEN ApplyDatabricks(u, Fields) ELSE RevertAll(u))

\* handleChangeHost: only the derived field follows the host.
SettingsHost(h) ==
    /\ ui.base = "databricks"
    /\ User(ApplyDatabricks([ui EXCEPT !.host = h], {"url"}))

SettingsApply == ui.base = "databricks" /\ User(ApplyDatabricks(ui, Fields))

RevertField(u, f) == [u EXCEPT !.form[f] = u.prev[f], !.prev[f] = None]

\* A row offers to revert its field while a previous value is recorded.
SettingsRevert(f) == ui.prev[f] # None /\ User(RevertField(ui, f))

SettingsType(f) ==
    User([ui EXCEPT !.form[f] = "y", !.own[f] = IF ui.prev[f] = None THEN "y" ELSE @])

\* Save sends the whole form; nothing hides it while it waits.
SettingsSave ==
    /\ ~ui.saving
    /\ Ask([ui EXCEPT !.saving = TRUE], "save", [base |-> ui.base, host |-> ui.host, form |-> ui.form])

SettingsOffers(t) ==
    /\ t \notin ui.testing
    /\ t = "databricks" => ui.base = "databricks"
    /\ t = "embedding"  => ui.form["url"] # ""
    /\ t = "storage"    => ui.form["store"] # "dbx"
SettingsTest(t) == SettingsOffers(t) /\ Ask([ui EXCEPT !.testing = @ \cup {t}], "check", t)

SettingsUser ==
    /\ SettingsShown
    /\ \/ \E b \in {"local", "databricks"} \ {ui.base} : SettingsBase(b)
       \/ \E h \in Hosts : SettingsHost(h)
       \/ SettingsApply
       \/ \E f \in Fields : SettingsRevert(f) \/ SettingsType(f)
       \/ SettingsSave
       \/ \E t \in Checks : SettingsTest(t)

SettingsLoaded(s) ==
    LET d == net[s].r
        u == [ui EXCEPT !.loading = FALSE]
    IN  Resume(s, IF Ok(s)
                  THEN [u EXCEPT !.ready = TRUE, !.base = d.base, !.host = d.host, !.form = d.form,
                                 !.own = d.form, !.moved = FALSE]
                  ELSE u, Rest(s))

SettingsSaved(s) ==
    IF Ok(s)
    THEN LET sent == net[s].a.form
         IN  Refresh(s, [ui EXCEPT !.saving = FALSE, !.prev = NoPrev, !.own = sent, !.moved = (ui.form # sent)])
    ELSE Resume(s, [ui EXCEPT !.saving = FALSE], Rest(s))

\* The embedding test first checks the server, then probes the dimension.
SettingsTested(s) ==
    LET t == net[s].a
    IN  IF net[s].k = "check" /\ t = "embedding" /\ Ok(s)
        THEN Resume(s, ui, Send(Rest(s), "probe", t))
        ELSE Resume(s, [ui EXCEPT !.testing = @ \ {t}], Rest(s))

SettingsResume(s) ==
    \/ net[s].k = "list" /\ SettingsLoaded(s)
    \/ net[s].k = "save" /\ SettingsSaved(s)
    \/ net[s].k \in {"check", "probe"} /\ SettingsTested(s)

----------------------------------------------------------------------------
(* API keys.  The secret of a new key is shown once, in a dialog.          *)

KeysUi(admin) ==
    [admin |-> admin, rows |-> NoRows, loading |-> TRUE, dlg |-> None, submitting |-> FALSE,
     del |-> None, secret |-> None]
KeysDb == [rows |-> OneRow([v |-> "x", on |-> TRUE])]
KeysAnswer(c) ==
    CASE c.k = "list"   -> db.rows
      [] c.k = "create" -> Fresh(db.rows)
      [] OTHER -> None

KeysTable == IF ui.loading \/ Modal \/ ui.secret # None THEN {} ELSE Present(ui.rows)

KeysOpen         == ~Modal /\ ui.secret = None /\ OpenForm(None, Blank)
KeysCanSubmit    == FormReady
KeysHandleCreate == KeysCanSubmit /\ SubmitForm
KeysHandleToggle(r) == ToggleRow(r, "toggle")
KeysHandleDelete == DeleteRow
KeysHideSecret   == ui.secret # None /\ User([ui EXCEPT !.secret = None])

KeysUser ==
    /\ ui.admin
    /\ \/ KeysOpen
       \/ TypeForm(Typed)
       \/ CloseForm
       \/ KeysHandleCreate
       \/ KeepRow
       \/ KeysHandleDelete
       \/ KeysHideSecret
       \/ \E r \in KeysTable : KeysHandleToggle(r) \/ AskDelete(r)

KeysListed(s) == Listed(s)

KeysCreated(s) ==
    IF Ok(s)
    THEN Refresh(s, [ui EXCEPT !.dlg = None, !.submitting = FALSE, !.secret = net[s].r])
    ELSE Resume(s, [ui EXCEPT !.submitting = FALSE], Rest(s))

\* Unlike the switches of the other tables this one is set, not flipped.
KeysToggled(s) ==
    LET r == net[s].a.id
    IN  Resume(s, IF Ok(s) /\ ui.rows[r] # None THEN [ui EXCEPT !.rows[r].on = net[s].a.on] ELSE ui, Rest(s))

KeysDeleted(s) == Deleted(s)

KeysResume(s) ==
    \/ net[s].k = "list" /\ KeysListed(s)
    \/ net[s].k = "create" /\ KeysCreated(s)
    \/ net[s].k = "toggle" /\ KeysToggled(s)
    \/ net[s].k = "delete" /\ KeysDeleted(s)

----------------------------------------------------------------------------
(* PII rules, with a panel that runs all rules on a sample, and PII        *)
(* functions, with a test of the code in the form.  Both are TablePages.   *)

PiiUi(admin) ==
    [admin |-> admin, rows |-> NoRows, loading |-> TRUE, dlg |-> None, submitting |-> FALSE,
     del |-> None, testing |-> FALSE, out |-> None]
PiiDb == [rows |-> OneRow([v |-> "x", on |-> TRUE])]
PiiAccepts(c) == c.k = "probe" \/ TableAccepts(c)
PiiAnswer(c)  ==
    CASE c.k = "list"  -> db.rows
      [] c.k = "probe" -> c.a
      [] OTHER -> None

RulesTable        == IF ui.loading \/ Modal THEN {} ELSE Present(ui.rows)
RulesOpenNew      == ui.admin /\ ~Modal /\ OpenForm(None, Blank)
RulesOpenEdit(r)  == ui.admin /\ OpenForm(r, ui.rows[r])
RulesCanSubmit    == FormReady
RulesHandleSubmit == RulesCanSubmit /\ SubmitForm
RulesToggle(r)    == ui.admin /\ ToggleRow(r, "toggle")
RulesConfirmDelete == DeleteRow
RulesRunTest      == ~Modal /\ ~ui.testing /\ Ask([ui EXCEPT !.testing = TRUE], "probe", "sample")

RulesUser ==
    \/ RulesOpenNew \/ TypeForm(Typed) \/ CloseForm \/ RulesHandleSubmit
    \/ KeepRow \/ RulesConfirmDelete
    \/ RulesRunTest
    \/ \E r \in RulesTable : RulesOpenEdit(r) \/ RulesToggle(r) \/ (ui.admin /\ AskDelete(r))

RulesListed(s)  == Listed(s)
RulesSaved(s)   == Saved(s)
RulesToggled(s) == Toggled(s)
RulesDeleted(s) == Deleted(s)
RulesTested(s)  == Resume(s, [ui EXCEPT !.testing = FALSE, !.out = Got(s, @)], Rest(s))

RulesResume(s) ==
    \/ net[s].k = "list" /\ RulesListed(s)
    \/ net[s].k \in {"create", "update"} /\ RulesSaved(s)
    \/ net[s].k = "toggle" /\ RulesToggled(s)
    \/ net[s].k = "delete" /\ RulesDeleted(s)
    \/ net[s].k = "probe" /\ RulesTested(s)

FunctionsTable        == IF ui.loading \/ Modal THEN {} ELSE Present(ui.rows)
FunctionsOpenNew      == ui.admin /\ ~Modal /\ User([ui EXCEPT !.dlg = [id |-> None, form |-> Blank], !.out = None])
FunctionsOpenEdit(r)  == ui.admin /\ User([ui EXCEPT !.dlg = [id |-> r, form |-> ui.rows[r]], !.out = None])
FunctionsCanSubmit    == FormReady
FunctionsHandleSubmit == FunctionsCanSubmit /\ SubmitForm
FunctionsToggle(r)    == ui.admin /\ ToggleRow(r, "toggle")
FunctionsConfirmDelete == DeleteRow

\* The test runs the code that is in the form, saved or not.
FunctionsRunTest ==
    /\ ui.dlg # None /\ ~ui.testing
    /\ Ask([ui EXCEPT !.testing = TRUE], "probe", ui.dlg.form.v)

FunctionsUser ==
    \/ FunctionsOpenNew \/ TypeForm(Typed) \/ CloseForm \/ FunctionsHandleSubmit
    \/ KeepRow \/ FunctionsConfirmDelete
    \/ FunctionsRunTest
    \/ \E r \in FunctionsTable : FunctionsOpenEdit(r) \/ FunctionsToggle(r) \/ (ui.admin /\ AskDelete(r))

FunctionsListed(s)  == Listed(s)
FunctionsSaved(s)   == Saved(s)
FunctionsToggled(s) == Toggled(s)
FunctionsDeleted(s) == Deleted(s)
FunctionsTested(s)  == Resume(s, [ui EXCEPT !.testing = FALSE, !.out = Got(s, @)], Rest(s))

FunctionsResume(s) ==
    \/ net[s].k = "list" /\ FunctionsListed(s)
    \/ net[s].k \in {"create", "update"} /\ FunctionsSaved(s)
    \/ net[s].k = "toggle" /\ FunctionsToggled(s)
    \/ net[s].k = "delete" /\ FunctionsDeleted(s)
    \/ net[s].k = "probe" /\ FunctionsTested(s)

----------------------------------------------------------------------------
(* Feedback: a row is its status.  refresh is a closure over the filters   *)
(* of the render it was made in, and so are the handlers that call it: a   *)
(* request carries the filter its refresh will use.                        *)

FeedbackUi(admin) ==
    [admin |-> admin, rows |-> NoRows, loading |-> TRUE, filter |-> "all", listed |-> "all",
     add |-> None, adding |-> FALSE, promote |-> None, dataset |-> FALSE, submitting |-> FALSE, del |-> None]
FeedbackDb == [rows |-> OneRow("new"), datasets |-> TRUE]

FeedbackMatch(t, f) == [r \in Rows |-> IF f = "all" \/ t[r] = f THEN t[r] ELSE None]

FeedbackAccepts(c) ==
    CASE c.k = "create" -> ~Full(db.rows)
      [] c.k \in {"promote", "dismiss", "delete"} -> db.rows[c.a.id] # None
      [] OTHER -> TRUE

FeedbackEffect(c) ==
    CASE c.k = "create"  -> [db EXCEPT !.rows[Fresh(db.rows)] = "new"]
      [] c.k = "promote" -> [db EXCEPT !.rows[c.a.id] = "promoted"]
      [] c.k = "dismiss" -> [db EXCEPT !.rows[c.a.id] = "dismissed"]
      [] c.k = "delete"  -> [db EXCEPT !.rows = Drop(@, c.a.id)]
      [] OTHER -> db

FeedbackAnswer(c) ==
    CASE c.k = "list" -> FeedbackMatch(db.rows, c.a)
      [] c.k = "datasets" -> db.datasets
      [] OTHER -> None

FeedbackCovered == ui.add # None \/ ui.promote # None \/ ui.del # None
FeedbackTable   == IF ui.loading \/ FeedbackCovered \/ ~ui.admin THEN {} ELSE Present(ui.rows)

FeedbackFilter(f) == ~FeedbackCovered /\ Ask([ui EXCEPT !.filter = f, !.loading = TRUE], "list", f)

FeedbackOpenAdd   == ~FeedbackCovered /\ ui.admin /\ User([ui EXCEPT !.add = ""])
FeedbackTypeAdd   == ui.add # None /\ User([ui EXCEPT !.add = "y"])
FeedbackManualAdd == ui.add = "y" /\ ~ui.adding /\ Ask([ui EXCEPT !.adding = TRUE], "create", [f |-> ui.filter])

FeedbackOpenPromote(r) == ui.rows[r] = "new" /\ Ask([ui EXCEPT !.promote = r, !.dataset = FALSE], "datasets", None)
FeedbackPromote ==
    /\ ui.promote # None /\ ui.dataset /\ ~ui.submitting
    /\ Ask([ui EXCEPT !.submitting = TRUE], "promote", [id |-> ui.promote, f |-> ui.filter])

FeedbackDismiss(r)    == ui.rows[r] = "new" /\ Ask(ui, "dismiss", [id |-> r, f |-> ui.filter])
FeedbackAskDelete(r)  == ui.rows[r] # "new" /\ AskDelete(r)
FeedbackConfirmDelete == ui.del # None /\ Ask(ui, "delete", [id |-> ui.del, f |-> ui.filter])
FeedbackClose         == FeedbackCovered /\ User([ui EXCEPT !.add = None, !.promote = None, !.del = None])

FeedbackUser ==
    \/ \E f \in {"all", "new"} \ {ui.filter} : FeedbackFilter(f)
    \/ FeedbackOpenAdd \/ FeedbackTypeAdd \/ FeedbackManualAdd
    \/ FeedbackPromote \/ FeedbackConfirmDelete \/ FeedbackClose
    \/ \E r \in FeedbackTable : FeedbackOpenPromote(r) \/ FeedbackDismiss(r) \/ FeedbackAskDelete(r)

FeedbackListed(s) ==
    Resume(s, [ui EXCEPT !.loading = FALSE, !.rows = Got(s, @), !.listed = IF Ok(s) THEN net[s].a ELSE @], Rest(s))

FeedbackDatasets(s) == Resume(s, [ui EXCEPT !.dataset = Got(s, @)], Rest(s))

\* The continuations of the handlers: their flag falls, and if the request
\* succeeded their dialog closes and refresh() is called.
FeedbackChanged(s, lowered, closed) ==
    IF Ok(s)
    THEN Resume(s, [closed EXCEPT !.loading = TRUE], Send(Rest(s), "list", net[s].a.f))
    ELSE Resume(s, lowered, Rest(s))

FeedbackAdded(s)    == FeedbackChanged(s, [ui EXCEPT !.adding = FALSE], [ui EXCEPT !.adding = FALSE, !.add = None])
FeedbackPromoted(s) == FeedbackChanged(s, [ui EXCEPT !.submitting = FALSE], [ui EXCEPT !.submitting = FALSE, !.promote = None])

FeedbackResume(s) ==
    \/ net[s].k = "list" /\ FeedbackListed(s)
    \/ net[s].k = "datasets" /\ FeedbackDatasets(s)
    \/ net[s].k = "create" /\ FeedbackAdded(s)
    \/ net[s].k = "promote" /\ FeedbackPromoted(s)
    \/ net[s].k = "dismiss" /\ FeedbackChanged(s, ui, ui)
    \/ net[s].k = "delete" /\ FeedbackChanged(s, ui, [ui EXCEPT !.del = None])
=============================================================================
