----------------------------- MODULE TablePage -----------------------------
(***************************************************************************)
(* The shape most pages of the console share: a table of rows the server   *)
(* keeps, a dialog with a form that creates or edits one, a dialog that    *)
(* confirms a deletion, and a switch per row.  The state is                *)
(*                                                                         *)
(*   rows        the page's copy of the table                              *)
(*   loading     the table shows its spinner                               *)
(*   dlg         the form dialog: None, or [id, form]; id None is a new    *)
(*               row.  A form's v is "" until its required fields are      *)
(*               filled in                                                 *)
(*   submitting  the form's submit button waits                            *)
(*   del         the row whose deletion waits for confirmation             *)
(*                                                                         *)
(* A page module says which of these handlers it has and under which       *)
(* conditions its JSX offers them.                                         *)
(***************************************************************************)
EXTENDS Browser

----------------------------------------------------------------------------
(* Tables of rows.                                                         *)

Present(t) == {r \in Rows : t[r] # None}
NoRows     == [r \in Rows |-> None]
Fresh(t)   == CHOOSE r \in Rows : t[r] = None
Full(t)    == Present(t) = Rows
Drop(t, r) == [t EXCEPT ![r] = None]

\* What the server does for the create, read, update and delete functions of
\* the features' api.ts.  A request about a row that is gone is answered 404.
\* (Bound: the server has room for Cardinality(Rows) rows.)
TableAccepts(c) ==
    /\ c.k \in {"update", "toggle", "set", "patch", "delete", "test"} => db.rows[c.a.id] # None
    /\ c.k = "create" => ~Full(db.rows)

TableEffect(c) ==
    CASE c.k = "create" -> [db EXCEPT !.rows[Fresh(db.rows)] = c.a.form]
      [] c.k = "update" -> [db EXCEPT !.rows[c.a.id] = c.a.form]
      [] c.k \in {"toggle", "set"} -> [db EXCEPT !.rows[c.a.id].on = c.a.on]
      [] c.k = "delete" -> [db EXCEPT !.rows = Drop(@, c.a.id)]
      [] OTHER -> db

\* One row, the rest of the table still free.
OneRow(v) == [r \in Rows |-> IF r = Fresh(NoRows) THEN v ELSE None]

----------------------------------------------------------------------------
(* Handlers up to their first await.                                       *)

Blank == [v |-> "", on |-> TRUE]
Typed == {"y"}      \* what the user types into a form

Modal == ui.dlg # None \/ ui.del # None

OpenForm(id, form) == User([ui EXCEPT !.dlg = [id |-> id, form |-> form]])
TypeForm(V)  == ui.dlg # None /\ \E v \in V : User([ui EXCEPT !.dlg.form.v = v])
CloseForm    == ui.dlg # None /\ User([ui EXCEPT !.dlg = None])
\* Mutant: the button does not wait for the submission that is out.
FormFilled == ui.dlg # None /\ ui.dlg.form.v # ""

FormReady    == ui.dlg # None /\ ~ui.submitting /\ ui.dlg.form.v # ""
SubmitForm   == Ask([ui EXCEPT !.submitting = TRUE], IF ui.dlg.id = None THEN "create" ELSE "update", ui.dlg)

AskDelete(r) == User([ui EXCEPT !.del = r])
KeepRow      == ui.del # None /\ User([ui EXCEPT !.del = None])
DeleteRow    == ui.del # None /\ Ask(ui, "delete", [id |-> ui.del])
ToggleRow(r, k) == Ask(ui, k, [id |-> r, on |-> ~ui.rows[r].on])

----------------------------------------------------------------------------
(* What follows their awaits.                                              *)

\* refresh(): setLoading(true), then the list is fetched.
Refresh(s, u) == Resume(s, [u EXCEPT !.loading = TRUE], Send(Rest(s), "list", None))

Listed(s) == Resume(s, [ui EXCEPT !.rows = Got(s, @), !.loading = FALSE], Rest(s))

\* Mutant: the flag is lowered on success only.
SavedOrStuck(s) ==
    IF Ok(s)
    THEN Refresh(s, [ui EXCEPT !.dlg = None, !.submitting = FALSE])
    ELSE Resume(s, ui, Rest(s))

Saved(s) ==
    IF Ok(s)
    THEN Refresh(s, [ui EXCEPT !.dlg = None, !.submitting = FALSE])
    ELSE Resume(s, [ui EXCEPT !.submitting = FALSE], Rest(s))

\* Mutant: the table is not loaded again.
DeletedUnseen(s) == Resume(s, IF Ok(s) THEN [ui EXCEPT !.del = None] ELSE ui, Rest(s))

Deleted(s) ==
    IF Ok(s)
    THEN Refresh(s, [ui EXCEPT !.del = None])
    ELSE Resume(s, ui, Rest(s))

\* The switch of the row is flipped in place.
Toggled(s) ==
    LET r == net[s].a.id
    IN  Resume(s, IF Ok(s) /\ ui.rows[r] # None THEN [ui EXCEPT !.rows[r].on = ~@] ELSE ui, Rest(s))
=============================================================================
