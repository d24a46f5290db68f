----------------------------- MODULE UserPages -----------------------------
(***************************************************************************)
(* User management (features/users): the provider that pages and filters   *)
(* the users, the table with its check boxes, and the dialogs that add,    *)
(* edit, delete, (de)activate and reset passwords.  Which dialog is open   *)
(* is one value that setOpen toggles; every dialog closes itself by        *)
(* calling setOpen with its own name.  A page holds one user or two, in    *)
(* place of ten or more.                                                   *)
(***************************************************************************)
EXTENDS TablePage

UsersTimers == 1    \* bound: row dialogs that wait to be unmounted

UserRec(u) == [u |-> u, v |-> u, role |-> "user", on |-> TRUE]

UsersOrder ==
    CHOOSE q \in [1..Cardinality(Rows) -> Rows] : \A i, j \in DOMAIN q : q[i] = q[j] => i = j

UsersDb(two) ==
    [rows |-> [r \in Rows |-> IF r = UsersOrder[1] THEN UserRec("x") ELSE IF two THEN UserRec("z") ELSE None]]

UsersTaken(u) == \E r \in Present(db.rows) : db.rows[r].u = u

\* One page of the users a filter leaves: all, or the active ones.
UsersListing(q) ==
    LET Fits(r)  == db.rows[r] # None /\ (q.f = "active" => db.rows[r].on)
        all      == SelectSeq(UsersOrder, Fits)
        last     == q.page * q.size
        page     == SubSeq(all, last - q.size + 1, IF last < Len(all) THEN last ELSE Len(all))
    IN  [users |-> [i \in DOMAIN page |-> [id |-> page[i], rec |-> db.rows[page[i]]]], total |-> Len(all)]

UsersAccepts(c) ==
    /\ c.k \in {"modify", "role", "delete", "password", "bulk", "late"} => db.rows[c.a.id] # None
    /\ c.k = "create" => ~Full(db.rows) /\ ~UsersTaken(c.a.form.v)

UsersEffect(c) ==
    CASE c.k = "create" -> [db EXCEPT !.rows[Fresh(db.rows)] = [UserRec(c.a.form.v) EXCEPT !.role = c.a.form.role]]
      [] c.k = "modify" -> [db EXCEPT !.rows[c.a.id].v = c.a.form.v]
      [] c.k = "role"   -> [db EXCEPT !.rows[c.a.id].role = c.a.form.role]
      [] c.k = "delete" -> [db EXCEPT !.rows = Drop(@, c.a.id)]
      [] c.k \in {"bulk", "late"} -> [db EXCEPT !.rows[c.a.id].on = c.a.on]
      [] OTHER -> db

UsersAnswer(c) ==
    CASE c.k = "list" -> UsersListing(c.a)
      [] c.k \in {"check", "exists"} -> UsersTaken(c.a.form.v)
      [] OTHER -> None

----------------------------------------------------------------------------
(* The provider: what is shown, and the filters that were applied last.    *)

UsersBlank == [v |-> "", role |-> "user"]
UsersQuery(p, z, f) == [page |-> p, size |-> z, f |-> f, then |-> None]

\* The page size z on mount stands for more or fewer users than fit on a page.
UsersUi(z) ==
    [users |-> <<>>, total |-> 0, at |-> UsersQuery(1, z, ""), page |-> 1, size |-> z, loading |-> TRUE, applied |-> "",
     checks |-> {}, selected |-> {}, open |-> None, row |-> None, base |-> UsersBlank, form |-> UsersBlank,
     err |-> FALSE, typed |-> FALSE, timers |-> 0]

LoadUsers(u, p, z, f) == Ask([u EXCEPT !.loading = TRUE], "list", UsersQuery(p, z, f))

HandleSetPage(p)  == LoadUsers([ui EXCEPT !.page = p], p, ui.size, ui.applied)
SearchUsers(f)    == LoadUsers([ui EXCEPT !.page = 1, !.applied = f], 1, ui.size, f)

\* The page size is a dependency of the effect that loads the first page on
\* mount: its change also loads that page again, without filters.
HandleSetPageSize(z) ==
    /\ ops < MaxOps /\ ops' = ops + 1 /\ Room(2)
    /\ ui' = [ui EXCEPT !.size = z, !.page = 1, !.loading = TRUE]
    /\ net' = Send(Send(net, "list", UsersQuery(1, z, ui.applied)), "list", UsersQuery(1, z, ""))
    /\ UNCHANGED <<screen, db, evs, mixed>>

\* refreshUsers(): the page and its size are those of the handler's closure,
\* the filters are read from the ref.  The dialog then closes itself.
RefreshUsers(s, dialog) ==
    Resume(s, [ui EXCEPT !.loading = TRUE],
           Send(Rest(s), "list", [page |-> net[s].a.page, size |-> net[s].a.size, f |-> ui.applied, then |-> dialog]))

----------------------------------------------------------------------------
(* The table.  A check mark belongs to a position; the users it selects    *)
(* are looked up when the marks change, and only then.                     *)

UsersShown      == IF ui.loading THEN {} ELSE DOMAIN ui.users
UsersChecked(C) == {ui.users[i].id : i \in C \cap DOMAIN ui.users}
UsersCheck(C)   == User([ui EXCEPT !.checks = C, !.selected = UsersChecked(C)])

UsersTable ==
    \/ \E p \in 1..((ui.total + ui.size - 1) \div ui.size) : p # ui.page /\ HandleSetPage(p)
    \/ \E z \in {1, 2} : z # ui.size /\ HandleSetPageSize(z)
    \/ \E f \in {"", "active"} : SearchUsers(f)
    \/ \E i \in UsersShown : UsersCheck(IF i \in ui.checks THEN ui.checks \ {i} ELSE ui.checks \cup {i})

----------------------------------------------------------------------------
(* The dialogs.                                                            *)

UsersRowDialogs == {"edit", "delete", "password"}
UsersBulk       == {"activate", "deactivate"}

UsersVisible == ui.open # None /\ (ui.open \in UsersRowDialogs => ui.row # None)

UsersToggle(open, k) == IF open = k THEN None ELSE k

\* A form starts from what it was mounted with, and goes back to it whenever
\* its dialog closes.
UsersForm(u) == IF u.open = "edit" THEN u.base ELSE UsersBlank

UsersOpen(k) ==
    LET u == [ui EXCEPT !.open = UsersToggle(@, k)]
    IN  User([u EXCEPT !.form = UsersForm(u)])

UsersOpenRow(i, k) ==
    LET x == ui.users[i]
        kept == ui.row # None /\ ui.row.id = x.id
        u == [ui EXCEPT !.row = x, !.open = UsersToggle(@, k), !.typed = kept /\ @,
                        !.base = IF kept THEN @ ELSE [v |-> x.rec.v, role |-> x.rec.role]]
    IN  /\ ui.timers < UsersTimers
        /\ User([u EXCEPT !.form = UsersForm(u)])

\* onOpenChange of dialog k, called by the user or by the end of a handler: a
\* row dialog also starts the timer that forgets the row.
UsersOpenChange(w, k) ==
    LET u == [w EXCEPT !.open = UsersToggle(@, k), !.timers = IF k \in UsersRowDialogs THEN @ + 1 ELSE @,
                       !.err = @ /\ k # "add"]
    IN  [u EXCEPT !.form = UsersForm(u)]

UsersClose == User(UsersOpenChange(ui, ui.open))

UsersTimer ==
    /\ ui.timers > 0
    /\ Fire([ui EXCEPT !.timers = @ - 1, !.row = None, !.base = UsersBlank, !.typed = FALSE], net)

UsersType ==
    \/ ui.open = "add" /\ \E v \in {"x", "y"} : User([ui EXCEPT !.form.v = v, !.err = FALSE])
    \/ ui.open = "edit" /\ \/ User([ui EXCEPT !.form.v = "y"])
                           \/ \E l \in {"user", "admin"} : User([ui EXCEPT !.form.role = l])
    \/ ui.open = "password" /\ User([ui EXCEPT !.form.v = "y"])
    \/ ui.open = "delete" /\ User([ui EXCEPT !.typed = TRUE])

UsersCall(id) ==
    [id |-> id, was |-> IF ui.open = "edit" THEN ui.row.rec.role ELSE None, page |-> ui.page, size |-> ui.size,
     form |-> IF ui.open \in {"add", "edit"} THEN ui.form ELSE None]

HandleCheckUsername == ui.open = "add" /\ ui.form.v # "" /\ Ask(ui, "check", UsersCall(None))

UsersAdd      == ui.open = "add" /\ ui.form.v # "" /\ ~ui.err /\ Ask(ui, "exists", UsersCall(None))
UsersEdit     == ui.open = "edit" /\ Ask(ui, "modify", UsersCall(ui.row.id))
UsersPassword == ui.open = "password" /\ ui.form.v # "" /\ Ask(ui, "password", UsersCall(ui.row.id))
HandleDelete  == ui.open = "delete" /\ ui.typed /\ Ask(ui, "delete", UsersCall(ui.row.id))

\* Promise.all over the selected users; with none of them the refresh follows at
\* once.
UsersBulkCall(id) ==
    [id |-> id, on |-> ui.open = "activate", page |-> ui.page, size |-> ui.size, batch |-> ops]

HandleConfirm ==
    /\ ui.open \in UsersBulk
    /\ IF ui.selected = {}
       THEN Ask([ui EXCEPT !.loading = TRUE], "list", [UsersQuery(ui.page, ui.size, ui.applied) EXCEPT !.then = ui.open])
       ELSE /\ ops < MaxOps /\ ops' = ops + 1
            /\ LET q == SelectSeq(UsersOrder, LAMBDA r : r \in ui.selected)
                   one == Send(net, "bulk", UsersBulkCall(q[1]))
               IN  IF Len(q) = 1 THEN Room(1) /\ net' = one
                   ELSE Room(2) /\ net' = Send(one, "bulk", UsersBulkCall(q[2]))
            /\ UNCHANGED <<screen, ui, db, evs, mixed>>

UsersUser ==
    IF UsersVisible
    THEN UsersClose \/ UsersType \/ HandleCheckUsername \/ UsersAdd \/ UsersEdit \/ UsersPassword \/ HandleDelete \/ HandleConfirm
    ELSE \/ UsersTable
         \/ \E k \in UsersBulk \cup {"add"} : UsersOpen(k)
         \/ \E i \in UsersShown, k \in UsersRowDialogs : UsersOpenRow(i, k)

----------------------------------------------------------------------------
(* What follows the awaits.                                                *)

\* Mutant: the spinner ends with a success only.
UsersListedOk(s) ==
    LET c == net[s].a
        w == IF Ok(s) THEN [ui EXCEPT !.users = net[s].r.users, !.total = net[s].r.total, !.at = c, !.loading = FALSE] ELSE ui
    IN  Resume(s, IF c.then = None THEN w ELSE UsersOpenChange(w, c.then), Rest(s))

\* loadUsers swallows its errors: the handler that awaited it goes on.
UsersListed(s) ==
    LET c == net[s].a
        u == [ui EXCEPT !.loading = FALSE]
        w == IF Ok(s) THEN [u EXCEPT !.users = net[s].r.users, !.total = net[s].r.total, !.at = c] ELSE u
    IN  Resume(s, IF c.then = None THEN w ELSE UsersOpenChange(w, c.then), Rest(s))

UsersNameChecked(s) == Resume(s, [ui EXCEPT !.err = @ \/ (Ok(s) /\ net[s].r)], Rest(s))

UsersExists(s) ==
    IF Ok(s) /\ ~net[s].r
    THEN Resume(s, ui, Send(Rest(s), "create", net[s].a))
    ELSE Resume(s, [ui EXCEPT !.err = @ \/ Ok(s)], Rest(s))

\* A changed role is a second request, after the profile is saved.
UsersModified(s) ==
    IF Ok(s) /\ net[s].a.form.role # net[s].a.was
    THEN Resume(s, ui, Send(Rest(s), "role", net[s].a))
    ELSE IF Ok(s) THEN RefreshUsers(s, "edit") ELSE Resume(s, ui, Rest(s))

\* Mutant: the dialog closes without a refresh.
UsersWrittenUnseen(s, dialog) == Resume(s, IF Ok(s) THEN UsersOpenChange(ui, dialog) ELSE ui, Rest(s))

UsersWritten(s, dialog) == IF Ok(s) THEN RefreshUsers(s, dialog) ELSE Resume(s, ui, Rest(s))

\* The first failure rejects the whole batch; the others are not waited for.
UsersBulked(s) ==
    LET peers == {t \in InFlight({"bulk"}) \ {s} : net[t].a.batch = net[s].a.batch}
        dialog == IF net[s].a.on THEN "activate" ELSE "deactivate"
    IN  CASE Ok(s) /\ peers = {} -> RefreshUsers(s, dialog)
          [] Ok(s) /\ peers # {} -> Resume(s, ui, Rest(s))
          [] OTHER -> Resume(s, ui, [t \in Slots |-> IF t \in peers THEN [net[t] EXCEPT !.k = "late"] ELSE Rest(s)[t]])

UsersResume(s) ==
    \/ net[s].k = "list" /\ UsersListed(s)
    \/ net[s].k = "check" /\ UsersNameChecked(s)
    \/ net[s].k = "exists" /\ UsersExists(s)
    \/ net[s].k = "modify" /\ UsersModified(s)
    \/ net[s].k = "create" /\ UsersWritten(s, "add")
    \/ net[s].k = "role" /\ UsersWritten(s, "edit")
    \/ net[s].k \in {"password", "delete"} /\ UsersWritten(s, net[s].k)
    \/ net[s].k = "bulk" /\ UsersBulked(s)
    \/ net[s].k = "late" /\ Resume(s, ui, Rest(s))
=============================================================================
