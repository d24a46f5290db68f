----------------------------- MODULE FilePages -----------------------------
(***************************************************************************)
(* The object browser (components/local-filesystem-browser over            *)
(* features/filesystem): folders, a selection, dialogs that create,        *)
(* upload, rename and delete, files dropped onto the page, and the path    *)
(* kept in the URL.  An object is <<folder, name>>; the name "" is the     *)
(* empty object that marks a folder.  The keys of the table are <<folder,  *)
(* name>> for a file and <<"/", folder>> for a folder.  Left out: the      *)
(* contents the viewers show, sorting, the filter by name, and the choice  *)
(* of a bucket, which mounts the browser anew.  (Bound: one level of       *)
(* folders.)                                                               *)
(***************************************************************************)
EXTENDS TablePage

Subfolders == {"d", "e"}
FilePaths  == {"/"} \cup Subfolders
FileOrder  == CHOOSE q \in [1..Cardinality(Rows) -> Rows] : \A i, j \in DOMAIN q : q[i] = q[j] => i = j
FilesDb    == [objs |-> {<<"/", FileOrder[1]>>, <<"d", "">>}]

IsFolder(k) == k[2] \in Subfolders

FilesListing(p) ==
    {o \in db.objs : o[1] = p /\ o[2] # ""} \cup
    IF p = "/" THEN {<<"/", f>> : f \in {o[1] : o \in db.objs} \ {"/"}} ELSE {}

\* The objects under a key: a folder is everything with its prefix.
FilesUnder(k) == {o \in db.objs : IF IsFolder(k) THEN o[1] = k[2] ELSE o = k}

\* Every route asks for an administrator.
FilesAccepts(c) == ui.admin

FilesEffect(c) ==
    CASE c.k = "create" -> [db EXCEPT !.objs = @ \cup {<<c.a.name, "">>}]
      [] c.k \in {"upload", "drop"} -> [db EXCEPT !.objs = @ \cup {<<c.a.dir, c.a.q[c.a.i]>>}]
      [] c.k = "delete" -> [db EXCEPT !.objs = @ \ UNION {FilesUnder(k) : k \in c.a.keys}]
      [] c.k = "rename" ->
             LET from == FilesUnder(c.a.key)
                 to   == IF IsFolder(c.a.key) THEN {<<c.a.name, o[2]>> : o \in from} ELSE {<<o[1], c.a.name>> : o \in from}
             IN  [db EXCEPT !.objs = (@ \ from) \cup to]
      [] OTHER -> db

FilesAnswer(c) == IF c.k = "list" THEN FilesListing(c.a.dir) ELSE None

----------------------------------------------------------------------------
(* Listing and navigation.                                                 *)

FilesUi(admin, p) ==
    [admin |-> admin, path |-> p, been |-> {"/", p}, shown |-> {}, of |-> "/", loading |-> TRUE, sel |-> {},
     open |-> {}, ctx |-> None, chosen |-> {}, busy |-> FALSE,
     prog |-> <<>>, refresh |-> FALSE, two |-> FALSE]

\* fetchData(p), awaited (busy) or not by a handler that then lowers
\* dialogLoading.
FilesFetch(p, busy) == [dir |-> p, busy |-> busy]

\* A link to a folder is read from the URL after the root was asked for.
FilesMount(p) ==
    LET root == Send(NoCalls, "list", FilesFetch("/", FALSE))
    IN  IF p = "/" THEN root ELSE Send(root, "list", FilesFetch(p, FALSE))

\* setCurrentPath and the effect on the path.
NavigateTo(p) ==
    /\ p # ui.path
    /\ Ask([ui EXCEPT !.path = p, !.been = @ \cup {p}, !.sel = {}, !.loading = TRUE], "list", FilesFetch(p, FALSE))

\* The browser's back and forward buttons: they work under an open dialog too.
FilesPopState == \E p \in ui.been : NavigateTo(p)

FilesRows == IF ui.loading THEN {} ELSE ui.shown

----------------------------------------------------------------------------
(* The toolbar, the table and its context menu.                            *)

\* At most one dialog is open, and the progress of an upload above it.
FilesTop    == IF "progress" \in ui.open THEN "progress" ELSE CHOOSE d \in ui.open : TRUE
FilesShow(u, d) == [u EXCEPT !.open = @ \cup {d}]
\* What only a dialog reads is forgotten with it.
FilesHide(u, d) ==
    IF d \notin u.open
    THEN u
    ELSE [u EXCEPT !.open = @ \ {d}, !.chosen = IF d = "upload" THEN {} ELSE @,
                   !.ctx = IF d = "progress" THEN @ ELSE None, !.prog = IF d = "progress" THEN <<>> ELSE @]

FilesToggle(k)  == User([ui EXCEPT !.sel = IF k \in @ THEN @ \ {k} ELSE @ \cup {k}])
FilesToggleAll  == User([ui EXCEPT !.sel = IF ui.shown \subseteq @ THEN {} ELSE ui.shown])

\* Downloads one file after the other, and stops at the first failure.
FilesDownload(K) ==
    LET q == SelectSeq(FileOrder, LAMBDA r : \E p \in FilePaths : <<p, r>> \in K)
    IN  q # <<>> /\ Ask(ui, "download", [q |-> q, i |-> 1])

FilesToolbar ==
    \/ ui.admin /\ (User(FilesShow(ui, "upload")) \/ (ui.path = "/" /\ User(FilesShow(ui, "create"))))
    \/ ui.admin /\ ui.sel # {} /\ User(FilesShow(ui, "delete"))
    \/ \E k \in ui.sel \cap ui.shown : ui.sel = {k} /\ ui.admin /\ User(FilesShow([ui EXCEPT !.ctx = k], "rename"))
    \/ FilesDownload(ui.sel)
    \/ ~ui.loading /\ Ask([ui EXCEPT !.loading = TRUE], "list", FilesFetch(ui.path, FALSE))

HandleContextAction(k) ==
    \/ ui.admin /\ User(FilesShow([ui EXCEPT !.ctx = k], "rename"))
    \/ ui.admin /\ User(FilesShow([ui EXCEPT !.ctx = k, !.sel = {k}], "ctxdelete"))
    \/ ~IsFolder(k) /\ FilesDownload({k})

FilesTable ==
    \/ FilesRows # {} /\ FilesToggleAll
    \/ \E k \in FilesRows : FilesToggle(k) \/ HandleContextAction(k) \/ (IsFolder(k) /\ NavigateTo(k[2]))

----------------------------------------------------------------------------
(* The dialogs.  They share one flag, dialogLoading; while it is up their  *)
(* buttons are off, but Escape closes them.                                *)

FilesCall(k, a) == ~ui.busy /\ Ask([ui EXCEPT !.busy = TRUE], k, a)

HandleCreateFolder ==
    FilesTop = "create" /\ ui.path = "/" /\ \E f \in Subfolders : FilesCall("create", [dir |-> ui.path, name |-> f])
HandleRename ==
    /\ FilesTop = "rename"
    /\ \E n \in (IF IsFolder(ui.ctx) THEN Subfolders ELSE Rows) \ {ui.ctx[2]} :
           FilesCall("rename", [key |-> ui.ctx, name |-> n])
FilesDelete == FilesTop \in {"delete", "ctxdelete"} /\ FilesCall("delete", [dir |-> ui.path, keys |-> ui.sel, from |-> FilesTop])

FilesChoose == FilesTop = "upload" /\ \E F \in SUBSET Rows : F # ui.chosen /\ User([ui EXCEPT !.chosen = F])
HandleUpload ==
    /\ FilesTop = "upload" /\ ui.chosen # {} /\ ~ui.busy
    /\ Ask([ui EXCEPT !.busy = TRUE, !.chosen = {}], "upload",
           [dir |-> ui.path, q |-> SelectSeq(FileOrder, LAMBDA r : r \in ui.chosen), i |-> 1])

FilesClose == FilesTop # "progress" /\ User(FilesHide(ui, FilesTop))

FilesDialogs == HandleCreateFolder \/ HandleRename \/ FilesDelete \/ FilesChoose \/ HandleUpload \/ FilesClose

\* Files dropped on the page, or on a dialog of it (the event of a portal
\* bubbles to the page): uploaded one by one.  The zone of the upload dialog
\* takes them too.
HandleDrop ==
    \E q \in {<<FileOrder[1]>>, FileOrder} :
        Ask([FilesShow(ui, "progress") EXCEPT
                 !.prog = [i \in DOMAIN q |-> IF i = 1 THEN "uploading" ELSE "pending"],
                 !.refresh = TRUE, !.two = @ \/ InFlight({"drop"}) # {},
                 !.chosen = IF ui.open = {"upload"} THEN @ \cup {q[i] : i \in DOMAIN q} ELSE @],
            "drop", [dir |-> ui.path, q |-> q, i |-> 1])

FilesAllDone == \A i \in DOMAIN ui.prog : ui.prog[i] \in {"done", "error"}

\* The progress can be closed when every file has its verdict; the listing is
\* refreshed once.
HandleUploadProgressClose ==
    /\ "progress" \in ui.open /\ FilesAllDone
    /\ IF ui.refresh
       THEN Ask([FilesHide(ui, "progress") EXCEPT !.refresh = FALSE, !.loading = TRUE], "list", FilesFetch(ui.path, FALSE))
       ELSE User(FilesHide(ui, "progress"))

FilesUser ==
    \/ FilesPopState
    \/ HandleDrop
    \/ HandleUploadProgressClose
    \/ ui.open # {} /\ FilesDialogs
    \/ ui.open = {} /\ (FilesToolbar \/ FilesTable \/ NavigateTo("/"))

----------------------------------------------------------------------------
(* What follows the awaits.                                                *)

FilesListed(s) ==
    LET c == net[s].a
        u == [ui EXCEPT !.loading = FALSE, !.busy = @ /\ ~c.busy]
    IN  Resume(s, IF Ok(s) THEN [u EXCEPT !.shown = net[s].r, !.of = c.dir] ELSE [u EXCEPT !.shown = {}, !.of = c.dir], Rest(s))

\* A handler's dialog closes and the folder p is listed; a failure leaves the
\* dialog open.
FilesDone(s, d, p) ==
    IF Ok(s)
    THEN LET u == FilesHide(ui, d)
         IN  Resume(s, [u EXCEPT !.loading = TRUE, !.sel = IF net[s].k = "delete" THEN {} ELSE @],
                    Send(Rest(s), "list", FilesFetch(p, TRUE)))
    ELSE Resume(s, [ui EXCEPT !.busy = FALSE], Rest(s))

FilesMore(s) == net[s].a.i < Len(net[s].a.q)
FilesNext(s) == Send(Rest(s), net[s].k, [net[s].a EXCEPT !.i = @ + 1])

FilesUploaded(s) ==
    IF Ok(s) /\ FilesMore(s) THEN Resume(s, ui, FilesNext(s)) ELSE FilesDone(s, "upload", net[s].a.dir)

\* A status is written at the position the file has in its own batch.
FilesMark(P, i, st) == IF i \in DOMAIN P THEN [P EXCEPT ![i] = st] ELSE P

FilesDropped(s) ==
    LET i == net[s].a.i
        P == FilesMark(ui.prog, i, IF Ok(s) THEN "done" ELSE "error")
    IN  IF FilesMore(s)
        THEN Resume(s, [ui EXCEPT !.prog = FilesMark(P, i + 1, "uploading")], FilesNext(s))
        ELSE Resume(s, [ui EXCEPT !.prog = P], Rest(s))

FilesResume(s) ==
    \/ net[s].k = "list" /\ FilesListed(s)
    \/ net[s].k = "create" /\ FilesDone(s, "create", net[s].a.dir)
    \/ net[s].k = "rename" /\ FilesDone(s, "rename", ui.path)
    \/ net[s].k = "delete" /\ FilesDone(s, net[s].a.from, IF net[s].a.from = "delete" THEN net[s].a.dir ELSE ui.path)
    \/ net[s].k = "upload" /\ FilesUploaded(s)
    \/ net[s].k = "drop" /\ FilesDropped(s)
    \/ net[s].k = "download" /\ Resume(s, ui, IF Ok(s) /\ FilesMore(s) THEN FilesNext(s) ELSE Rest(s))
=============================================================================
