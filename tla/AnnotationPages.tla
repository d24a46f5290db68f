--------------------------- MODULE AnnotationPages ---------------------------
(***************************************************************************)
(* The annotation explorer (features/annotations/components/explorer), the *)
(* labelling workspace with the editor it mounts per image                 *)
(* (labeling-workspace.tsx, annotation-editor.tsx) and the editor's canvas.*)
(***************************************************************************)
EXTENDS TablePage

----------------------------------------------------------------------------
(* The explorer: a tree of folders and the images of one of them, loaded   *)
(* page by page.  of is the folder asked for last and from the folder the  *)
(* images on display came from; rid numbers the loads.  cur is kept in the *)
(* URL, back is the entry before it (bound: one entry of history).         *)

Folders  == {"", "a"}   \* the root, and a folder below it
MaxFiles2 == 2          \* bound: files of one upload or conversion

ExplorerUi ==
    [cur |-> "", back |-> None, kids |-> [f \in Folders |-> None], of |-> "", from |-> None, items |-> {},
     total |-> 0, rid |-> 1, loading |-> TRUE, more |-> FALSE, busy |-> "no", cancel |-> FALSE,
     ids |-> {}, confirm |-> None, dlg |-> "no"]
ExplorerDb == [folders |-> {""}, imgs |-> NoRows]

ExplorerImages(f) == {r \in Rows : db.imgs[r] = f}
ExplorerPage(f, n) ==
    LET all   == ExplorerImages(f)
        first == IF Cardinality(all) < 2 THEN all ELSE {CHOOSE r \in all : TRUE}
    IN  IF n = 1 THEN first ELSE all \ first

ExplorerAccepts(c) ==
    /\ c.k \in {"upload", "convert", "aborted"} => ~Full(db.imgs) /\ c.a.folder \in db.folders
    /\ c.k = "remove" => db.imgs[CHOOSE r \in c.a.ids : TRUE] # None
ExplorerEffect(c) ==
    CASE c.k \in {"upload", "convert", "aborted"} -> [db EXCEPT !.imgs[Fresh(db.imgs)] = c.a.folder]
      [] c.k = "mkdir"  -> [db EXCEPT !.folders = @ \cup {"a"}]
      [] c.k = "rmdir"  -> [folders |-> {""}, imgs |-> [r \in Rows |-> IF db.imgs[r] = "a" THEN None ELSE db.imgs[r]]]
      [] c.k = "remove" -> [db EXCEPT !.imgs = Drop(@, CHOOSE r \in c.a.ids : TRUE)]
      [] OTHER -> db
ExplorerAnswer(c) ==
    CASE c.k = "images" -> [items |-> ExplorerPage(c.a.folder, c.a.page), total |-> Cardinality(ExplorerImages(c.a.folder))]
      [] c.k = "kids"   -> IF c.a.folder = "" THEN db.folders \ {""} ELSE {}
      [] OTHER -> None

\* loadImages: the selection is dropped and the first page of f is loaded.  fin
\* says which operation awaits the answer.
ExplorerReload(u, f) == [u EXCEPT !.ids = {}, !.of = f, !.rid = @ + 1, !.loading = TRUE]
ExplorerImagesOf(m, u, fin) == Send(m, "images", [folder |-> u.of, page |-> 1, rid |-> u.rid, fin |-> fin])
ExplorerKidsOf(m, f, fin)   == Send(m, "kids", [folder |-> f, fin |-> fin])

\* selectFolder: sets the folder (and pushes it to the URL) and loads it.
ExplorerSelected(u, f) ==
    ExplorerReload([u EXCEPT !.cur = f, !.back = IF f = u.cur THEN @ ELSE u.cur], f)
ExplorerOpened(m, u, f) ==
    LET n == ExplorerImagesOf(m, u, "no")
    IN  IF u.kids[f] = None THEN ExplorerKidsOf(n, f, "no") ELSE n
ExplorerSelect(f) ==
    /\ ops < MaxOps /\ ops' = ops + 1 /\ Room(2)
    /\ ui' = ExplorerSelected(ui, f)
    /\ net' = ExplorerOpened(net, ui', f)
    /\ UNCHANGED <<screen, db, evs, mixed>>
ExplorerExpand(f) == ui.kids[f] = None /\ Ask(ui, "kids", [folder |-> f, fin |-> "no"])

\* The browser's back button: the URL, and with it the folder, is the old one.
ExplorerBack == ui.back # None /\ User([ui EXCEPT !.cur = ui.back, !.back = None])

ExplorerLoadMore ==
    /\ ~ui.loading /\ ~ui.more /\ Cardinality(ui.items) < ui.total
    /\ Ask([ui EXCEPT !.more = TRUE], "images", [folder |-> ui.of, page |-> 2, rid |-> ui.rid, fin |-> "no"])

ExplorerTransfer(k, n) ==
    ui.busy = "no" /\ Ask([ui EXCEPT !.busy = k], k, [folder |-> ui.cur, left |-> n])

\* cancelConvert: the request is aborted; the server may still act on it.
ExplorerCancel(s) ==
    /\ ui.busy = "convert" /\ ~ui.cancel
    /\ Busy(s) /\ net[s].k = "convert"
    /\ IF net[s].st = "sent"
       THEN /\ Room(2)
            /\ LET u == ExplorerReload([ui EXCEPT !.cancel = TRUE], net[s].a.folder)
               IN  Fire(u, ExplorerKidsOf(ExplorerImagesOf([net EXCEPT ![s].k = "aborted"], u, "convert"), u.of, "convert"))
       ELSE User([ui EXCEPT !.cancel = TRUE])

ExplorerNewFolder == ui.dlg = "no" /\ ui.cur = "" /\ User([ui EXCEPT !.dlg = "name"])
ExplorerCloseFolder == ui.dlg # "no" /\ User([ui EXCEPT !.dlg = "no"])
ExplorerSubmitFolder ==
    ui.dlg = "name" /\ InFlight({"mkdir"}) = {} /\ Ask([ui EXCEPT !.dlg = "creating"], "mkdir", [folder |-> ui.cur])

ExplorerToggle(r)  == User([ui EXCEPT !.ids = IF r \in @ THEN @ \ {r} ELSE @ \cup {r}])
ExplorerAskDelete(what) == User([ui EXCEPT !.confirm = what])
ExplorerCloseConfirm == ui.confirm # None /\ User([ui EXCEPT !.confirm = None])
ExplorerDeleteImages ==
    /\ ui.confirm = "images" /\ ui.ids # {}
    /\ Ask([ui EXCEPT !.busy = "remove", !.confirm = "busy"], "remove", [ids |-> ui.ids, done |-> FALSE, folder |-> ui.cur])
ExplorerDeleteFolder ==
    ui.confirm = "folder" /\ ui.cur # "" /\ Ask([ui EXCEPT !.confirm = "busy"], "rmdir", [folder |-> ui.cur])

ExplorerUser ==
    \/ /\ ui.confirm = None /\ ui.dlg = "no"
       /\ \/ \E f \in {""} \cup (IF ui.kids[""] = None THEN {} ELSE ui.kids[""]) : ExplorerSelect(f) \/ ExplorerExpand(f)
          \/ ExplorerBack \/ ExplorerLoadMore \/ ExplorerNewFolder
          \/ \E k \in {"upload", "convert"}, n \in 1..MaxFiles2 : ExplorerTransfer(k, n)
          \/ \E s \in Slots : ExplorerCancel(s)
          \/ \E r \in ui.items : ExplorerToggle(r)
          \/ ui.ids # {} /\ ui.busy = "no" /\ ExplorerAskDelete("images")
          \/ ui.cur # "" /\ ExplorerAskDelete("folder")
    \/ ExplorerCloseFolder \/ ExplorerSubmitFolder
    \/ ExplorerCloseConfirm \/ ExplorerDeleteImages \/ ExplorerDeleteFolder

\* The operation named fin ends when the last request it awaits has settled.
ExplorerEnds(u, s) ==
    LET fin    == net[s].a.fin
        others == {t \in InFlight({"images", "kids"}) \ {s} : net[t].a.fin = fin}
    IN  IF fin = "no" \/ others # {} THEN u
        ELSE CASE fin = "remove" -> [u EXCEPT !.busy = "no", !.confirm = IF @ = "busy" THEN None ELSE @]
               [] fin = "mkdir"  -> [u EXCEPT !.dlg = "no"]
               [] OTHER -> [u EXCEPT !.busy = "no", !.cancel = FALSE]

\* reload and loadMore ignore the answer of an earlier load.
ExplorerCurrent(s) == net[s].a.rid = ui.rid
ExplorerLoaded(s) ==
    LET c == net[s].a
        u == IF ~ExplorerCurrent(s) THEN ui
             ELSE IF c.page = 1 THEN [ui EXCEPT !.loading = FALSE] ELSE [ui EXCEPT !.more = FALSE]
        v == IF ~Ok(s) \/ ~ExplorerCurrent(s) THEN u
             ELSE [u EXCEPT !.items = IF c.page = 1 THEN net[s].r.items ELSE @ \cup net[s].r.items,
                            !.total = net[s].r.total, !.from = c.folder]
    IN  Resume(s, ExplorerEnds(v, s), Rest(s))

ExplorerKids(s) ==
    LET u == IF Ok(s) THEN [ui EXCEPT !.kids[net[s].a.folder] = net[s].r] ELSE ui
        v == ExplorerSelected(u, "")
    IN  IF net[s].a.fin = "rmdir"
        THEN /\ u.kids[""] # None \/ Room(1)
             /\ Resume(s, [v EXCEPT !.confirm = IF @ = "busy" THEN None ELSE @], ExplorerOpened(Rest(s), v, ""))
        ELSE Resume(s, ExplorerEnds(u, s), Rest(s))

\* Files go one by one.  A failed upload ends the batch and shows nothing new; a
\* failed conversion is counted.
ExplorerTransferred(s) ==
    LET k == net[s].k
        c == net[s].a
        u == ExplorerReload(ui, c.folder)
    IN  IF k = "upload" /\ ~Ok(s) THEN Resume(s, [ui EXCEPT !.busy = "no"], Rest(s))
        ELSE IF c.left > 1 /\ ~ui.cancel THEN Resume(s, ui, Send(Rest(s), k, [c EXCEPT !.left = @ - 1]))
        ELSE Room(1) /\ Resume(s, u, ExplorerKidsOf(ExplorerImagesOf(Rest(s), u, k), c.folder, k))

ExplorerMade(s) ==
    IF Ok(s) THEN Resume(s, ui, ExplorerKidsOf(Rest(s), net[s].a.folder, "mkdir"))
    ELSE Resume(s, [ui EXCEPT !.dlg = IF @ = "creating" THEN "name" ELSE @], Rest(s))

ExplorerRemoved(s) ==
    LET c    == net[s].a
        todo == c.ids \ {CHOOSE r \in c.ids : TRUE}
        done == c.done \/ Ok(s)
        u    == ExplorerReload([ui EXCEPT !.ids = {}], c.folder)
    IN  CASE todo # {} -> Resume(s, ui, Send(Rest(s), "remove", [c EXCEPT !.ids = todo, !.done = done]))
          [] todo = {} /\ done -> Resume(s, u, ExplorerImagesOf(Rest(s), u, "remove"))
          [] OTHER -> Resume(s, [ui EXCEPT !.ids = {}, !.busy = "no", !.confirm = IF @ = "busy" THEN None ELSE @], Rest(s))

ExplorerFolderGone(s) ==
    IF Ok(s) THEN Resume(s, ui, ExplorerKidsOf(Rest(s), "", "rmdir"))
    ELSE Resume(s, [ui EXCEPT !.confirm = IF @ = "busy" THEN None ELSE @], Rest(s))

ExplorerResume(s) ==
    \/ net[s].k = "images" /\ ExplorerLoaded(s)
    \/ net[s].k = "kids" /\ ExplorerKids(s)
    \/ net[s].k \in {"upload", "convert"} /\ ExplorerTransferred(s)
    \/ net[s].k = "aborted" /\ Resume(s, ui, Rest(s))
    \/ net[s].k = "mkdir" /\ ExplorerMade(s)
    \/ net[s].k = "remove" /\ ExplorerRemoved(s)
    \/ net[s].k = "rmdir" /\ ExplorerFolderGone(s)

----------------------------------------------------------------------------
(* The workspace: a list of images and the editor of the selected one.  A  *)
(* box is [seq, v]: the number the code knows it by, and its text.  meta   *)
(* is the metadata (1: the capture date is stamped).  bt and mt say that   *)
(* the autosave timer of the boxes or of the metadata runs; drawn is what  *)
(* the user last made of each image's boxes.  The label of an image is     *)
(* written by the server when it is completed.                             *)

MaxSeq == 3         \* bound: box numbers
Box(seq, v) == [seq |-> seq, v |-> v]

EditorUi(img) ==
    [img |-> img, loading |-> TRUE, boxes |-> {}, meta |-> 0, status |-> "none", bt |-> FALSE, mt |-> FALSE,
     saving |-> FALSE, sel |-> None, edit |-> FALSE, detecting |-> FALSE, cands |-> {}, splitting |-> FALSE]
LabelingDb ==
    [imgs |-> [r \in Rows |-> [boxes |-> IF r = Fresh(NoRows) THEN {Box(1, 0), Box(2, 1)} ELSE {},
                               meta |-> 0, status |-> "draft", label |-> None]]]

LabelingUi == [ed |-> None, rows |-> {}, loading |-> TRUE, drawn |-> [r \in Rows |-> LabelingDb.imgs[r].boxes]]

LabelingEffect(c) ==
    CASE c.k = "boxes"  -> [db EXCEPT !.imgs[c.a.img].boxes = c.a.val]
      [] c.k = "meta"   -> [db EXCEPT !.imgs[c.a.img].meta = c.a.val]
      [] c.k = "status" -> [db EXCEPT !.imgs[c.a.img].status = c.a.val,
                                      !.imgs[c.a.img].label = IF c.a.val = "completed" THEN db.imgs[c.a.img].boxes ELSE @]
      [] OTHER -> db
LabelingAnswer(c) ==
    CASE c.k = "list"   -> Rows
      [] c.k \in {"load", "boxes"} -> [db.imgs[c.a.img] EXCEPT !.boxes = IF c.k = "boxes" THEN c.a.val ELSE @]
      [] c.k = "status" -> c.a.val
      [] c.k = "detect" -> {0}
      [] OTHER -> None

\* Requests of the editor of image img.  then says what a flush goes on with;
\* gone that the editor that sent it was unmounted, with metadata meta.
EditorCall(img, val, then) == [img |-> img, val |-> val, then |-> then, gone |-> FALSE, meta |-> 0]
EditorLoad(m, img) == Send(m, "load", EditorCall(img, None, "no"))

Ed == ui.ed
EditorReady == Ed # None /\ ~Ed.loading /\ Ed.status # "none"

\* The editor is keyed by the image: choosing another mounts a new one and ends
\* the old one, whose timers are cleared and whose requests go on.
Unmounted(m) ==
    [s \in Slots |-> IF m[s] = NoCall \/ m[s].k = "list" THEN m[s]
                     ELSE [m[s] EXCEPT !.a.gone = TRUE, !.a.meta = Ed.meta]]
LabelingSelect(r) ==
    /\ Ed # None /\ r # Ed.img /\ r \in ui.rows
    /\ ops < MaxOps /\ ops' = ops + 1 /\ Room(1)
    /\ ui' = [ui EXCEPT !.ed = EditorUi(r)]
    /\ net' = EditorLoad(Unmounted(net), r)
    /\ UNCHANGED <<screen, db, evs, mixed>>

\* mutateBoxes: the boxes change and their save is scheduled.
EditorSet(e)   == User([ui EXCEPT !.ed = e])
\* (Every such edit sets off a request and counts towards MaxOps.)
EditorDrawn(e) ==
    /\ ops < MaxOps /\ ops' = ops + 1
    /\ ui' = [ui EXCEPT !.ed = [e EXCEPT !.bt = TRUE], !.drawn[Ed.img] = e.boxes]
    /\ UNCHANGED <<screen, db, net, evs, mixed>>
EditorStamp(e) == IF e.meta = 1 THEN e ELSE [e EXCEPT !.meta = 1, !.mt = TRUE]

\* Mutant: the number of boxes instead of the largest number.
CountedSeq(B) == Cardinality(B) + 1

NextSeq(B) == IF B = {} THEN 1 ELSE 1 + CHOOSE n \in {b.seq : b \in B} : \A b \in B : b.seq <= n

EditorNew(v) ==
    /\ NextSeq(Ed.boxes) <= MaxSeq
    /\ EditorDrawn(EditorStamp([Ed EXCEPT !.boxes = @ \cup {Box(NextSeq(@), v)},
                                          !.sel = IF v = 0 THEN NextSeq(Ed.boxes) ELSE @,
                                          !.cands = IF v = 0 THEN @ ELSE {}]))
EditorDraw   == EditorNew(0)
EditorAccept == Ed.cands # {} /\ EditorNew(1)
EditorReject == Ed.cands # {} /\ EditorSet([Ed EXCEPT !.cands = {}])

EditorTexted(q, v) == {IF b.seq = q THEN [b EXCEPT !.v = v] ELSE b : b \in Ed.boxes}
EditorText(q)  == EditorDrawn([Ed EXCEPT !.boxes = EditorTexted(q, 1)])
EditorBegin(q) == EditorSet([Ed EXCEPT !.sel = q, !.edit = TRUE])
EditorCommit   == Ed.edit /\ EditorDrawn([Ed EXCEPT !.boxes = EditorTexted(Ed.sel, 1), !.edit = FALSE])
EditorCancel   == Ed.edit /\ EditorSet([Ed EXCEPT !.edit = FALSE])
EditorSelect(q) == EditorSet([Ed EXCEPT !.sel = q])

EditorDelete(q) ==
    EditorDrawn([Ed EXCEPT !.boxes = {b \in @ : b.seq # q}, !.sel = IF @ = q THEN None ELSE @])
\* The Delete key acts on the selected number.
EditorKey == Ed.sel # None /\ EditorDelete(Ed.sel)

Renumbered(B) == {[b EXCEPT !.seq = Cardinality({c \in B : c.seq <= b.seq})] : b \in B}
EditorRenumber == Ed.boxes # {} /\ EditorDrawn([Ed EXCEPT !.boxes = Renumbered(@)])

EditorImport ==
    EditorDrawn([Ed EXCEPT !.boxes = {Box(1, 1)}, !.meta = 0, !.sel = None, !.mt = TRUE])

EditorDetect ==
    ~Ed.detecting /\ Ed.cands = {} /\ Ask([ui EXCEPT !.ed.detecting = TRUE], "detect", EditorCall(Ed.img, None, "no"))

\* flushSaves: the timers are stopped, then boxes and metadata are saved.
EditorFlush(e, then) ==
    Ask([ui EXCEPT !.ed = [e EXCEPT !.bt = FALSE, !.mt = FALSE]], "boxes", EditorCall(Ed.img, Ed.boxes, then))
EditorSave     == ~Ed.saving /\ EditorFlush([Ed EXCEPT !.saving = TRUE], "save")
EditorSplit    == Ed.boxes # {} /\ ~Ed.splitting /\ EditorFlush([Ed EXCEPT !.splitting = TRUE], "split")
EditorJson     == EditorFlush(Ed, "json")
EditorStatus(st) ==
    IF st = "completed" THEN EditorFlush(Ed, "completed")
    ELSE Ask(ui, "status", EditorCall(Ed.img, st, "no"))

LabelingUser ==
    \/ \E r \in Rows : LabelingSelect(r)
    \/ /\ EditorReady
       /\ \/ EditorCommit \/ EditorCancel
          \/ /\ ~Ed.edit
             /\ \/ EditorDraw \/ EditorAccept \/ EditorReject \/ EditorKey
                \/ \E q \in {b.seq : b \in Ed.boxes} :
                      EditorText(q) \/ EditorBegin(q) \/ EditorSelect(q) \/ EditorDelete(q)
                \/ EditorRenumber \/ EditorImport \/ EditorDetect \/ EditorSave \/ EditorSplit \/ EditorJson
                \/ \E st \in {"draft", "completed"} \ {Ed.status} : EditorStatus(st)

\* The autosave timers.
EditorTimer ==
    /\ Ed # None
    /\ \/ Ed.bt /\ Tick([ui EXCEPT !.ed.bt = FALSE, !.ed.saving = TRUE], "boxes", EditorCall(Ed.img, Ed.boxes, "no"))
       \/ Ed.mt /\ Tick([ui EXCEPT !.ed.mt = FALSE, !.ed.saving = TRUE], "meta", EditorCall(Ed.img, Ed.meta, "no"))

\* The first image of the list is selected, unless one already is.
LabelingListed(s) ==
    LET u == [ui EXCEPT !.loading = FALSE, !.rows = Got(s, @)]
        r == Fresh(NoRows)
    IN  IF Ok(s) /\ Ed = None THEN Resume(s, [u EXCEPT !.ed = EditorUi(r)], EditorLoad(Rest(s), r))
        ELSE Resume(s, u, Rest(s))

\* A continuation of an editor that is gone sets no state any more.
EditorSets(s, e) == IF net[s].a.gone THEN ui ELSE [ui EXCEPT !.ed = e]
EditorDone(e, then) ==
    CASE then = "split" -> [e EXCEPT !.splitting = FALSE]
      [] then \in {"json", "completed"} -> e
      [] OTHER -> [e EXCEPT !.saving = FALSE]

EditorLoaded(s) ==
    LET e == [Ed EXCEPT !.loading = FALSE]
        d == net[s].r
    IN  Resume(s, EditorSets(s, IF Ok(s) THEN [e EXCEPT !.boxes = d.boxes, !.meta = d.meta, !.status = d.status] ELSE e), Rest(s))

\* An autosave ends; a flush goes on with the metadata as they are now.
EditorBoxesSaved(s) ==
    LET c == net[s].a
        m == IF c.gone THEN c.meta ELSE Ed.meta
    IN  IF c.then = "no"
        THEN Resume(s, EditorSets(s, IF Ok(s) THEN [Ed EXCEPT !.saving = FALSE, !.status = net[s].r.status]
                                     ELSE [Ed EXCEPT !.saving = FALSE]), Rest(s))
        ELSE IF ~Ok(s) THEN Resume(s, EditorSets(s, EditorDone(Ed, c.then)), Rest(s))
        ELSE Resume(s, ui, Send(Rest(s), "meta", [c EXCEPT !.val = m]))

EditorMetaSaved(s) ==
    LET c == net[s].a
        n == CASE c.then = "completed" -> "status" [] c.then = "split" -> "crops" [] c.then = "json" -> "export" [] OTHER -> "no"
    IN  IF ~Ok(s) \/ n = "no"
        THEN Resume(s, EditorSets(s, EditorDone(Ed, c.then)), Rest(s))
        ELSE Resume(s, ui, Send(Rest(s), n, [c EXCEPT !.val = IF n = "status" THEN "completed" ELSE None]))

EditorStatusSet(s) ==
    Resume(s, EditorSets(s, IF Ok(s) THEN [Ed EXCEPT !.status = net[s].r] ELSE Ed), Rest(s))
EditorExported(s) == Resume(s, EditorSets(s, EditorDone(Ed, net[s].a.then)), Rest(s))
EditorDetected(s) ==
    Resume(s, EditorSets(s, [Ed EXCEPT !.detecting = FALSE, !.cands = Got(s, @)]), Rest(s))

LabelingResume(s) ==
    \/ net[s].k = "list" /\ LabelingListed(s)
    \/ net[s].k = "load" /\ EditorLoaded(s)
    \/ net[s].k = "boxes" /\ EditorBoxesSaved(s)
    \/ net[s].k = "meta" /\ EditorMetaSaved(s)
    \/ net[s].k = "status" /\ EditorStatusSet(s)
    \/ net[s].k \in {"crops", "export"} /\ EditorExported(s)
    \/ net[s].k = "detect" /\ EditorDetected(s)

----------------------------------------------------------------------------
(* The canvas, along one axis (the code treats both alike): a box covers   *)
(* x1..x2 of an image of width CanvasW.  Pointer positions may lie outside *)
(* the image.  drag is None or [mode, at, o]: where the drag began and the *)
(* box it began with.                                                      *)

CanvasW == 7        \* bound: width of the image, in units of MinBox / 2
MinBox  == 2        \* MIN_BOX
Pointers == 0..(CanvasW + 2)    \* 1 is the left edge of the image

Least(a, b) == IF a <= b THEN a ELSE b
Most(a, b)  == IF a >= b THEN a ELSE b
ToImg(p) == Least(IF p = 0 THEN 0 ELSE p - 1, CanvasW)

CanvasUi == [box |-> None, draft |-> None, drag |-> None]
Span(a, b) == [x1 |-> a, x2 |-> b]

CanvasStageDown(p) ==
    /\ ui.drag = None
    /\ User([ui EXCEPT !.drag = [mode |-> "create", at |-> ToImg(p), o |-> None], !.draft = Span(ToImg(p), ToImg(p))])
CanvasBoxDown(p, mode) ==
    /\ ui.drag = None /\ ui.box # None /\ ToImg(p) \in ui.box.x1..ui.box.x2
    /\ User([ui EXCEPT !.drag = [mode |-> mode, at |-> ToImg(p), o |-> ui.box]])

\* Mutant: only the left edge is clamped.
UnclampedShift(o, to, at) == LET x == Most(o.x1 + to, at) - at IN Span(x, x + o.x2 - o.x1)

\* max(0, min(o.x1 + dx, w - bw)), with the box as wide as before.
Shifted(o, to, at) ==
    LET bw == o.x2 - o.x1
        x  == Least(Most(o.x1 + to, at) - at, CanvasW - bw)
    IN  Span(x, x + bw)
\* max(o.x1 + MIN_BOX, min(o.x2 + dx, w))
Resized(o, to, at) == Span(o.x1, Most(o.x1 + MinBox, Least(Most(o.x2 + to, at) - at, CanvasW)))

CanvasMove(p) ==
    /\ ui.drag # None
    /\ LET d == ui.drag
       IN  User(CASE d.mode = "create" -> [ui EXCEPT !.draft = Span(d.at, ToImg(p))]
                  [] d.mode = "move"   -> [ui EXCEPT !.box = Shifted(d.o, ToImg(p), d.at)]
                  [] OTHER             -> [ui EXCEPT !.box = Resized(d.o, ToImg(p), d.at)])

\* A draft becomes a box if it is large enough along both axes.
CanvasUp ==
    /\ ui.drag # None
    /\ LET x1 == Least(ui.draft.x1, ui.draft.x2)
           x2 == Most(ui.draft.x1, ui.draft.x2)
           u  == [ui EXCEPT !.drag = None, !.draft = None]
       IN  IF ui.drag.mode = "create"
           THEN \/ User(u)
                \/ x2 - x1 >= MinBox /\ User([u EXCEPT !.box = Span(x1, x2)])
           ELSE User(u)

\* The arrow keys, also during a drag; the step is longer with Shift.
CanvasKey(step, right) ==
    /\ ui.box # None
    /\ User([ui EXCEPT !.box = IF right THEN Shifted(@, step, 0) ELSE Shifted(@, 0, step)])

CanvasUser ==
    \/ \E p \in Pointers : \/ CanvasStageDown(p) \/ CanvasMove(p)
                           \/ \E mode \in {"move", "resize"} : CanvasBoxDown(p, mode)
    \/ CanvasUp
    \/ \E step \in {1, 3}, right \in BOOLEAN : CanvasKey(step, right)
=============================================================================
