-------------------------- MODULE CollectionPages --------------------------
(***************************************************************************)
(* The knowledge base pages: the list of collections with its creation     *)
(* form, one collection with its documents, the configuration form, the    *)
(* ingestion pipeline builder, the document viewers and the search panel   *)
(* (app/dashboard/collections, features/{collections,documents,search}).   *)
(***************************************************************************)
EXTENDS TablePage

----------------------------------------------------------------------------
(* The creation form.  An embedding server is picked by its url and has to *)
(* be tested; the test also loads the server's models, selects the first   *)
(* and measures its dimension.  A model is named by where it is served; a  *)
(* dimension by the model it was measured for.  ui.at is a history         *)
(* variable: the url of the last test that succeeded.                      *)

Urls     == {"u1", "u2"}
Model(u, n)  == [at |-> u, n |-> n]
DefaultModel == Model("default", 1)
LocalModel   == Model("local", 1)
ServerModels(u) == {Model(u, 1), Model(u, 2)}

NewForm ==
    [v |-> "", provider |-> "openai", url |-> None, tested |-> FALSE, models |-> {},
     model |-> DefaultModel, dim |-> DefaultModel, rerank |-> "none", rerankers |-> None]

CollectionsUi(admin) ==
    [admin |-> admin, rows |-> NoRows, page |-> 1, loading |-> TRUE, open |-> FALSE, form |-> NewForm,
     submitting |-> FALSE, testing |-> FALSE, listing |-> FALSE, probing |-> FALSE, at |-> None]
CollectionsDb == [rows |-> OneRow(TRUE)]

CollectionsAccepts(c) == c.k = "create" => ~Full(db.rows)
CollectionsEffect(c)  == IF c.k = "create" THEN [db EXCEPT !.rows[Fresh(db.rows)] = TRUE] ELSE db
CollectionsAnswer(c)  ==
    CASE c.k = "list"   -> db.rows
      [] c.k = "models" -> ServerModels(c.a.url)
      [] OTHER -> None

CollectionsOpen  == ui.admin /\ ~ui.open /\ User([ui EXCEPT !.open = TRUE])
CollectionsClose == ui.open /\ User([ui EXCEPT !.open = FALSE])
CollectionsPage(p) == ~ui.open /\ Ask([ui EXCEPT !.page = p, !.loading = TRUE], "list", p)

OnServerUrlChange(u) ==
    User([ui EXCEPT !.form.url = u, !.form.tested = FALSE, !.form.models = {}, !.form.model = None, !.form.dim = None])

\* A request started from the form carries the url or the model of the render
\* it was started in, and whether testServer goes on after it.
TestServer ==
    /\ ui.form.url # None /\ ~ui.form.tested /\ ~ui.testing
    /\ Ask([ui EXCEPT !.testing = TRUE], "check", [url |-> ui.form.url])

LoadServerModels ==
    /\ ui.form.tested /\ ~ui.listing /\ ui.form.url # None
    /\ Ask([ui EXCEPT !.listing = TRUE], "models", [url |-> ui.form.url, test |-> FALSE])

DetectDim ==
    /\ ui.form.tested /\ ~ui.probing /\ ui.form.url # None /\ ui.form.model # None
    /\ Ask([ui EXCEPT !.probing = TRUE], "probe", [model |-> ui.form.model, test |-> FALSE])

PickModel(m) ==
    User([ui EXCEPT !.form.model = m, !.form.dim = IF ui.form.provider = "local" THEN m ELSE None])

ChooseProvider(p) ==
    LET u == [ui EXCEPT !.form.provider = p]
    IN  IF p = "local" THEN Ask(u, "locals", None) ELSE User(u)

OnRerankerChange(k) ==
    LET u == [ui EXCEPT !.form.rerank = k, !.form.rerankers = None]
    IN  IF k = "none" THEN User(u) ELSE Ask(u, "rerankers", k)

\* The early returns of handleCreate.  v is "" without a name and "wide" when
\* the overlap is not smaller than the chunk.
CreateReady(f) ==
    /\ f.v \notin {"", "wide"}
    /\ f.provider = "openai" => f.url # None /\ f.dim # None
    /\ f.provider # "hash" => f.model # None

CollectionsCreate ==
    /\ CreateReady(ui.form) /\ ~ui.submitting
    /\ Ask([ui EXCEPT !.submitting = TRUE], "create", [page |-> ui.page])

CollectionsUser ==
    \/ CollectionsOpen \/ CollectionsClose
    \/ \E p \in {1, 2} \ {ui.page} : CollectionsPage(p)
    \/ /\ ui.open
       /\ \/ \E u \in Urls : ui.form.provider = "openai" /\ OnServerUrlChange(u)
          \/ ui.form.provider = "openai" /\ (TestServer \/ LoadServerModels \/ DetectDim)
          \/ \E m \in ui.form.models : ui.form.provider = "openai" /\ PickModel(m)
          \/ \E p \in {"openai", "local", "hash"} \ {ui.form.provider} : ChooseProvider(p)
          \/ \E k \in {"none", "local", "cross"} \ {ui.form.rerank} : OnRerankerChange(k)
          \/ \E v \in {"y", "wide"} : User([ui EXCEPT !.form.v = v])
          \/ CollectionsCreate

ServerTested(s) ==
    IF Ok(s)
    THEN Resume(s, [ui EXCEPT !.form.tested = TRUE, !.at = net[s].a.url, !.listing = TRUE],
                Send(Rest(s), "models", [url |-> net[s].a.url, test |-> TRUE]))
    ELSE Resume(s, [ui EXCEPT !.testing = FALSE], Rest(s))

ModelsLoaded(s) ==
    LET u == [ui EXCEPT !.listing = FALSE, !.form.models = Got(s, @)]
        first == Model(net[s].a.url, 1)
    IN  IF ~net[s].a.test
        THEN Resume(s, u, Rest(s))
        ELSE IF Ok(s)
             THEN Resume(s, [u EXCEPT !.form.model = first], Send(Rest(s), "probe", [model |-> first, test |-> TRUE]))
             ELSE Resume(s, [u EXCEPT !.testing = FALSE], Rest(s))

DimDetected(s) ==
    LET u == [ui EXCEPT !.form.dim = IF Ok(s) THEN net[s].a.model ELSE @]
    IN  Resume(s, IF net[s].a.test THEN [u EXCEPT !.testing = FALSE] ELSE [u EXCEPT !.probing = FALSE], Rest(s))

\* The effect of choosing the local provider: it keeps a local model.
LocalsLoaded(s) ==
    Resume(s, IF Ok(s) /\ ui.form.model # LocalModel
              THEN [ui EXCEPT !.form.model = LocalModel, !.form.dim = LocalModel]
              ELSE ui, Rest(s))

RerankersLoaded(s) == Resume(s, [ui EXCEPT !.form.rerankers = IF Ok(s) THEN net[s].a ELSE None], Rest(s))

CollectionsListed(s) == Listed(s)

CollectionsCreated(s) ==
    LET u == [ui EXCEPT !.submitting = FALSE]
    IN  IF Ok(s)
        THEN Resume(s, [u EXCEPT !.open = FALSE, !.form = NewForm, !.loading = TRUE],
                    Send(Rest(s), "list", net[s].a.page))
        ELSE Resume(s, u, Rest(s))

CollectionsResume(s) ==
    \/ net[s].k = "list" /\ CollectionsListed(s)
    \/ net[s].k = "check" /\ ServerTested(s)
    \/ net[s].k = "models" /\ ModelsLoaded(s)
    \/ net[s].k = "probe" /\ DimDetected(s)
    \/ net[s].k = "locals" /\ LocalsLoaded(s)
    \/ net[s].k = "rerankers" /\ RerankersLoaded(s)
    \/ net[s].k = "create" /\ CollectionsCreated(s)

----------------------------------------------------------------------------
(* One collection: its documents by status, and its re-ranker.  Uploading  *)
(* and reindexing await a chain of requests: the operation, a refresh, the *)
(* job's status until it is final or pollJob gives up, a refresh.  Every   *)
(* refresh asks for the page of the render its chain was started in.       *)

MaxPolls == 2   \* bound: pollJob gives up after 120 s, here after this many answers

CollectionUi(admin) ==
    [admin |-> admin, rows |-> NoRows, loading |-> TRUE, progress |-> FALSE, reindexing |-> FALSE,
     cfg |-> FALSE, confirm |-> None, rerank |-> "none", rerankers |-> None, gone |-> FALSE, del |-> ""]
CollectionDb == [rows |-> OneRow("indexed"), rerank |-> "none", gone |-> FALSE]

CollectionAccepts(c) ==
    /\ ~db.gone
    /\ CASE c.k = "upload" -> ~Full(db.rows)
         [] c.k \in {"reindex", "delete"} -> db.rows[c.a.id] # None
         [] c.k = "status" -> c.a.id \in Rows => db.rows[c.a.id] # None
         [] OTHER -> TRUE

CollectionEffect(c) ==
    CASE c.k = "upload"  -> [db EXCEPT !.rows[Fresh(db.rows)] = "processing"]
      [] c.k = "reindex" -> [db EXCEPT !.rows[c.a.id] = "processing"]
      [] c.k = "cfg"     -> [db EXCEPT !.rows = [r \in Rows |-> IF @[r] = None THEN None ELSE "processing"]]
      [] c.k = "delete"  -> [db EXCEPT !.rows = Drop(@, c.a.id)]
      [] c.k = "patch"   -> [db EXCEPT !.rerank = c.a.v]
      [] c.k = "destroy" -> [db EXCEPT !.gone = TRUE]
      [] OTHER -> db

CollectionAnswer(c) ==
    CASE c.k = "list"   -> [rows |-> db.rows, rerank |-> db.rerank]
      [] c.k = "upload" -> Fresh(db.rows)
      [] c.k = "cfg"    -> IF Present(db.rows) = {} THEN "empty" ELSE "all"
      [] c.k = "status" -> IF c.a.id = "all"
                           THEN \A r \in Rows : db.rows[r] # "processing"
                           ELSE db.rows[c.a.id] # "processing"
      [] OTHER -> None

CollectionCovered == ui.cfg \/ ui.confirm # None \/ ui.del # ""
CollectionTable   == IF ui.loading \/ CollectionCovered \/ ~ui.admin THEN {} ELSE Present(ui.rows)

CollectionUpload  == ~CollectionCovered /\ ~ui.progress /\ Ask([ui EXCEPT !.progress = TRUE], "upload", None)
CollectionConfirm(r, k) ==
    /\ k = "reindex" => ~ui.progress
    /\ User([ui EXCEPT !.confirm = [id |-> r, k |-> k]])
CollectionRunConfirm ==
    /\ ui.confirm # None
    /\ Ask([ui EXCEPT !.confirm = None], ui.confirm.k, [id |-> ui.confirm.id])
CollectionOpenConfig == ~CollectionCovered /\ ~ui.progress /\ User([ui EXCEPT !.cfg = TRUE])
CollectionReindex    == ui.cfg /\ ~ui.reindexing /\ Ask([ui EXCEPT !.reindexing = TRUE], "cfg", [id |-> "all"])
CollectionReranker(v) == ~CollectionCovered /\ Ask(ui, "patch", [id |-> "rerank", v |-> v])

\* The collection's name has to be typed before it can be deleted.
CollectionDestroy ==
    \/ ~CollectionCovered /\ User([ui EXCEPT !.del = "open"])
    \/ ui.del = "open" /\ User([ui EXCEPT !.del = "typed"])
    \/ ui.del = "typed" /\ Ask([ui EXCEPT !.del = "busy"], "destroy", None)

CollectionClose ==
    \/ ui.cfg /\ ~ui.reindexing /\ User([ui EXCEPT !.cfg = FALSE])
    \/ ui.confirm # None /\ User([ui EXCEPT !.confirm = None])
    \/ ui.del # "" /\ User([ui EXCEPT !.del = ""])

CollectionUser ==
    /\ ui.admin /\ ~ui.gone
    /\ \/ CollectionUpload \/ CollectionRunConfirm \/ CollectionOpenConfig \/ CollectionReindex
       \/ CollectionDestroy \/ CollectionClose
       \/ \E v \in {"none", "local"} \ {ui.rerank} : CollectionReranker(v)
       \/ \E r \in CollectionTable, k \in {"delete", "reindex"} : CollectionConfirm(r, k)

\* A chain waits for the job of one document ("doc") or for those of a whole
\* collection ("cfg"); a refresh may belong to none.
CollectionChain(of, id) == [of |-> of, id |-> id]
CollectionAlone == CollectionChain("no", None)

\* refresh(), awaited by chain c.
CollectionRefresh(s, u, c) == Resume(s, [u EXCEPT !.loading = TRUE], Send(Rest(s), "list", c))

\* The finally blocks of the chains.
CollectionFinish(s, u, cfg) ==
    CollectionRefresh(s, [u EXCEPT !.progress = FALSE, !.reindexing = @ /\ ~cfg], CollectionAlone)

CollectionListed(s) ==
    LET u == [ui EXCEPT !.loading = FALSE,
                        !.rows = IF Ok(s) THEN net[s].r.rows ELSE @,
                        !.rerank = IF Ok(s) THEN net[s].r.rerank ELSE @]
        c == net[s].a
    IN  IF c.of = "no" THEN Resume(s, u, Rest(s))
        ELSE IF c.id = "empty" THEN CollectionFinish(s, u, c.of = "cfg")
        ELSE Resume(s, [u EXCEPT !.progress = TRUE], Send(Rest(s), "status", [of |-> c.of, id |-> c.id, n |-> 1]))

CollectionUploaded(s) ==
    IF Ok(s) THEN CollectionRefresh(s, ui, CollectionChain("doc", net[s].r)) ELSE CollectionFinish(s, ui, FALSE)

CollectionReindexed(s) ==
    IF Ok(s) THEN CollectionRefresh(s, [ui EXCEPT !.progress = TRUE], CollectionChain("doc", net[s].a.id))
    ELSE CollectionFinish(s, ui, FALSE)

\* handleReindexCollection: the jobs are polled together.
CollectionConfigured(s) ==
    IF Ok(s) THEN CollectionRefresh(s, [ui EXCEPT !.cfg = FALSE], CollectionChain("cfg", net[s].r))
    ELSE CollectionFinish(s, ui, TRUE)

\* Mutant: pollJob without its timeout.
PollNeverGivesUp(n) == FALSE

\* pollJob.
PollGivesUp(n) == n >= MaxPolls

CollectionPolled(s) ==
    IF ~Ok(s) \/ net[s].r \/ PollGivesUp(net[s].a.n)
    THEN CollectionFinish(s, ui, net[s].a.of = "cfg")
    ELSE LET c == net[s].a
         IN  Resume(s, ui, Send(Rest(s), "status", [of |-> c.of, id |-> c.id, n |-> IF c.n = MaxPolls THEN c.n ELSE c.n + 1]))

CollectionDeleted(s) == IF Ok(s) THEN CollectionRefresh(s, ui, CollectionAlone) ELSE Resume(s, ui, Rest(s))

CollectionReranked(s) ==
    IF ~Ok(s)
    THEN Resume(s, ui, Rest(s))
    ELSE IF net[s].a.v = "none"
         THEN Resume(s, [ui EXCEPT !.rerank = net[s].a.v, !.rerankers = None], Rest(s))
         ELSE Resume(s, [ui EXCEPT !.rerank = net[s].a.v], Send(Rest(s), "rerankers", net[s].a.v))

CollectionRerankers(s) == Resume(s, [ui EXCEPT !.rerankers = IF Ok(s) THEN net[s].a ELSE None], Rest(s))

\* On success the page is left for the list.
CollectionDestroyed(s) == Resume(s, [ui EXCEPT !.gone = Ok(s), !.del = IF @ = "busy" THEN "typed" ELSE @], Rest(s))

CollectionResume(s) ==
    \/ net[s].k = "list" /\ CollectionListed(s)
    \/ net[s].k = "upload" /\ CollectionUploaded(s)
    \/ net[s].k = "reindex" /\ CollectionReindexed(s)
    \/ net[s].k = "cfg" /\ CollectionConfigured(s)
    \/ net[s].k = "status" /\ CollectionPolled(s)
    \/ net[s].k = "delete" /\ CollectionDeleted(s)
    \/ net[s].k = "patch" /\ CollectionReranked(s)
    \/ net[s].k = "rerankers" /\ CollectionRerankers(s)
    \/ net[s].k = "destroy" /\ CollectionDestroyed(s)

\* A worker ends a job.
CollectionWorld ==
    \E r \in Rows, st \in {"indexed", "failed"} :
        db.rows[r] = "processing" /\ World([db EXCEPT !.rows[r] = st])

----------------------------------------------------------------------------
(* The form of the configuration dialog.  Unlike the creation form it      *)
(* keeps the model when the server changes, and its test only loads the    *)
(* models; picking one warns when its dimension does not fit.              *)

ConfigUi ==
    [open |-> FALSE, url |-> "u1", tested |-> TRUE, models |-> {}, model |-> Model("u1", 1),
     provider |-> "openai", testing |-> FALSE, listing |-> FALSE]
ConfigAnswer(c) == IF c.k = "models" THEN ServerModels(c.a.url) ELSE None

ConfigOpen  ==
    /\ ~ui.open
    /\ User([ui EXCEPT !.open = TRUE, !.provider = "openai", !.url = "u1", !.tested = TRUE,
                       !.model = Model("u1", 1), !.models = {Model("u1", 1)}])
ConfigClose == ui.open /\ User([ui EXCEPT !.open = FALSE])
ConfigUrl(u) == User([ui EXCEPT !.url = u, !.tested = FALSE, !.models = {ui.model}])
ConfigTest  == ~ui.tested /\ ~ui.testing /\ Ask([ui EXCEPT !.testing = TRUE], "check", [url |-> ui.url])
ConfigLoadModels ==
    ui.tested /\ ~ui.listing /\ Ask([ui EXCEPT !.listing = TRUE], "models", [url |-> ui.url, m |-> ui.model, test |-> FALSE])
ConfigPick(m) == Ask([ui EXCEPT !.model = m], "probe", None)
ConfigProvider(p) ==
    LET u == [ui EXCEPT !.provider = p]
    IN  IF p = "local" THEN Ask(u, "locals", None) ELSE User(u)

ConfigUser ==
    \/ ConfigOpen \/ ConfigClose
    \/ ui.open /\ \E p \in {"openai", "local"} \ {ui.provider} : ConfigProvider(p)
    \/ /\ ui.open /\ ui.provider = "openai"
       /\ \/ \E u \in Urls : ConfigUrl(u)
          \/ ConfigTest \/ ConfigLoadModels
          \/ \E m \in ui.models : ConfigPick(m)

ConfigTested(s) ==
    IF Ok(s)
    THEN Resume(s, [ui EXCEPT !.tested = TRUE, !.listing = TRUE],
                Send(Rest(s), "models", [url |-> net[s].a.url, m |-> ui.model, test |-> TRUE]))
    ELSE Resume(s, [ui EXCEPT !.testing = FALSE], Rest(s))

\* The model the collection uses stays in the list.
ConfigModels(s) ==
    Resume(s, [ui EXCEPT !.listing = FALSE, !.testing = @ /\ ~net[s].a.test,
                         !.models = IF Ok(s) THEN net[s].r \cup {net[s].a.m} ELSE @], Rest(s))

ConfigLocals(s) == Resume(s, IF Ok(s) THEN [ui EXCEPT !.model = LocalModel] ELSE ui, Rest(s))

ConfigResume(s) ==
    \/ net[s].k = "check" /\ ConfigTested(s)
    \/ net[s].k = "models" /\ ConfigModels(s)
    \/ net[s].k = "locals" /\ ConfigLocals(s)
    \/ net[s].k = "probe" /\ Resume(s, ui, Rest(s))

----------------------------------------------------------------------------
(* The document viewers: the pages of a document's chunks, its chunks      *)
(* under a configuration the user tries out (compare), its parsed text.    *)
(* arg is the page, or the form; what is shown names the document and arg  *)
(* it was asked for.                                                       *)

ViewUi(kind) == [kind |-> kind, doc |-> None, arg |-> None, data |-> None, loading |-> FALSE, timer |-> None]
ViewAnswer(c) == c.a

ViewOpen(d) ==
    /\ ui.doc = None
    /\ LET a == IF ui.kind = "chunks" THEN 1 ELSE None
       IN  Ask([ui EXCEPT !.doc = d, !.arg = a, !.loading = TRUE], "load", [doc |-> d, arg |-> a])

ViewClose == ui.doc # None /\ User([ui EXCEPT !.doc = None, !.arg = None, !.data = None])

ViewGoPage(p) ==
    /\ ui.kind = "chunks" /\ ui.doc # None /\ ui.data # None /\ ~ui.loading
    /\ Ask([ui EXCEPT !.arg = p, !.loading = TRUE], "load", [doc |-> ui.doc, arg |-> p])

\* applyForm restarts a timer of 450 ms; nothing stops it when the dialog is
\* closed.
ViewApplyForm(v) ==
    /\ ui.kind = "compare" /\ ui.doc # None /\ ui.arg # None
    /\ User([ui EXCEPT !.arg = v, !.timer = [doc |-> ui.doc, arg |-> v]])

ViewUser ==
    \/ \E d \in Rows : ViewOpen(d)
    \/ ViewClose
    \/ \E p \in {1, 2} \ {ui.arg} : ViewGoPage(p)
    \/ \E v \in {1, 2} \ {ui.arg} : ViewApplyForm(v)

\* The preview of a form that was left meanwhile comes out of order.
ViewTimer ==
    /\ ui.timer # None /\ Room(1)
    /\ ui' = [ui EXCEPT !.timer = None, !.loading = TRUE]
    /\ net' = Send(net, "load", ui.timer)
    /\ mixed' = (mixed \/ ui.timer # [doc |-> ui.doc, arg |-> ui.arg])
    /\ UNCHANGED <<screen, db, ops, evs>>

\* The first preview also fills in the form; 0 is the collection's own
\* configuration.
ViewLoaded(s) ==
    LET u == [ui EXCEPT !.loading = FALSE]
    IN  Resume(s, IF Ok(s)
                  THEN [u EXCEPT !.data = net[s].r, !.arg = IF ui.kind = "compare" /\ @ = None THEN 0 ELSE @]
                  ELSE IF ui.kind = "chunks" THEN u ELSE [u EXCEPT !.data = None], Rest(s))

ViewResume(s) == net[s].k = "load" /\ ViewLoaded(s)

ViewExact ==
    (ui.doc # None /\ ui.timer = None /\ ui.data # None)
        => ui.data.doc = ui.doc /\ (ui.data.arg # None => ui.data.arg = ui.arg)

----------------------------------------------------------------------------
(* The ingestion pipeline builder: stages after parsing and after          *)
(* chunking, tried out on a document or saved by reindexing the collection.*)

Phases    == {"post_parse", "post_chunk"}
MaxStages == 2  \* bound

BuilderUi == [stages |-> [p \in Phases |-> IF p = "post_parse" THEN <<"table">> ELSE <<>>],
              types |-> None, doc |-> None, preview |-> None, busy |-> "no"]
BuilderDb == [p \in Phases |-> <<>>]
BuilderEffect(c) == IF c.k = "save" THEN c.a ELSE db
BuilderAnswer(c) == IF c.k = "preview" THEN c.a ELSE None

SetStages(p, next) == User([ui EXCEPT !.stages[p] = next])
AddStage(p, id)    == Len(ui.stages[p]) < MaxStages /\ SetStages(p, Append(ui.stages[p], id))
RemoveStage(p, i)  == SetStages(p, SubSeq(ui.stages[p], 1, i - 1) \o SubSeq(ui.stages[p], i + 1, Len(ui.stages[p])))
MoveStage(p, i, j) ==
    /\ j \in DOMAIN ui.stages[p]
    /\ SetStages(p, [ui.stages[p] EXCEPT ![i] = ui.stages[p][j], ![j] = ui.stages[p][i]])

\* ImageCaptionsConfig: the chosen caption types are stored only when they
\* differ from the default, and an empty choice reads as the default.
CaptionDefault == {"chart"}
CaptionSelected(types) == IF types \in {None, {}} THEN CaptionDefault ELSE types
CaptionToggle(t) ==
    LET sel  == CaptionSelected(ui.types)
        next == IF t \in sel THEN sel \ {t} ELSE sel \cup {t}
    IN  User([ui EXCEPT !.types = IF next = CaptionDefault THEN None ELSE next])

BuilderDocument(d) == User([ui EXCEPT !.doc = d])
BuilderRunPreview == ui.busy = "no" /\ ui.doc # None /\ Ask([ui EXCEPT !.busy = "preview"], "preview", [id |-> ui.doc])
BuilderSave       == ui.busy = "no" /\ Ask([ui EXCEPT !.busy = "save"], "save", ui.stages)

BuilderUser ==
    \/ \E p \in Phases : AddStage(p, "pii")
    \/ \E p \in Phases : \E i \in DOMAIN ui.stages[p] :
          RemoveStage(p, i) \/ \E j \in {i - 1, i + 1} : MoveStage(p, i, j)
    \/ \E t \in {"chart", "photo"} : CaptionToggle(t)
    \/ \E d \in Rows \ {ui.doc} : BuilderDocument(d)
    \/ BuilderRunPreview \/ BuilderSave

BuilderPreviewed(s) == Resume(s, [ui EXCEPT !.busy = "no", !.preview = Got(s, @)], Rest(s))
BuilderSaved(s)     == Resume(s, [ui EXCEPT !.busy = "no"], Rest(s))
BuilderResume(s) ==
    \/ net[s].k = "preview" /\ BuilderPreviewed(s)
    \/ net[s].k = "save" /\ BuilderSaved(s)

----------------------------------------------------------------------------
(* The search panel.  Enter starts a search even while one is running.     *)

SearchUi == [q |-> "", mode |-> "hybrid", loading |-> FALSE, result |-> None]
SearchAnswer(c) == c.a

SearchType(q) == User([ui EXCEPT !.q = q])
SearchMode(m) == User([ui EXCEPT !.mode = m])
RunSearch     == ui.q # "" /\ Ask([ui EXCEPT !.loading = TRUE], "search", [q |-> ui.q, mode |-> ui.mode])

SearchUser ==
    \/ \E q \in {"a", "b"} \ {ui.q} : SearchType(q)
    \/ \E m \in {"hybrid", "lexical"} \ {ui.mode} : SearchMode(m)
    \/ RunSearch

Searched(s) == Resume(s, [ui EXCEPT !.loading = FALSE, !.result = Got(s, @)], Rest(s))
SearchResume(s) == net[s].k = "search" /\ Searched(s)
=============================================================================
