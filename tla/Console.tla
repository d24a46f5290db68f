------------------------------ MODULE Console ------------------------------
(***************************************************************************)
(* The console: Next.js mounts one page, whose handlers, timers and        *)
(* answers interleave with each other and with what happens on the server. *)
(* A behaviour is the life of one mounted page; screen says which.         *)
(***************************************************************************)
EXTENDS SourcePages, MonitorPages, EvaluationPages, ConfigPages, CollectionPages, RoutingPages, ImagePages, AnnotationPages, PipelinePages, FinetunePages, UserPages, FilePages

CONSTANT Screens    \* the pages of this instance

----------------------------------------------------------------------------
(* The server, as the page sees it: whether it accepts a request, what the *)
(* request changes, and what it answers.                                   *)

Accepts(c) ==
    CASE screen = "sources"      -> SourcesAccepts(c)
      [] screen = "watches"      -> WatchesAccepts(c)
      [] screen = "jobs"         -> JobsAccepts(c)
      [] screen = "models"       -> ModelsAccepts(c)
      [] screen = "evals"        -> TableAccepts(c)
      [] screen = "eval"         -> EvalAccepts(c)
      [] screen = "sweeps"       -> SweepAccepts(c)
      [] screen = "apikeys"      -> TableAccepts(c)
      [] screen = "piirules"     -> PiiAccepts(c)
      [] screen = "piifunctions" -> PiiAccepts(c)
      [] screen = "feedback"     -> FeedbackAccepts(c)
      [] screen = "collections"  -> CollectionsAccepts(c)
      [] screen = "collection"   -> CollectionAccepts(c)
      [] screen = "review"       -> ReviewAccepts(c)
      [] screen = "analyze"      -> RunsAccepts(c)
      [] screen = "history"      -> RunsAccepts(c)
      [] screen = "explorer"     -> ExplorerAccepts(c)
      [] screen = "pipelines"    -> TableAccepts(c)
      [] screen = "pipeline"     -> PipelineAccepts(c)
      [] screen = "ftjobs"       -> TableAccepts(c)
      [] screen = "ftdatasets"   -> TableAccepts(c)
      [] screen = "ftmodels"     -> TableAccepts(c)
      [] screen = "ftjob"        -> FtJobAccepts(c)
      [] screen = "ftdataset"    -> FtDatasetAccepts(c)
      [] screen = "ftmodel"      -> FtModelAccepts(c)
      [] screen = "users"        -> UsersAccepts(c)
      [] screen = "files"        -> FilesAccepts(c)
      [] OTHER -> TRUE

Effect(c) ==
    CASE screen = "sources"      -> SourcesEffect(c)
      [] screen = "watches"      -> WatchesEffect(c)
      [] screen = "jobs"         -> JobsEffect(c)
      [] screen = "models"       -> ModelsEffect(c)
      [] screen = "evals"        -> TableEffect(c)
      [] screen = "eval"         -> EvalEffect(c)
      [] screen = "sweeps"       -> SweepEffect(c)
      [] screen = "settings"     -> SettingsEffect(c)
      [] screen = "apikeys"      -> TableEffect(c)
      [] screen = "piirules"     -> TableEffect(c)
      [] screen = "piifunctions" -> TableEffect(c)
      [] screen = "feedback"     -> FeedbackEffect(c)
      [] screen = "collections"  -> CollectionsEffect(c)
      [] screen = "collection"   -> CollectionEffect(c)
      [] screen = "builder"      -> BuilderEffect(c)
      [] screen = "profiles"     -> ProfilesEffect(c)
      [] screen = "review"       -> ReviewEffect(c)
      [] screen = "policy"       -> PolicyEffect(c)
      [] screen = "intake"       -> IntakeEffect(c)
      [] screen = "analyze"      -> RunsEffect(c)
      [] screen = "history"      -> RunsEffect(c)
      [] screen = "explorer"     -> ExplorerEffect(c)
      [] screen = "labeling"     -> LabelingEffect(c)
      [] screen = "pipelines"    -> PipelinesEffect(c)
      [] screen = "pipeline"     -> PipelineEffect(c)
      [] screen = "ftjobs"       -> FtListEffect(c)
      [] screen = "ftdatasets"   -> FtListEffect(c)
      [] screen = "ftmodels"     -> FtListEffect(c)
      [] screen = "ftjob"        -> FtJobEffect(c)
      [] screen = "ftdataset"    -> FtDatasetEffect(c)
      [] screen = "ftmodel"      -> FtModelEffect(c)
      [] screen = "ftlabeling"   -> FtLabelEffect(c)
      [] screen = "users"        -> UsersEffect(c)
      [] screen = "files"        -> FilesEffect(c)
      [] OTHER -> db

Answer(c) ==
    CASE screen = "sources"      -> SourcesAnswer(c)
      [] screen = "watches"      -> WatchesAnswer(c)
      [] screen = "picker"       -> PickerAnswer(c)
      [] screen = "jobs"         -> JobsAnswer(c)
      [] screen = "polled"       -> PolledAnswer(c)
      [] screen = "models"       -> ModelsAnswer(c)
      [] screen = "evals"        -> EvalsAnswer(c)
      [] screen = "eval"         -> EvalAnswer(c)
      [] screen = "sweeps"       -> SweepAnswer(c)
      [] screen = "servers"      -> ServersAnswer(c)
      [] screen = "settings"     -> SettingsAnswer(c)
      [] screen = "apikeys"      -> KeysAnswer(c)
      [] screen = "piirules"     -> PiiAnswer(c)
      [] screen = "piifunctions" -> PiiAnswer(c)
      [] screen = "feedback"     -> FeedbackAnswer(c)
      [] screen = "collections"  -> CollectionsAnswer(c)
      [] screen = "collection"   -> CollectionAnswer(c)
      [] screen = "config"       -> ConfigAnswer(c)
      [] screen = "docview"      -> ViewAnswer(c)
      [] screen = "builder"      -> BuilderAnswer(c)
      [] screen = "search"       -> SearchAnswer(c)
      [] screen = "profiles"     -> ProfilesAnswer(c)
      [] screen = "review"       -> ReviewAnswer(c)
      [] screen = "policy"       -> PolicyAnswer(c)
      [] screen = "routetest"    -> RouteTestAnswer(c)
      [] screen = "intake"       -> IntakeAnswer(c)
      [] screen = "analyze"      -> RunsAnswer(c)
      [] screen = "history"      -> RunsAnswer(c)
      [] screen = "explorer"     -> ExplorerAnswer(c)
      [] screen = "labeling"     -> LabelingAnswer(c)
      [] screen = "pipelines"    -> PipelinesAnswer(c)
      [] screen = "pipeline"     -> PipelineAnswer(c)
      [] screen = "playground"   -> PlayAnswer(c)
      [] screen = "chat"         -> ChatAnswer(c)
      [] screen = "ftjobs"       -> FtListAnswer(c)
      [] screen = "ftdatasets"   -> FtListAnswer(c)
      [] screen = "ftmodels"     -> FtListAnswer(c)
      [] screen = "ftjob"        -> FtJobAnswer(c)
      [] screen = "ftdataset"    -> FtDatasetAnswer(c)
      [] screen = "ftmodel"      -> FtModelAnswer(c)
      [] screen = "ftlabeling"   -> FtLabelAnswer(c)
      [] screen = "users"        -> UsersAnswer(c)
      [] screen = "files"        -> FilesAnswer(c)
      [] OTHER -> None

Answered(s, st, r) == [net EXCEPT ![s].st = st, ![s].r = r]

\* The server serves the request in slot s.
Serve(s) ==
    /\ Busy(s) /\ net[s].st = "sent"
    /\ IF Accepts(net[s])
       THEN db' = Effect(net[s]) /\ net' = Answered(s, "ok", Answer(net[s]))
       ELSE db' = db /\ net' = Answered(s, "err", None)
    /\ UNCHANGED <<screen, ui, ops, evs, mixed>>

\* The request in slot s fails, before or after the server acted on it.
Fault(s) ==
    /\ Busy(s) /\ net[s].st = "sent"
    /\ evs < MaxEvents /\ evs' = evs + 1
    /\ net' = Answered(s, "err", None)
    /\ \/ db' = db
       \/ Accepts(net[s]) /\ db' = Effect(net[s])
    /\ UNCHANGED <<screen, ui, ops, mixed>>

----------------------------------------------------------------------------
(* The page: what mounting it starts, and its steps.                       *)

Init ==
    /\ screen \in Screens
    /\ ops = 0 /\ evs = 0 /\ mixed = FALSE
    /\ \/ /\ screen = "sources"
          /\ db = SourcesDb
          /\ \E a \in BOOLEAN : ui = SourcesUi(a)
          /\ net = Send(NoCalls, "list", None)
       \/ /\ screen = "watches"
          /\ db = WatchesDb
          /\ \E a \in BOOLEAN : ui = WatchesUi(a)
          /\ net = Send(NoCalls, "list", None)
       \/ /\ screen = "picker"
          /\ db = PickerDb
          /\ ui = PickerUi
          /\ net = NoCalls
       \/ /\ screen = "jobs"
          /\ db = JobsDb
          /\ \E a \in BOOLEAN : ui = JobsUi(a)
          /\ net = Send(NoCalls, "load", JobsHome)
       \/ /\ screen = "polled"
          /\ db = PolledDb
          /\ ui = PolledUi
          /\ net = Send(NoCalls, "list", "eval")
       \/ /\ screen = "models"
          /\ \E v \in {"x", "builtin"} : db = ModelsDb(v)
          /\ \E a \in BOOLEAN : ui = ModelsUi(a)
          /\ net = Send(Send(NoCalls, "list", None), "jobs", "mount")
       \/ /\ screen = "evals"
          /\ db = EvalsDb
          /\ \E a \in BOOLEAN : ui = EvalsUi(a)
          /\ net = Send(NoCalls, "list", None)
       \/ /\ screen = "eval"
          /\ db = EvalDb
          /\ \E a \in BOOLEAN : ui = EvalUi(a)
          /\ net = Send(NoCalls, "load", None)
       \/ /\ screen = "sweeps"
          /\ db = SweepDb
          /\ ui = SweepUi
          /\ net = Send(NoCalls, "list", SweepFetch(FALSE, None))
       \/ /\ screen = "servers"
          /\ db = ServersDb
          /\ ui = ServersUi
          /\ net = Send(Send(NoCalls, "probes", None), "replicas", None)
       \/ /\ screen = "settings"
          /\ db = SettingsDb
          /\ ui = SettingsUi
          /\ net = Send(NoCalls, "list", None)
       \/ /\ screen = "apikeys"
          /\ db = KeysDb
          /\ \E a \in BOOLEAN : ui = KeysUi(a) /\ net = IF a THEN Send(NoCalls, "list", None) ELSE NoCalls
       \/ /\ screen = "piirules"
          /\ db = PiiDb
          /\ \E a \in BOOLEAN : ui = PiiUi(a)
          /\ net = Send(NoCalls, "list", None)
       \/ /\ screen = "piifunctions"
          /\ db = PiiDb
          /\ \E a \in BOOLEAN : ui = PiiUi(a)
          /\ net = Send(NoCalls, "list", None)
       \/ /\ screen = "feedback"
          /\ db = FeedbackDb
          /\ \E a \in BOOLEAN : ui = FeedbackUi(a)
          /\ net = Send(NoCalls, "list", "all")
       \/ /\ screen = "collections"
          /\ db = CollectionsDb
          /\ \E a \in BOOLEAN : ui = CollectionsUi(a)
          /\ net = Send(NoCalls, "list", 1)
       \/ /\ screen = "collection"
          /\ db = CollectionDb
          /\ \E a \in BOOLEAN : ui = CollectionUi(a)
          /\ net = Send(NoCalls, "list", CollectionAlone)
       \/ /\ screen = "config"
          /\ db = None
          /\ ui = ConfigUi
          /\ net = NoCalls
       \/ /\ screen = "docview"
          /\ db = None
          /\ \E k \in {"chunks", "compare", "parse"} : ui = ViewUi(k)
          /\ net = NoCalls
       \/ /\ screen = "builder"
          /\ db = BuilderDb
          /\ ui = BuilderUi
          /\ net = NoCalls
       \/ /\ screen = "search"
          /\ db = None
          /\ ui = SearchUi
          /\ net = NoCalls
       \/ /\ screen = "profiles"
          /\ db = ProfilesDb
          /\ \E a \in BOOLEAN : ui = ProfilesUi(a)
          /\ net = Send(NoCalls, "list", None)
       \/ /\ screen = "review"
          /\ db = ReviewDb
          /\ \E a \in BOOLEAN : ui = ReviewUi(a)
          /\ net = Send(NoCalls, "list", [all |-> FALSE, busy |-> FALSE])
       \/ /\ screen = "policy"
          /\ db = PolicyDb
          /\ \E a \in BOOLEAN : ui = PolicyUi(a)
          /\ net = Send(NoCalls, "list", None)
       \/ /\ screen = "routetest"
          /\ db = None
          /\ ui = RouteTestUi
          /\ net = NoCalls
       \/ /\ screen = "intake"
          /\ db = IntakeDb
          /\ \E a \in BOOLEAN : ui = IntakeUi(a)
          /\ net = NoCalls
       \/ /\ screen = "analyze"
          /\ db = AnalyzeDb
          /\ ui = AnalyzeUi
          /\ net = NoCalls
       \/ /\ screen = "history"
          /\ db = HistoryDb
          /\ ui = HistoryUi
          /\ net = Send(NoCalls, "list", None)
       \/ /\ screen = "explorer"
          /\ db = ExplorerDb
          /\ ui = ExplorerUi
          /\ net = ExplorerKidsOf(ExplorerImagesOf(NoCalls, ui, "no"), "", "no")
       \/ /\ screen = "labeling"
          /\ db = LabelingDb
          /\ ui = LabelingUi
          /\ net = Send(NoCalls, "list", None)
       \/ /\ screen = "canvas"
          /\ db = None
          /\ ui = CanvasUi
          /\ net = NoCalls
       \/ /\ screen = "pipelines"
          /\ db = PipelinesDb
          /\ \E a \in BOOLEAN : ui = PipelinesUi(a)
          /\ net = Send(NoCalls, "list", None)
       \/ /\ screen = "pipeline"
          /\ db = PipelineDb
          /\ \E a \in BOOLEAN : ui = PipelineUi(a)
          /\ net = Send(NoCalls, "load", None)
       \/ /\ screen = "playground"
          /\ db = None
          /\ ui = PlayUi
          /\ net = Send(Send(NoCalls, "cols", None), "pipes", None)
       \/ /\ screen = "chat"
          /\ db = None
          /\ ui = ChatUi
          /\ net = Send(Send(NoCalls, "cols", None), "pipes", None)
       \/ /\ screen = "ftjobs"
          /\ db = FtListDb
          /\ \E a \in BOOLEAN : ui = FtListUi(a)
          /\ net = Send(NoCalls, "list", None)
       \/ /\ screen = "ftdatasets"
          /\ db = FtListDb
          /\ \E a \in BOOLEAN : ui = FtListUi(a)
          /\ net = Send(NoCalls, "list", None)
       \/ /\ screen = "ftmodels"
          /\ db = FtListDb
          /\ \E a \in BOOLEAN : ui = FtListUi(a)
          /\ net = Send(NoCalls, "list", None)
       \/ /\ screen = "ftjob"
          /\ db = FtJobDb
          /\ \E a \in BOOLEAN : ui = FtJobUi(a)
          /\ net = Send(NoCalls, "list", None)
       \/ /\ screen = "ftdataset"
          /\ db = FtDatasetDb
          /\ \E a \in BOOLEAN : ui = FtDatasetUi(a)
          /\ net = Send(NoCalls, "load", [done |-> "", n |-> 0])
       \/ /\ screen = "ftmodel"
          /\ db = FtModelDb
          /\ \E a \in BOOLEAN : ui = FtModelUi(a)
          /\ net = Send(NoCalls, "list", None)
       \/ /\ screen = "ftlabeling"
          /\ db = FtLabelDb
          /\ \E a \in BOOLEAN : ui = FtLabelUi(a)
          /\ net = Send(NoCalls, "lists", None)
       \/ /\ screen = "users"
          /\ \E two \in BOOLEAN : db = UsersDb(two)
          /\ \E z \in {1, 2} : ui = UsersUi(z) /\ net = Send(NoCalls, "list", UsersQuery(1, z, ""))
       \/ /\ screen = "files"
          /\ db = FilesDb
          /\ \E a \in BOOLEAN, p \in {"/", "d"} : ui = FilesUi(a, p) /\ net = FilesMount(p)

Act ==
    \/ screen = "sources"      /\ SourcesUser
    \/ screen = "watches"      /\ WatchesUser
    \/ screen = "picker"       /\ PickerUser
    \/ screen = "jobs"         /\ JobsUser
    \/ screen = "polled"       /\ PolledUser
    \/ screen = "models"       /\ ModelsUser
    \/ screen = "evals"        /\ EvalsUser
    \/ screen = "eval"         /\ EvalUser
    \/ screen = "sweeps"       /\ SweepUser
    \/ screen = "servers"      /\ ServersUser
    \/ screen = "settings"     /\ SettingsUser
    \/ screen = "apikeys"      /\ KeysUser
    \/ screen = "piirules"     /\ RulesUser
    \/ screen = "piifunctions" /\ FunctionsUser
    \/ screen = "feedback"     /\ FeedbackUser
    \/ screen = "collections"  /\ CollectionsUser
    \/ screen = "collection"   /\ CollectionUser
    \/ screen = "config"       /\ ConfigUser
    \/ screen = "docview"      /\ ViewUser
    \/ screen = "builder"      /\ BuilderUser
    \/ screen = "search"       /\ SearchUser
    \/ screen = "profiles"     /\ ProfilesUser
    \/ screen = "review"       /\ ReviewUser
    \/ screen = "policy"       /\ PolicyUser
    \/ screen = "routetest"    /\ RouteTestUser
    \/ screen = "intake"       /\ IntakeUser
    \/ screen = "analyze"      /\ AnalyzeUser
    \/ screen = "history"      /\ HistoryUser
    \/ screen = "explorer"     /\ ExplorerUser
    \/ screen = "labeling"     /\ LabelingUser
    \/ screen = "canvas"       /\ CanvasUser
    \/ screen = "pipelines"    /\ PipelinesUser
    \/ screen = "pipeline"     /\ PipelineUser
    \/ screen = "playground"   /\ PlayUser
    \/ screen = "chat"         /\ ChatUser
    \/ screen = "ftjobs"       /\ FtJobsUser
    \/ screen = "ftdatasets"   /\ FtDatasetsUser
    \/ screen = "ftmodels"     /\ FtModelsUser
    \/ screen = "ftjob"        /\ FtJobUser
    \/ screen = "ftdataset"    /\ FtDatasetUser
    \/ screen = "ftmodel"      /\ FtModelUser
    \/ screen = "ftlabeling"   /\ FtLabelUser
    \/ screen = "users"        /\ UsersUser
    \/ screen = "files"        /\ FilesUser

Interval ==
    \/ screen = "watches"      /\ WatchesPoll
    \/ screen = "jobs"         /\ JobsPoll
    \/ screen = "polled"       /\ PolledPoll
    \/ screen = "models"       /\ ModelsPoll
    \/ screen = "eval"         /\ EvalPoll
    \/ screen = "sweeps"       /\ SweepPoll
    \/ screen = "servers"      /\ ServersPoll
    \/ screen = "docview"      /\ ViewTimer
    \/ screen = "labeling"     /\ EditorTimer
    \/ screen = "users"        /\ UsersTimer

Elsewhere ==
    \/ screen = "sources"      /\ SourcesWorld
    \/ screen = "watches"      /\ WatchesWorld
    \/ screen = "jobs"         /\ JobsWorld
    \/ screen = "polled"       /\ PolledWorld
    \/ screen = "models"       /\ ModelsWorld
    \/ screen = "eval"         /\ EvalWorld
    \/ screen = "sweeps"       /\ SweepWorld
    \/ screen = "servers"      /\ ServersWorld
    \/ screen = "collection"   /\ CollectionWorld
    \/ screen = "profiles"     /\ ProfilesWorld
    \/ screen = "ftjob"        /\ FtJobWorld

Continue(s) ==
    /\ Busy(s) /\ net[s].st # "sent"
    /\ \/ screen = "sources"      /\ SourcesResume(s)
       \/ screen = "watches"      /\ WatchesResume(s)
       \/ screen = "picker"       /\ PickerResume(s)
       \/ screen = "jobs"         /\ JobsResume(s)
       \/ screen = "polled"       /\ PolledResume(s)
       \/ screen = "models"       /\ ModelsResume(s)
       \/ screen = "evals"        /\ EvalsResume(s)
       \/ screen = "eval"         /\ EvalResume(s)
       \/ screen = "sweeps"       /\ SweepResume(s)
       \/ screen = "servers"      /\ ServersResume(s)
       \/ screen = "settings"     /\ SettingsResume(s)
       \/ screen = "apikeys"      /\ KeysResume(s)
       \/ screen = "piirules"     /\ RulesResume(s)
       \/ screen = "piifunctions" /\ FunctionsResume(s)
       \/ screen = "feedback"     /\ FeedbackResume(s)
       \/ screen = "collections"  /\ CollectionsResume(s)
       \/ screen = "collection"   /\ CollectionResume(s)
       \/ screen = "config"       /\ ConfigResume(s)
       \/ screen = "docview"      /\ ViewResume(s)
       \/ screen = "builder"      /\ BuilderResume(s)
       \/ screen = "search"       /\ SearchResume(s)
       \/ screen = "profiles"     /\ ProfilesResume(s)
       \/ screen = "review"       /\ ReviewResume(s)
       \/ screen = "policy"       /\ PolicyResume(s)
       \/ screen = "routetest"    /\ RouteTestResume(s)
       \/ screen = "intake"       /\ IntakeResume(s)
       \/ screen = "analyze"      /\ AnalyzeResume(s)
       \/ screen = "history"      /\ HistoryResume(s)
       \/ screen = "explorer"     /\ ExplorerResume(s)
       \/ screen = "labeling"     /\ LabelingResume(s)
       \/ screen = "pipelines"    /\ PipelinesResume(s)
       \/ screen = "pipeline"     /\ PipelineResume(s)
       \/ screen = "playground"   /\ PlayResume(s)
       \/ screen = "chat"         /\ ChatResume(s)
       \/ screen = "ftjobs"       /\ FtJobsResume(s)
       \/ screen = "ftdatasets"   /\ FtDatasetsResume(s)
       \/ screen = "ftmodels"     /\ FtModelsResume(s)
       \/ screen = "ftjob"        /\ FtJobResume(s)
       \/ screen = "ftdataset"    /\ FtDatasetResume(s)
       \/ screen = "ftmodel"      /\ FtModelResume(s)
       \/ screen = "ftlabeling"   /\ FtLabelResume(s)
       \/ screen = "users"        /\ UsersResume(s)
       \/ screen = "files"        /\ FilesResume(s)

Next ==
    \/ Act
    \/ Interval
    \/ Elsewhere
    \/ \E s \in Slots : Serve(s) \/ Fault(s) \/ Continue(s)

\* A request is served or fails, a settled promise resumes, and an interval
\* fires again and again; users and workers may stop at any time.
Fairness ==
    /\ \A s \in Slots : WF_vars(Serve(s)) /\ WF_vars(Continue(s))
    /\ WF_vars(Interval)

Spec == Init /\ [][Next]_vars
FairSpec == Spec /\ Fairness

----------------------------------------------------------------------------
(* What the pages promise.                                                 *)

\* The flags that show a spinner or disable a control, with the requests that
\* lower them when they end.
Spinners ==
    CASE screen = "sources"      -> {<<ui.loading, {"list"}>>, <<ui.submitting, {"create", "update"}>>, <<ui.testing # None, {"test"}>>}
      [] screen = "watches"      -> {<<ui.loading, {"list"}>>, <<ui.submitting, {"create", "update", "list"}>>}
      [] screen = "picker"       -> {<<ui.loading, {"dir"}>>}
      [] screen = "jobs"         -> {<<ui.loading, {"load"}>>, <<ui.reindexing # None, {"reindex"}>>}
      [] screen = "polled"       -> {<<ui.loading, {"list"}>>}
      [] screen = "models"       -> {<<ui.loading, {"list"}>>, <<ui.submitting, {"create", "update"}>>}
      [] screen = "evals"        -> {<<ui.loading, {"list"}>>, <<ui.submitting, {"create", "update"}>>}
      [] screen = "eval"         -> {<<ui.running, {"run"}>>}
      [] screen = "sweeps"       -> {<<ui.creating, {"create", "list"}>>}
      [] screen = "servers"      -> {<<ui.loading, {"probes"}>>}
      [] screen = "settings"     -> {<<ui.loading, {"list"}>>, <<ui.saving, {"save"}>>, <<ui.testing # {}, {"check", "probe"}>>}
      [] screen = "apikeys"      -> {<<ui.admin /\ ui.loading, {"list"}>>, <<ui.submitting, {"create"}>>}
      [] screen = "piirules"     -> {<<ui.loading, {"list"}>>, <<ui.submitting, {"create", "update"}>>, <<ui.testing, {"probe"}>>}
      [] screen = "piifunctions" -> {<<ui.loading, {"list"}>>, <<ui.submitting, {"create", "update"}>>, <<ui.testing, {"probe"}>>}
      [] screen = "feedback"     -> {<<ui.loading, {"list"}>>, <<ui.adding, {"create"}>>, <<ui.submitting, {"promote"}>>}
      [] screen = "collections"  -> {<<ui.loading, {"list"}>>, <<ui.submitting, {"create"}>>, <<ui.testing, {"check", "models", "probe"}>>, <<ui.listing, {"models"}>>, <<ui.probing, {"probe"}>>}
      [] screen = "collection"   -> {<<ui.loading, {"list"}>>, <<ui.progress, {"upload", "list", "status"}>>, <<ui.reindexing, {"cfg", "list", "status"}>>, <<ui.del = "busy", {"destroy"}>>}
      [] screen = "config"       -> {<<ui.testing, {"check", "models"}>>, <<ui.listing, {"models"}>>}
      [] screen = "docview"      -> {<<ui.loading, {"load"}>>}
      [] screen = "builder"      -> {<<ui.busy # "no", {"preview", "save"}>>}
      [] screen = "search"       -> {<<ui.loading, {"search"}>>}
      [] screen = "profiles"     -> {<<ui.loading, {"list"}>>, <<ui.computing # None, {"recompute", "list"}>>}
      [] screen = "review"       -> {<<ui.loading, {"list"}>>, <<ui.busy # None, {"resolve", "list"}>>, <<ui.applying, {"apply", "rules"}>>}
      [] screen = "policy"       -> {<<ui.loading, {"list"}>>, <<ui.saving, {"save"}>>}
      [] screen = "routetest"    -> {<<ui.running, {"preview"}>>, <<ui.simulating, {"simulate"}>>}
      [] screen = "intake"       -> {<<ui.running, {"intake"}>>, <<ui.scanning # "no", {"scan"}>>}
      [] screen = "analyze"      -> {<<ui.phase = "extracting", {"extract"}>>, <<ui.phase = "analyzing", {"analyze"}>>}
      [] screen = "history"      -> {<<ui.loading, {"list"}>>, <<ui.dloading, {"detail"}>>, <<ui.analyzing, {"analyze", "end"}>>, <<ui.deleting, {"delete", "wipe", "bulk"}>>}
      [] screen = "explorer"     -> {<<ui.loading, {"images"}>>, <<ui.busy # "no", {"upload", "convert", "images", "kids", "remove"}>>}
      [] screen = "labeling"     -> {<<ui.loading, {"list"}>>, <<ui.ed # None /\ ui.ed.loading, {"load"}>>, <<ui.ed # None /\ ui.ed.saving, {"boxes", "meta"}>>, <<ui.ed # None /\ ui.ed.splitting, {"boxes", "meta", "crops"}>>, <<ui.ed # None /\ ui.ed.detecting, {"detect"}>>}
      [] screen = "pipelines"    -> {<<ui.loading, {"list"}>>, <<ui.submitting, {"create"}>>}
      [] screen = "pipeline"     -> {<<ui.fetching, {"evidence", "image"}>>}
      [] screen = "playground"   -> {<<ui.loading, {"search", "answer"}>>, <<ui.answered # None /\ ui.answered.fb = "busy", {"rate"}>>}
      [] screen = "chat"         -> {<<ui.streaming, {"hits", "token", "done"}>>, <<\E i \in DOMAIN ui.turns : ui.turns[i].fb = "busy", {"rate"}>>}
      [] screen = "ftjobs"       -> {<<ui.loading, {"list"}>>, <<ui.submitting, {"create", "list"}>>}
      [] screen = "ftdatasets"   -> {<<ui.loading, {"list"}>>, <<ui.submitting, {"create", "list"}>>}
      [] screen = "ftmodels"     -> {<<ui.loading, {"list"}>>, <<ui.submitting, {"create", "list"}>>}
      [] screen = "ftjob"        -> {<<ui.loading, {"list"}>>}
      [] screen = "ftdataset"    -> {<<ui.loading, {"load", "list"}>>, <<ui.submitting, {"create", "load", "list"}>>, <<ui.building, {"build", "load", "list"}>>, <<ui.mining, {"mine", "load", "list"}>>}
      [] screen = "ftmodel"      -> {<<ui.loading, {"list"}>>, <<ui.saving, {"save"}>>}
      [] screen = "ftlabeling"   -> {<<ui.searching, {"search"}>>, <<ui.saving, {"save"}>>}
      [] screen = "users"        -> {<<ui.loading, {"list"}>>}
      [] screen = "files"        -> {<<ui.loading, {"list"}>>, <<ui.busy, {"create", "rename", "delete", "upload", "list"}>>, <<"progress" \in ui.open /\ ~FilesAllDone, {"drop"}>>}
      [] OTHER -> {}

\* No spinner without a request behind it: every early return, error path and
\* overlapping request of the handlers lowers the flag it raised, so that no
\* control stays disabled and no page stays blank for ever.
SpinnersWaited == \A p \in Spinners : p[1] => InFlight(p[2]) # {}

\* The requests of a page that must not be sent twice at once.
Submits ==
    CASE screen = "sources"      -> {{"create", "update"}}
      [] screen = "watches"      -> {{"create", "update"}}
      [] screen = "jobs"         -> {{"reindex"}}
      [] screen = "models"       -> {{"create", "update"}}
      [] screen = "evals"        -> {{"create"}}
      [] screen = "eval"         -> {{"run"}}
      [] screen = "sweeps"       -> {{"create"}}
      [] screen = "settings"     -> {{"save"}}
      [] screen = "apikeys"      -> {{"create"}}
      [] screen = "piirules"     -> {{"create", "update"}}
      [] screen = "piifunctions" -> {{"create", "update"}}
      [] screen = "feedback"     -> {{"create"}, {"promote"}}
      [] screen = "collections"  -> {{"create"}, {"check"}}
      [] screen = "collection"   -> {{"cfg"}}
      [] screen = "config"       -> {{"check"}}
      [] screen = "builder"      -> {{"save", "preview"}}
      [] screen = "profiles"     -> {{"recompute"}}
      [] screen = "review"       -> {{"resolve"}, {"apply"}}
      [] screen = "policy"       -> {{"save"}}
      [] screen = "routetest"    -> {{"preview"}}
      [] screen = "intake"       -> {{"intake"}, {"scan"}}
      [] screen = "analyze"      -> {{"extract", "analyze"}}
      [] screen = "history"      -> {{"delete", "wipe", "bulk"}, {"analyze", "end"}}
      [] screen = "explorer"     -> {{"upload", "convert", "remove"}}
      [] screen = "pipelines"    -> {{"create"}}
      [] screen = "playground"   -> {{"search", "answer"}}
      [] screen = "chat"         -> {{"hits", "token", "done"}}
      [] screen = "ftjobs"       -> {{"create"}}
      [] screen = "ftdatasets"   -> {{"create"}}
      [] screen = "ftmodels"     -> {{"create"}}
      [] screen = "ftdataset"    -> {{"create"}, {"build"}, {"mine"}}
      [] screen = "ftmodel"      -> {{"save"}}
      [] screen = "ftlabeling"   -> {{"search"}, {"save"}}
      [] screen = "files"        -> {{"create", "rename", "delete", "upload"}}
      [] OTHER -> {}

\* A form is never submitted a second time while its first submission is out,
\* even when its dialog is closed and opened again meanwhile.
OneSubmitAtATime == \A K \in Submits : Cardinality(InFlight(K)) <= 1

\* The page's copy of the server's data is exact.
Current ==
    CASE screen = "sources"      -> ui.rows = db.rows
      [] screen = "watches"      -> ui.rows = db.rows
      [] screen = "jobs"         -> ui.shown = JobsListing(ui.q)
      [] screen = "models"       -> ui.rows = db.rows /\ ui.packs = db.packs
      [] screen = "evals"        -> ui.rows = db.rows
      [] screen = "eval"         -> ui.items = db.items /\ ui.runs = db.runs
      [] screen = "sweeps"       -> ui.rows = db.rows
      [] screen = "apikeys"      -> ui.admin => ui.rows = db.rows
      [] screen = "piirules"     -> ui.rows = db.rows
      [] screen = "piifunctions" -> ui.rows = db.rows
      [] screen = "feedback"     -> ui.rows = FeedbackMatch(db.rows, ui.listed)
      [] screen = "collections"  -> ui.rows = db.rows
      [] screen = "collection"   -> db.gone \/ (ui.rows = db.rows /\ ui.rerank = db.rerank)
      [] screen = "docview"      -> ViewExact
      [] screen = "search"       -> TRUE
      [] screen = "profiles"     -> ui.rows = db.rows
      [] screen = "review"       -> ui.moved = db.moved /\ \A r \in Present(ui.rows) : ui.rows[r] = db.rows[r]
      [] screen = "policy"       -> ui.policy = db.config
      [] screen = "analyze"      -> ui.hist = db.rows /\ \A r \in Present(ui.items) : ui.items[r].st = db.rows[r]
      [] screen = "history"      -> ui.rows = db.rows
      [] screen = "explorer"     -> ui.kids[""] = db.folders \ {""} /\ ui.items \subseteq ExplorerImages(ui.from)
      [] screen = "labeling"     -> ui.ed # None /\ ~ui.ed.bt /\ ~ui.ed.mt => ui.ed.boxes = db.imgs[ui.ed.img].boxes /\ ui.ed.meta = db.imgs[ui.ed.img].meta
      [] screen = "pipelines"    -> ui.rows = db.rows
      [] screen = "pipeline"     -> db.gone \/ (ui.p = PipelineOf(db) /\ ui.versions = Len(db.cfgs))
      [] screen = "ftjobs"       -> ui.rows = db.rows
      [] screen = "ftdatasets"   -> ui.rows = db.rows
      [] screen = "ftmodels"     -> ui.rows = db.rows
      [] screen = "ftjob"        -> ui.left \/ ui.job = db.job
      [] screen = "ftdataset"    -> ui.rows = db.rows /\ ui.count = FtCount(db.rows)
      [] screen = "ftmodel"      -> ui.left \/ ui.model = db.model
      [] screen = "users"        -> [users |-> ui.users, total |-> ui.total] = UsersListing(ui.at)
      [] screen = "files"        -> ~ui.admin \/ ui.two \/ ui.refresh \/ ui.shown = FilesListing(ui.of)
      [] OTHER -> TRUE

\* When nothing is in flight, nobody else has changed the data, nothing has
\* failed and no two answers were applied out of order, the page shows what the
\* server has: every handler that changes something also brings the page up to
\* date.
OwnWritesShown == (Idle(net) = Slots /\ evs = 0 /\ ~mixed) => Current

\* A panel's heading and its contents.
PanelMatches ==
    CASE screen = "picker"       -> ui.entries.dir = ui.prefix
      [] screen = "polled"       -> ui.data # None => ui.data.tab = ui.tab
      [] screen = "sweeps"       -> \A s \in InFlight({"apply"}) : net[s].a.run = net[s].a.id
      [] screen = "explorer"     -> (~ui.loading /\ evs = 0) => ui.from = ui.of
      [] screen = "files"        -> "ctxdelete" \in ui.open => ui.sel \subseteq {ui.ctx}
      [] OTHER -> TRUE

\* What a panel shows, or what its buttons act on, always belongs to the object
\* it is shown for, whatever order the answers come in.
PanelShowsSelection == PanelMatches

\* A polled page has caught up with the server.
Settled ==
    CASE screen = "watches"      -> ui.rows = db.rows
      [] screen = "jobs"         -> ui.q.page = 1 => ui.shown = JobsListing(ui.q)
      [] screen = "polled"       -> ui.data # None /\ ui.data.v = db[ui.tab]
      [] screen = "models"       -> \A r \in Rows : ui.packs[r] = "running" => db.packs[r] = "running"
      [] screen = "eval"         -> \A r \in Rows : RunActive(ui.runs[r]) => RunActive(db.runs[r])
      [] screen = "sweeps"       -> \A r \in Rows : RunActive(ui.rows[r]) => RunActive(db.rows[r])
      [] screen = "servers"      -> \A h \in ServerHosts : \/ h \in db.replicas /\ h \in ServerCards.replicas
                                           \/ [host |-> h, ok |-> db.probes[h]] \in ServerCards.probes
      [] screen = "collection"   -> ~ui.progress /\ ~ui.reindexing
      [] OTHER -> TRUE

\* Polling works: once users and workers come to rest, a polled page comes to
\* show the server's state and keeps showing it, whatever was lost, late or out
\* of order before.
ViewConverges == <>[]Settled

----------------------------------------------------------------------------
(* What single pages promise.                                              *)

\* Settings: when the platform is not (or no longer) Databricks, every field
\* holds what the administrator gave, however often the recommended values were
\* applied, the host changed or single fields were reverted meanwhile, and with
\* saves and reloads that fail.  Not promised once a save has succeeded after
\* the form changed under it, until the settings are reloaded: handleSave
\* forgets the previous values of the form that is then on screen, not of the
\* form it sent, and where the reload after it fails, switching back leaves the
\* recommended values.
SwitchBackRestores ==
    (screen = "settings" /\ ui.base # "databricks" /\ ~ui.moved) => ui.form = ui.own

\* Routing policy: the badge beside each stage of the draft says what the server
\* will do with a document that this stage alone matches.
BadgePredictsServer ==
    (screen = "policy" /\ ui.draft # None) =>
        \A i \in DOMAIN ui.draft.stages : StageSoloOutcome(ui.draft, i) = RunPolicy(ui.draft, i)

\* Labelling: no two boxes of an image carry the same number, so that an edit, a
\* deletion or a saved label means one box.
BoxNumbersUnique ==
    (screen = "labeling" /\ ui.ed # None) =>
        \A b, c \in ui.ed.boxes : b.seq = c.seq => b = c

\* Canvas: whatever is dragged, resized or moved with the keys, a box lies inside
\* its image and is not smaller than MIN_BOX.
BoxInsideImage ==
    (screen = "canvas" /\ ui.box # None) =>
        ui.box.x2 <= CanvasW /\ ui.box.x1 + MinBox <= ui.box.x2

\* Fine-tuning labels: no saved example uses one chunk as its positive and as a
\* negative, in whatever order the marks were set and searches answered.
ExamplesContrast ==
    screen = "ftlabeling" => \A e \in db.saved : e.pos \notin e.neg

----------------------------------------------------------------------------
(* Promises of comments and labels of the code that the pages do not keep. *)
(* ConsoleAutosave has the counterexample of the first; listing any other  *)
(* as an invariant with Screens set to its page gives its own, in a few    *)
(* steps.                                                                  *)

\* Labelling: once the editor has nothing left to save and nothing failed, the
\* server has every image the way the user last left it.
EditsReachServer ==
    (screen = "labeling" /\ Idle(net) = Slots /\ evs = 0 /\ ui.ed # None /\ ~ui.ed.bt) =>
        \A r \in Rows : db.imgs[r].boxes = ui.drawn[r]

\* Users: the bulk actions apply to the users whose boxes are checked.
SelectedAreChecked ==
    screen = "users" => ui.selected = UsersChecked(ui.checks)

\* Feedback: the table shows the rows of the filter that is set.
FilterKept ==
    (screen = "feedback" /\ Idle(net) = Slots /\ evs = 0) => ui.listed = ui.filter

\* The creation form of a collection: an embedding server counts as tested only
\* if the server that is selected now passed the test.
TestedIsThisServer ==
    (screen = "collections" /\ ui.form.tested) => ui.at = ui.form.url

\* Labelling: the label a completion writes has the boxes of the editor.
CompletedIsLatest ==
    (screen = "labeling" /\ Idle(net) = Slots /\ evs = 0 /\ ui.ed # None /\ ~ui.ed.bt) =>
        \A r \in Rows : db.imgs[r].status = "completed" => db.imgs[r].label = ui.drawn[r]

\* Explorer: the images on display are those of the folder in the path bar.
FolderShown ==
    (screen = "explorer" /\ Idle(net) = Slots /\ evs = 0) => ui.from = ui.cur

\* History: the images on display, and the results written on them, are of the
\* run that is open.
DetailIsOpenRun ==
    (screen = "history" /\ ui.sel # None /\ ui.detail # None) =>
        ui.detail.id = ui.sel /\ ui.detail.by = ui.sel

\* Chat: the answer that streams in always has a turn to go to, as the handlers
\* of its events assume.
StreamHasItsTurn == screen = "chat" => ~ui.broken

\* Playground and chat: a rating is filed under the collection whose answer it
\* rates.
FeedbackOnItsCollection ==
    screen \in {"playground", "chat"} => \A s \in InFlight({"rate"}) : net[s].a.of = {net[s].a.col}

\* Collection: the upload button waits for the upload that is out.  (A reindexing
\* that ends meanwhile lowers the flag they share.)
UploadsOneByOne == screen = "collection" => Cardinality(InFlight({"upload"})) <= 1

\* Users: the rows on display are those of the filters that were applied last.
FiltersPreserved ==
    (screen = "users" /\ Idle(net) = Slots /\ evs = 0) => ui.at.f = ui.applied
=============================================================================
