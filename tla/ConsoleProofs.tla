--------------------------- MODULE ConsoleProofs ---------------------------
(***************************************************************************)
(* What single pages of the console promise, proved for any rows, any      *)
(* number of requests in flight and any number of clicks, failures and     *)
(* foreign changes.  Each theorem has an invariant of its page, which      *)
(* speaks of the page's state, of the requests in flight and of the        *)
(* server's data; that no step swaps the page (PageStays) lets it be shown *)
(* for the steps of that page alone.                                       *)
(* The last part is about the pages with a panel for one selected object.  *)
(***************************************************************************)
EXTENDS Console, FiniteSetTheorems, SequenceTheorems, WellFoundedInduction, TLAPS

----------------------------------------------------------------------------
(* Every step of every page leaves the page mounted.                       *)

\* No handler, timer, continuation or event of any page changes which page is
\* mounted (every form a step has leaves screen alone).
LEMMA PageStep ==
    ASSUME NEW s \in Slots,
           Act \/ Interval \/ Elsewhere \/ Continue(s) \/ Serve(s) \/ Fault(s)
    PROVE  screen' = screen
<1>1. (SourcesUser \/ SourcesWorld \/ SourcesResume(s)) => screen' = screen
  BY Zenon DEF SourcesUser, AskDelete, CloseForm, KeepRow, SourcesConfirmDelete, DeleteRow,
    SourcesOpenEdit, OpenForm, SourcesOpenNew, SourcesSubmit, SubmitForm, SourcesTest,
    SourcesToggle, ToggleRow, TypeForm, SourcesWorld, SourcesResume, SourcesDeleted, Deleted,
    Refresh, SourcesRefreshed, Listed, SourcesSaved, Saved, SourcesTested, SourcesToggled,
    Toggled, User, Ask, Resume, World
<1>2. (WatchesUser \/ WatchesPoll \/ WatchesWorld \/ WatchesResume(s)) => screen' = screen
  BY Zenon DEF WatchesUser, AskDelete, TypeForm, WatchesClose, WatchesConfirmDelete, DeleteRow,
    WatchesOpenEdit, OpenForm, WatchesOpenNew, WatchesOpenRuns, WatchesRunNow, WatchesSubmit,
    SubmitForm, WatchesToggle, ToggleRow, WatchesPoll, WatchesWorld, WatchesResume,
    WatchesChanged, WatchesListed, WatchesRuns, WatchesSaved, User, Ask, Resume, Fire, World,
    Tick
<1>3. (PickerUser \/ PickerResume(s)) => screen' = screen
  BY Zenon DEF PickerUser, PickerChoose, PickerLoad, PickerOpen, PickerResume, PickerListed,
    User, Ask, Resume
<1>4. (JobsUser \/ JobsPoll \/ JobsWorld \/ JobsResume(s)) => screen' = screen
  BY Zenon DEF JobsUser, JobsAskReindex, JobsDoReindex, JobsFilter, JobsKeep, JobsRefresh,
    JobsTurn, JobsPoll, JobsWorld, JobsResume, JobsLoaded, JobsReindexed, User, Ask, Resume,
    Fire, World, Tick
<1>5. (PolledUser \/ PolledPoll \/ PolledWorld \/ PolledResume(s)) => screen' = screen
  BY Zenon DEF PolledUser, PolledRefresh, PolledSwitch, PolledPoll, PolledWorld, PolledResume,
    PolledListed, Ask, Resume, Fire, World, Tick
<1>6. (ModelsUser \/ ModelsPoll \/ ModelsWorld \/ ModelsResume(s)) => screen' = screen
  BY Zenon DEF ModelsUser, ModelsAskDelete, AskDelete, ModelsAskPack, ModelsConfirmDelete,
    DeleteRow, ModelsConfirmPack, ModelsKeep, ModelsOnline, ModelsOpenEdit, OpenForm,
    ModelsOpenNew, ModelsReload, ModelsSubmit, SubmitForm, ModelsToggle, ToggleRow, TypeForm,
    ModelsPoll, ModelsWorld, ModelsResume, ModelsDeleted, Deleted, Refresh, ModelsListed,
    Listed, ModelsPacked, ModelsPolled, ModelsSaved, Saved, ModelsToggled, Toggled, User, Ask,
    Resume, Fire, World, Tick
<1>7. (EvalsUser \/ EvalsResume(s)) => screen' = screen
  BY Zenon DEF EvalsUser, CloseForm, EvalsCreate, SubmitForm, EvalsOpen, OpenForm, TypeForm,
    EvalsResume, EvalsCreated, Saved, Refresh, EvalsListed, Listed, User, Ask, Resume
<1>8. (EvalUser \/ EvalPoll \/ EvalWorld \/ EvalResume(s)) => screen' = screen
  BY Zenon DEF EvalUser, EvalAdd, EvalDialogs, EvalOpenResults, EvalRemove, EvalRun, EvalPoll,
    EvalWorld, EvalResume, EvalItemsChanged, EvalLoaded, EvalPolled, EvalResults, EvalStarted,
    User, Ask, Resume, Fire, World, Tick
<1>9. (SweepUser \/ SweepPoll \/ SweepWorld \/ SweepResume(s)) => screen' = screen
  BY Zenon DEF SweepUser, SweepApply, SweepCancel, SweepChip, SweepCreate, SweepExpand,
    SweepPoll, SweepWorld, SweepResume, SweepBoarded, SweepCanceled, SweepCreated, SweepListed,
    User, Ask, Resume, Fire, World, Tick
<1>10. (ServersUser \/ ServersPoll \/ ServersWorld \/ ServersResume(s)) => screen' = screen
  BY Zenon DEF ServersUser, ServersPoll, ServersWorld, ServersResume, Ask, Resume, Fire, World
<1>11. (SettingsUser \/ SettingsResume(s)) => screen' = screen
  BY Zenon DEF SettingsUser, SettingsApply, SettingsBase, SettingsHost, SettingsRevert,
    SettingsSave, SettingsTest, SettingsType, SettingsResume, SettingsLoaded, SettingsSaved,
    Refresh, SettingsTested, User, Ask, Resume
<1>12. (KeysUser \/ KeysResume(s)) => screen' = screen
  BY Zenon DEF KeysUser, AskDelete, CloseForm, KeepRow, KeysHandleCreate, SubmitForm,
    KeysHandleDelete, DeleteRow, KeysHandleToggle, ToggleRow, KeysHideSecret, KeysOpen,
    OpenForm, TypeForm, KeysResume, KeysCreated, Refresh, KeysDeleted, Deleted, KeysListed,
    Listed, KeysToggled, User, Ask, Resume
<1>13. (RulesUser \/ RulesResume(s)) => screen' = screen
  BY Zenon DEF RulesUser, AskDelete, CloseForm, KeepRow, RulesConfirmDelete, DeleteRow,
    RulesHandleSubmit, SubmitForm, RulesOpenEdit, OpenForm, RulesOpenNew, RulesRunTest,
    RulesToggle, ToggleRow, TypeForm, RulesResume, RulesDeleted, Deleted, Refresh, RulesListed,
    Listed, RulesSaved, Saved, RulesTested, RulesToggled, Toggled, User, Ask, Resume
<1>14. (FunctionsUser \/ FunctionsResume(s)) => screen' = screen
  BY Zenon DEF FunctionsUser, AskDelete, CloseForm, FunctionsConfirmDelete, DeleteRow,
    FunctionsHandleSubmit, SubmitForm, FunctionsOpenEdit, FunctionsOpenNew, FunctionsRunTest,
    FunctionsToggle, ToggleRow, KeepRow, TypeForm, FunctionsResume, FunctionsDeleted, Deleted,
    Refresh, FunctionsListed, Listed, FunctionsSaved, Saved, FunctionsTested, FunctionsToggled,
    Toggled, User, Ask, Resume
<1>15. (FeedbackUser \/ FeedbackResume(s)) => screen' = screen
  BY Zenon DEF FeedbackUser, FeedbackAskDelete, AskDelete, FeedbackClose, FeedbackConfirmDelete,
    FeedbackDismiss, FeedbackFilter, FeedbackManualAdd, FeedbackOpenAdd, FeedbackOpenPromote,
    FeedbackPromote, FeedbackTypeAdd, FeedbackResume, FeedbackAdded, FeedbackChanged,
    FeedbackDatasets, FeedbackListed, FeedbackPromoted, User, Ask, Resume
<1>16. (CollectionsUser \/ CollectionsResume(s)) => screen' = screen
  BY Zenon DEF CollectionsUser, ChooseProvider, CollectionsClose, CollectionsCreate,
    CollectionsOpen, CollectionsPage, DetectDim, LoadServerModels, OnRerankerChange,
    OnServerUrlChange, PickModel, TestServer, CollectionsResume, CollectionsCreated,
    CollectionsListed, Listed, DimDetected, LocalsLoaded, ModelsLoaded, RerankersLoaded,
    ServerTested, User, Ask, Resume
<1>17. (CollectionUser \/ CollectionWorld \/ CollectionResume(s)) => screen' = screen
  BY Zenon DEF CollectionUser, CollectionClose, CollectionConfirm, CollectionDestroy,
    CollectionOpenConfig, CollectionReindex, CollectionReranker, CollectionRunConfirm,
    CollectionUpload, CollectionWorld, CollectionResume, CollectionConfigured, CollectionFinish,
    CollectionRefresh, CollectionDeleted, CollectionDestroyed, CollectionListed,
    CollectionPolled, CollectionReindexed, CollectionReranked, CollectionRerankers,
    CollectionUploaded, User, Ask, Resume, World
<1>18. (ConfigUser \/ ConfigResume(s)) => screen' = screen
  BY Zenon DEF ConfigUser, ConfigClose, ConfigLoadModels, ConfigOpen, ConfigPick,
    ConfigProvider, ConfigTest, ConfigUrl, ConfigResume, ConfigLocals, ConfigModels,
    ConfigTested, User, Ask, Resume
<1>19. (ViewUser \/ ViewTimer \/ ViewResume(s)) => screen' = screen
  BY Zenon DEF ViewUser, ViewApplyForm, ViewClose, ViewGoPage, ViewOpen, ViewTimer, ViewResume,
    ViewLoaded, User, Ask, Resume
<1>20. (BuilderUser \/ BuilderResume(s)) => screen' = screen
  BY Zenon DEF BuilderUser, AddStage, SetStages, BuilderDocument, BuilderRunPreview,
    BuilderSave, CaptionToggle, MoveStage, RemoveStage, BuilderResume, BuilderPreviewed,
    BuilderSaved, User, Ask, Resume
<1>21. (SearchUser \/ SearchResume(s)) => screen' = screen
  BY Zenon DEF SearchUser, RunSearch, SearchMode, SearchType, SearchResume, Searched, User, Ask,
    Resume
<1>22. (ProfilesUser \/ ProfilesWorld \/ ProfilesResume(s)) => screen' = screen
  BY Zenon DEF ProfilesUser, ProfilesRecompute, ProfilesWorld, ProfilesResume, ProfilesListed,
    ProfilesRecomputed, Ask, Resume, World
<1>23. (ReviewUser \/ ReviewResume(s)) => screen' = screen
  BY Zenon DEF ReviewUser, ReviewApply, ReviewResolve, ReviewShowAll, ReviewResume,
    ReviewApplied, ReviewListed, ReviewResolved, ReviewRules, Ask, Resume
<1>24. (PolicyUser \/ PolicyResume(s)) => screen' = screen
  BY Zenon DEF PolicyUser, PolicyAddStage, PolicyDraft, PolicyDiscard, PolicyMode,
    PolicyMoveStage, PolicyPatchStage, PolicyReview, PolicyRemoveStage, PolicyRollback, PolicySave,
    PolicyResume, PolicyLoaded, PolicyRolledBack, Refresh, PolicySaved, User, Ask, Resume
<1>25. (RouteTestUser \/ RouteTestResume(s)) => screen' = screen
  BY Zenon DEF RouteTestUser, RouteTestFile, RouteTestPath, RouteTestRun, RouteTestRunPathSim,
    RouteTestResume, RouteTested, User, Ask, Resume
<1>26. (IntakeUser \/ IntakeResume(s)) => screen' = screen
  BY Zenon DEF IntakeUser, IntakeFile, IntakeFinish, IntakePrefix, IntakeRun, IntakeSource,
    IntakeResume, IntakeDone, IntakeScanned, User, Ask, Resume
<1>27. (AnalyzeUser \/ AnalyzeResume(s)) => screen' = screen
  BY Zenon DEF AnalyzeUser, AnalyzeClear, AnalyzeFiles, AnalyzeStart, AnalyzePanel, AnalyzeRun,
    AnalyzeToggle, AnalyzeUrl, AnalyzeResume, AnalyzeExtracted, AnalyzeBatchDone, AnalyzeItem,
    AnalyzeListed, User, Ask, Resume
<1>28. (HistoryUser \/ HistoryResume(s)) => screen' = screen
  BY Zenon DEF HistoryUser, HistoryAskBulk, HistoryAskDelete, HistoryBack, HistoryBulk,
    HistoryDelete, HistoryKeep, HistoryOpen, HistoryPick, HistoryReanalyze, HistoryRefresh,
    HistoryReload, HistoryTick, HistoryWipe, HistoryResume, HistoryAnalyzed, Refresh,
    HistoryBulked, HistoryDeleted, HistoryDetail, HistoryItem, HistoryListed, HistoryWiped,
    User, Ask, Resume
<1>29. (ExplorerUser \/ ExplorerResume(s)) => screen' = screen
  BY Zenon DEF ExplorerUser, ExplorerAskDelete, ExplorerBack, ExplorerCancel,
    ExplorerCloseConfirm, ExplorerCloseFolder, ExplorerDeleteFolder, ExplorerDeleteImages,
    ExplorerExpand, ExplorerLoadMore, ExplorerNewFolder, ExplorerSelect, ExplorerSubmitFolder,
    ExplorerToggle, ExplorerTransfer, ExplorerResume, ExplorerFolderGone, ExplorerKids,
    ExplorerLoaded, ExplorerMade, ExplorerRemoved, ExplorerTransferred, User, Ask, Resume, Fire
<1>30. (LabelingUser \/ EditorTimer \/ LabelingResume(s)) => screen' = screen
  BY Zenon DEF LabelingUser, EditorAccept, EditorNew, EditorDrawn, EditorBegin, EditorSet,
    EditorCancel, EditorCommit, EditorDelete, EditorDetect, EditorDraw, EditorImport,
    EditorJson, EditorFlush, EditorKey, EditorReject, EditorRenumber, EditorSave, EditorSelect,
    EditorSplit, EditorStatus, EditorText, LabelingSelect, EditorTimer, LabelingResume,
    EditorBoxesSaved, EditorDetected, EditorExported, EditorLoaded, EditorMetaSaved,
    EditorStatusSet, LabelingListed, User, Ask, Resume, Fire, Tick
<1>31. CanvasUser => screen' = screen
  BY Zenon DEF CanvasUser, CanvasBoxDown, CanvasKey, CanvasMove, CanvasStageDown, CanvasUp, User
<1>32. (PipelinesUser \/ PipelinesResume(s)) => screen' = screen
  BY Zenon DEF PipelinesUser, PipelinesResume, Listed, PipelinesCreated, Refresh, User, Ask,
    Resume
<1>33. (PipelineUser \/ PipelineResume(s)) => screen' = screen
  BY Zenon DEF PipelineUser, ApplyPreset, HandleActivate, HandleCompare, HandleDiff, HandleSave,
    HandleStageChange, OriginalViewButton, PipelineChoose, PipelineDelete, SetModel, SetR,
    PipelineResume, PipelineCompared, PipelineDiffed, PipelineEvidence, PipelineGone,
    PipelineGot, PipelineImage, PipelineSaved, PipelineReload, PipelineShown, PipelineStaged,
    User, Ask, Resume
<1>34. (PlayUser \/ PlayResume(s)) => screen' = screen
  BY Zenon DEF PlayUser, PlayChoose, PlayFeedback, PlayRun, PlayResume, PlayAnswered,
    PlayCollections, PlayPipelines, PlayRated, PlaySearched, User, Ask, Resume
<1>35. (ChatUser \/ ChatResume(s)) => screen' = screen
  BY Zenon DEF ChatUser, ChatClear, ChatFeedback, ChatSend, ChatResume, ChatDone, ChatEnd,
    ChatHits, ChatRead, ChatRated, ChatToken, PlayCollections, PlayPipelines, User, Ask, Resume
<1>36. (FtJobsUser \/ FtJobsResume(s)) => screen' = screen
  BY Zenon DEF FtJobsUser, FtDialog, FtJobsSubmit, FtSubmit, FtJobsResume, FtListResume,
    FtCreated, FtListed, User, Ask, Resume
<1>37. (FtDatasetsUser \/ FtDatasetsResume(s)) => screen' = screen
  BY Zenon DEF FtDatasetsUser, FtDatasetsSubmit, FtSubmit, FtDialog, FtDatasetsResume,
    FtListResume, FtCreated, FtListed, User, Ask, Resume
<1>38. (FtModelsUser \/ FtModelsResume(s)) => screen' = screen
  BY Zenon DEF FtModelsUser, FtDialog, FtModelsSubmit, FtSubmit, FtModelsResume, FtListResume,
    FtCreated, FtListed, User, Ask, Resume
<1>39. (FtJobUser \/ FtJobWorld \/ FtJobResume(s)) => screen' = screen
  BY Zenon DEF FtJobUser, FtJobWorld, FtJobResume, FtJobCanceled, FtJobLeft, FtJobLoaded, Ask,
    Resume, World
<1>40. (FtDatasetUser \/ FtDatasetResume(s)) => screen' = screen
  BY Zenon DEF FtDatasetUser, FtAddExample, FtBuild, FtDropExample, FtExport, FtMine,
    FtOpenBuild, FtDatasetResume, FtBuildOpens, FtCounted, FtDone, FtReload, FtDropped, FtGot,
    FtShown, User, Ask, Resume
<1>41. (FtModelUser \/ FtModelResume(s)) => screen' = screen
  BY Zenon DEF FtModelUser, FtModelResume, FtJobLeft, FtModelLoaded, FtModelSaved, User, Ask,
    Resume
<1>42. (FtLabelUser \/ FtLabelResume(s)) => screen' = screen
  BY Zenon DEF FtLabelUser, MarkPositive, OnSave, OnSearch, ToggleNegative, FtLabelResume,
    FtLabelLists, FtLabelSaved, FtLabelSearched, User, Ask, Resume
<1>43. (UsersUser \/ UsersTimer \/ UsersResume(s)) => screen' = screen
  BY Zenon DEF UsersUser, HandleCheckUsername, HandleConfirm, HandleDelete, UsersAdd,
    UsersClose, UsersEdit, UsersOpen, UsersOpenRow, UsersPassword, UsersTable, HandleSetPage,
    LoadUsers, HandleSetPageSize, SearchUsers, UsersCheck, UsersType, UsersTimer, UsersResume,
    UsersBulked, RefreshUsers, UsersExists, UsersListed, UsersModified, UsersNameChecked,
    UsersWritten, User, Ask, Resume, Fire
<1>44. (FilesUser \/ FilesResume(s)) => screen' = screen
  BY Zenon DEF FilesUser, FilesDialogs, FilesChoose, FilesClose, FilesDelete, FilesCall,
    HandleCreateFolder, HandleRename, HandleUpload, FilesPopState, NavigateTo, FilesTable,
    FilesToggle, FilesToggleAll, HandleContextAction, FilesDownload, FilesToolbar, HandleDrop,
    HandleUploadProgressClose, FilesResume, FilesDone, FilesDropped, FilesListed, FilesUploaded,
    User, Ask, Resume
<1>45. CASE Act
  BY <1>45, <1>1, <1>2, <1>3, <1>4, <1>5, <1>6, <1>7, <1>8, <1>9, <1>10, <1>11, <1>12, <1>13,
    <1>14, <1>15, <1>16, <1>17, <1>18, <1>19, <1>20, <1>21, <1>22, <1>23, <1>24, <1>25, <1>26,
    <1>27, <1>28, <1>29, <1>30, <1>31, <1>32, <1>33, <1>34, <1>35, <1>36, <1>37, <1>38, <1>39,
    <1>40, <1>41, <1>42, <1>43, <1>44 DEF Act
<1>46. CASE Interval
  BY <1>46, <1>2, <1>4, <1>5, <1>6, <1>8, <1>9, <1>10, <1>19, <1>30, <1>43 DEF Interval
<1>47. CASE Elsewhere
  BY <1>47, <1>1, <1>2, <1>4, <1>5, <1>6, <1>8, <1>9, <1>10, <1>17, <1>22, <1>39 DEF Elsewhere
<1>48. CASE Continue(s)
  BY <1>48, <1>1, <1>2, <1>3, <1>4, <1>5, <1>6, <1>7, <1>8, <1>9, <1>10, <1>11, <1>12, <1>13,
    <1>14, <1>15, <1>16, <1>17, <1>18, <1>19, <1>20, <1>21, <1>22, <1>23, <1>24, <1>25, <1>26,
    <1>27, <1>28, <1>29, <1>30, <1>32, <1>33, <1>34, <1>35, <1>36, <1>37, <1>38, <1>39, <1>40,
    <1>41, <1>42, <1>43, <1>44 DEF Continue
<1>49. CASE Serve(s) \/ Fault(s)
  BY <1>49 DEF Serve, Fault
<1> QED
  BY <1>45, <1>46, <1>47, <1>48, <1>49

\* There is room for a request.
LEMMA SomeSlot == 1 \in Slots
BY BrowserAssumption DEF Slots

LEMMA PageStays == ASSUME [Next]_vars PROVE screen' = screen
BY PageStep, SomeSlot DEF Next, vars

----------------------------------------------------------------------------
(* The canvas: the code clamps each drag against the box it began with, so *)
(* that box must be inside the image too, and a drag must begin and end    *)
(* inside it.                                                              *)

Inside(b) ==
    /\ b.x1 \in Nat /\ b.x2 \in Nat
    /\ b.x1 + MinBox <= b.x2 /\ b.x2 <= CanvasW

CanvasInv ==
    screen = "canvas" =>
        /\ ui = [box |-> ui.box, draft |-> ui.draft, drag |-> ui.drag]
        /\ ui.box # None => Inside(ui.box)
        /\ ui.drag # None =>
              /\ ui.drag.at \in 0..CanvasW
              /\ ui.drag.mode = "create" => ui.draft.x1 \in 0..CanvasW /\ ui.draft.x2 \in 0..CanvasW
              /\ ui.drag.mode # "create" => Inside(ui.drag.o)

\* All that the proof uses of the two sizes.
LEMMA CanvasSizes == CanvasW \in Nat /\ MinBox \in Nat /\ MinBox <= CanvasW
BY DEF CanvasW, MinBox

\* toImg clamps the pointer to the image.
LEMMA ToImgInside == ASSUME NEW p \in Pointers PROVE ToImg(p) \in 0..CanvasW
BY CanvasSizes DEF Pointers, ToImg, Least

\* A box that is moved stays inside the image, as wide as it was.
LEMMA ShiftedInside ==
    ASSUME NEW o, Inside(o), NEW to \in Nat, NEW at \in Nat
    PROVE  Inside(Shifted(o, to, at))
BY CanvasSizes DEF Inside, Shifted, Span, Least, Most

\* A box that is resized stays inside the image and keeps the least size.
LEMMA ResizedInside ==
    ASSUME NEW o, Inside(o), NEW to \in Nat, NEW at \in Nat
    PROVE  Inside(Resized(o, to, at))
BY CanvasSizes DEF Inside, Resized, Span, Least, Most

\* On the canvas nothing happens but what the user does.
LEMMA CanvasSteps ==
    ASSUME screen = "canvas", [Next]_vars
    PROVE  CanvasUser \/ UNCHANGED ui
BY DEF Next, Act, Interval, Elsewhere, Continue, Serve, Fault, vars

LEMMA CanvasStep ==
    ASSUME screen = "canvas", CanvasInv, CanvasUser
    PROVE  CanvasInv'
<1>1. /\ ui = [box |-> ui.box, draft |-> ui.draft, drag |-> ui.drag]
      /\ ui.box # None => Inside(ui.box)
      /\ ui.drag # None =>
              /\ ui.drag.at \in 0..CanvasW
              /\ ui.drag.mode = "create" => ui.draft.x1 \in 0..CanvasW /\ ui.draft.x2 \in 0..CanvasW
              /\ ui.drag.mode # "create" => Inside(ui.drag.o)
  BY DEF CanvasInv
<1>2. ASSUME NEW p \in Pointers, CanvasStageDown(p)
      PROVE  CanvasInv'
  <2>1. ToImg(p) \in 0..CanvasW
    BY ToImgInside
  <2>2. /\ ui'.box = ui.box
        /\ ui'.drag = [mode |-> "create", at |-> ToImg(p), o |-> None]
        /\ ui'.draft = [x1 |-> ToImg(p), x2 |-> ToImg(p)]
        /\ ui' = [box |-> ui'.box, draft |-> ui'.draft, drag |-> ui'.drag]
    BY <1>1, <1>2 DEF CanvasStageDown, User, Span
  <2> QED
    BY <1>1, <2>1, <2>2 DEF CanvasInv, Inside
<1>3. ASSUME NEW p \in Pointers, NEW mode \in {"move", "resize"}, CanvasBoxDown(p, mode)
      PROVE  CanvasInv'
  <2>1. ToImg(p) \in 0..CanvasW
    BY ToImgInside
  <2>2. /\ ui'.box = ui.box
        /\ ui'.drag = [mode |-> mode, at |-> ToImg(p), o |-> ui.box]
        /\ ui' = [box |-> ui'.box, draft |-> ui'.draft, drag |-> ui'.drag]
    BY <1>1, <1>3 DEF CanvasBoxDown, User
  <2>3. Inside(ui.box)
    BY <1>1, <1>3 DEF CanvasBoxDown
  <2> QED
    BY <1>1, <2>1, <2>2, <2>3 DEF CanvasInv, Inside
<1>4. ASSUME NEW p \in Pointers, CanvasMove(p)
      PROVE  CanvasInv'
  <2>1. ToImg(p) \in 0..CanvasW /\ ToImg(p) \in Nat
    BY ToImgInside
  <2>2. ui.drag # None /\ ui.drag.at \in 0..CanvasW /\ ui.drag.at \in Nat
    BY <1>1, <1>4 DEF CanvasMove
  <2>3. CASE ui.drag.mode = "create"
    <3>1. /\ ui'.box = ui.box /\ ui'.drag = ui.drag
          /\ ui'.draft = [x1 |-> ui.drag.at, x2 |-> ToImg(p)]
          /\ ui' = [box |-> ui'.box, draft |-> ui'.draft, drag |-> ui'.drag]
      BY <1>1, <1>4, <2>3 DEF CanvasMove, User, Span
    <3> QED
      BY <1>1, <2>1, <2>2, <2>3, <3>1 DEF CanvasInv, Inside
  <2>4. CASE ui.drag.mode # "create"
    <3>1. Inside(ui.drag.o)
      BY <1>1, <2>2, <2>4
    <3>2. Inside(Shifted(ui.drag.o, ToImg(p), ui.drag.at))
      BY <2>1, <2>2, <3>1, ShiftedInside
    <3>3. Inside(Resized(ui.drag.o, ToImg(p), ui.drag.at))
      BY <2>1, <2>2, <3>1, ResizedInside
    <3>4. /\ \/ ui'.box = Shifted(ui.drag.o, ToImg(p), ui.drag.at)
             \/ ui'.box = Resized(ui.drag.o, ToImg(p), ui.drag.at)
          /\ ui'.drag = ui.drag
          /\ ui' = [box |-> ui'.box, draft |-> ui'.draft, drag |-> ui'.drag]
      BY <1>1, <1>4, <2>4 DEF CanvasMove, User
    <3>5. Inside(ui'.box)
      BY <3>2, <3>3, <3>4
    <3> QED
      BY <1>1, <2>2, <2>4, <3>1, <3>4, <3>5 DEF CanvasInv, Inside
  <2> QED
    BY <2>3, <2>4
<1>5. CASE CanvasUp
  <2>1. ui'.drag = None /\ ui' = [box |-> ui'.box, draft |-> ui'.draft, drag |-> ui'.drag]
    BY <1>1, <1>5 DEF CanvasUp, User
  <2>2. ui'.box # None => Inside(ui'.box)
    <3>1. CASE ui'.box = ui.box
      BY <1>1, <3>1
    <3>2. CASE ui'.box # ui.box
      <4> DEFINE x1 == Least(ui.draft.x1, ui.draft.x2)
                 x2 == Most(ui.draft.x1, ui.draft.x2)
      <4>1. ui.drag # None /\ ui.drag.mode = "create" /\ x2 - x1 >= MinBox /\ ui'.box = [x1 |-> x1, x2 |-> x2]
        BY <1>1, <1>5, <3>2 DEF CanvasUp, User, Span
      <4>2. ui.draft.x1 \in 0..CanvasW /\ ui.draft.x2 \in 0..CanvasW
        BY <1>1, <4>1
      <4>3. x1 \in Nat /\ x2 \in Nat /\ x2 <= CanvasW
        BY <4>2, CanvasSizes DEF Least, Most
      <4> HIDE DEF x1, x2
      <4> QED
        BY <4>1, <4>3, CanvasSizes DEF Inside
    <3> QED
      BY <3>1, <3>2
  <2> QED
    BY <2>1, <2>2 DEF CanvasInv, Inside
<1>6. ASSUME NEW step \in {1, 3}, NEW right \in BOOLEAN, CanvasKey(step, right)
      PROVE  CanvasInv'
  <2>1. Inside(ui.box)
    BY <1>1, <1>6 DEF CanvasKey
  <2>2. Inside(Shifted(ui.box, step, 0)) /\ Inside(Shifted(ui.box, 0, step))
    BY <2>1, ShiftedInside
  <2>3. /\ ui'.box = Shifted(ui.box, step, 0) \/ ui'.box = Shifted(ui.box, 0, step)
        /\ ui'.drag = ui.drag /\ ui'.draft = ui.draft
        /\ ui' = [box |-> ui'.box, draft |-> ui'.draft, drag |-> ui'.drag]
    BY <1>1, <1>6 DEF CanvasKey, User
  <2>4. Inside(ui'.box)
    BY <2>2, <2>3
  <2> QED
    BY <1>1, <2>3, <2>4 DEF CanvasInv, Inside
<1> QED
  BY <1>2, <1>3, <1>4, <1>5, <1>6 DEF CanvasUser

\* Whatever is dragged, resized or moved with the keys, in whatever order and
\* also when keys are pressed during a drag, a box lies inside its image and is
\* at least MIN_BOX wide (box-canvas.tsx clamps every change).
THEOREM BoxesStayInside == Spec => []BoxInsideImage
<1>1. Init => CanvasInv
  BY DEF Init, CanvasInv, CanvasUi
<1>2. CanvasInv /\ [Next]_vars => CanvasInv'
  <2> SUFFICES ASSUME CanvasInv, [Next]_vars PROVE CanvasInv'
    OBVIOUS
  <2>1. CASE screen = "canvas"
    <3>1. CASE CanvasUser
      BY <2>1, <3>1, CanvasStep
    <3>2. CASE UNCHANGED ui
      BY <2>1, <3>2 DEF CanvasInv, Inside
    <3> QED
      BY <2>1, <3>1, <3>2, CanvasSteps
  <2>2. CASE screen # "canvas"
    BY <2>2, PageStays DEF CanvasInv
  <2> QED
    BY <2>1, <2>2
<1>3. CanvasInv => BoxInsideImage
  BY DEF CanvasInv, BoxInsideImage, Inside
<1> QED
  BY <1>1, <1>2, <1>3, PTL DEF Spec

----------------------------------------------------------------------------
(* Requests in flight: what fetch, an answer and a continuation do to the  *)
(* slots.                                                                  *)

NewCall(k, a) == [k |-> k, a |-> a, st |-> "sent", r |-> None]
IsCall(c) == c = [k |-> c.k, a |-> c.a, st |-> c.st, r |-> c.r]
CallsIn(m) ==
    /\ m = [s \in Slots |-> m[s]]
    /\ \A s \in Slots : m[s] # NoCall => IsCall(m[s])

\* Every nonempty set of naturals has a least member.
LEMMA Smallest ==
    ASSUME NEW S \in SUBSET Nat, S # {}
    PROVE  \E f \in S : \A g \in S : f <= g
<1>1. PICK f \in S : \A g \in S : ~(<<g, f>> \in OpToRel(<, Nat))
  BY NatLessThanWellFounded, WFMin
<1>2. ASSUME NEW g \in S, ~(<<g, f>> \in OpToRel(<, Nat)) PROVE f <= g
  BY <1>2 DEF OpToRel
<1> QED
  BY <1>1, <1>2, Zenon

\* n is m with the request (k, a) in a slot that was idle.
Sends(m, n, k, a) ==
    /\ CallsIn(n)
    /\ \E t \in Slots : /\ m[t] = NoCall /\ n[t] = NewCall(k, a)
                        /\ \A s \in Slots \ {t} : n[s] = m[s]

\* fetch takes a slot that is idle, if there is one.
LEMMA SendFills ==
    ASSUME NEW m, CallsIn(m), NEW i \in Slots, m[i] = NoCall, NEW k, NEW a
    PROVE  Sends(m, Send(m, k, a), k, a)
<1> DEFINE I == Idle(m)
           c == NewCall(k, a)
           j == CHOOSE s \in I : \A t \in I : s <= t
<1>1. I \in SUBSET Nat /\ I # {} /\ I \subseteq Slots /\ \A t \in I : m[t] = NoCall
  BY BrowserAssumption DEF Idle, Slots
<1>2. Send(m, k, a) = [m EXCEPT ![j] = c]
  BY DEF Send, NewCall
<1>3. IsCall(c)
  BY DEF IsCall, NewCall
<1> HIDE DEF I, c
<1>4. \E s \in I : \A t \in I : s <= t
  BY <1>1, Smallest
<1>5. j \in I
  BY <1>4
<1> HIDE DEF j
<1>6. j \in Slots /\ m[j] = NoCall
  BY <1>1, <1>5
<1> DEFINE n == [m EXCEPT ![j] = c]
<1>7. n[j] = c /\ n = [s \in Slots |-> n[s]] /\ \A s \in Slots \ {j} : n[s] = m[s]
  BY <1>6 DEF CallsIn
<1> HIDE DEF n
<1>8. CallsIn(n)
  BY <1>3, <1>7 DEF CallsIn
<1>9. Sends(m, n, k, a)
  BY <1>6, <1>7, <1>8 DEF Sends, c
<1> QED
  BY <1>2, <1>9 DEF n

\* Room for a request is an idle slot.
LEMMA RoomIsIdle == ASSUME Room(1) PROVE \E i \in Slots : net[i] = NoCall
<1>1. Idle(net) # {}
  BY FS_EmptySet DEF Room
<1> QED
  BY <1>1 DEF Idle

\* A handler that asks the server.
LEMMA AskFills ==
    ASSUME CallsIn(net), NEW u, NEW k, NEW a, Ask(u, k, a)
    PROVE  ui' = u /\ db' = db /\ Sends(net, net', k, a)
<1>1. PICK i \in Slots : net[i] = NoCall
  BY RoomIsIdle DEF Ask
<1>2. Sends(net, Send(net, k, a), k, a)
  BY <1>1, SendFills
<1> QED
  BY <1>2 DEF Ask

\* An answer reaches slot s.
LEMMA AnswerFills ==
    ASSUME CallsIn(net), NEW s \in Slots, Busy(s), NEW st, NEW r, net' = Answered(s, st, r)
    PROVE  /\ CallsIn(net')
           /\ net'[s].k = net[s].k /\ net'[s].a = net[s].a /\ net'[s].st = st /\ net'[s].r = r
           /\ \A t \in Slots \ {s} : net'[t] = net[t]
<1>1. net[s] = [k |-> net[s].k, a |-> net[s].a, st |-> net[s].st, r |-> net[s].r]
  BY DEF CallsIn, IsCall, Busy
<1>2. net'[s] = [k |-> net[s].k, a |-> net[s].a, st |-> st, r |-> r]
  BY <1>1 DEF CallsIn, Answered
<1>3. net' = [t \in Slots |-> net'[t]] /\ \A t \in Slots \ {s} : net'[t] = net[t]
  BY DEF CallsIn, Answered
<1> QED
  BY <1>2, <1>3 DEF CallsIn, IsCall

\* The promise in slot s is done.
LEMMA RestFrees ==
    ASSUME CallsIn(net), NEW s \in Slots
    PROVE  CallsIn(Rest(s)) /\ Rest(s)[s] = NoCall /\ \A t \in Slots \ {s} : Rest(s)[t] = net[t]
BY DEF CallsIn, IsCall, Rest

----------------------------------------------------------------------------
(* Fine-tuning labels: an example is built from marks on the page, waits   *)
(* in a request and is stored at the end, so contrast must hold in all     *)
(* three places.                                                           *)

FtLabelShape ==
    ui = [admin |-> ui.admin, lists |-> ui.lists, col |-> ui.col, set |-> ui.set, query |-> ui.query, of |-> ui.of,
          searching |-> ui.searching, pos |-> ui.pos, neg |-> ui.neg, saving |-> ui.saving]
FtLabelMarks == FtLabelShape /\ None \notin ui.neg /\ ui.pos \notin ui.neg
FtLabelCalls ==
    /\ CallsIn(net)
    /\ \A s \in Slots : (net[s] # NoCall /\ net[s].k = "save") => net[s].a.pos \notin net[s].a.neg
FtLabelStored == db = [saved |-> db.saved] /\ \A e \in db.saved : e.pos \notin e.neg

FtLabelInv == screen = "ftlabeling" => FtLabelMarks /\ FtLabelCalls /\ FtLabelStored

\* The chunks that can be marked are rows.
LEMMA HitsAreRows == ASSUME NEW q PROVE None \notin FtHits(q)
<1>1. (CHOOSE r \in Rows : TRUE) \in Rows
  BY BrowserAssumption
<1> QED
  BY <1>1, BrowserAssumption DEF FtHits

LEMMA FtLabelUserStep ==
    ASSUME FtLabelMarks, FtLabelCalls, FtLabelStored, FtLabelUser
    PROVE  FtLabelMarks' /\ FtLabelCalls' /\ FtLabelStored'
<1> USE DEF FtLabelMarks, FtLabelShape
<1>1. ASSUME NEW q, \/ User([ui EXCEPT !.col = TRUE])
                    \/ User([ui EXCEPT !.set = TRUE])
                    \/ User([ui EXCEPT !.query = q])
      PROVE  FtLabelMarks' /\ UNCHANGED <<net, db>>
  BY <1>1 DEF User
<1>2. ASSUME NEW r, r # None, MarkPositive(r) \/ ToggleNegative(r)
      PROVE  FtLabelMarks' /\ UNCHANGED <<net, db>>
  <2>1. CASE MarkPositive(r)
    <3> DEFINE p == IF ui.pos = r THEN None ELSE r
               n == ui.neg \ {r}
    <3>1. ui' = [ui EXCEPT !.pos = p, !.neg = n] /\ UNCHANGED <<net, db>>
      BY <2>1 DEF MarkPositive, User
    <3>2. None \notin n /\ p \notin n
      OBVIOUS
    <3> HIDE DEF p, n
    <3> QED
      BY <3>1, <3>2
  <2>2. CASE ToggleNegative(r)
    <3> DEFINE n == IF r \in ui.neg THEN ui.neg \ {r} ELSE ui.neg \cup {r}
    <3>1. ui' = [ui EXCEPT !.neg = n] /\ UNCHANGED <<net, db>> /\ ui.pos # r
      BY <2>2 DEF ToggleNegative, User
    <3>2. None \notin n /\ ui.pos \notin n
      BY <1>2, <3>1
    <3> HIDE DEF n
    <3> QED
      BY <3>1, <3>2
  <2> QED
    BY <1>2, <2>1, <2>2
<1>3. CASE OnSearch
  <2>1. ui' = [ui EXCEPT !.searching = TRUE, !.pos = None, !.neg = {}] /\ db' = db
    BY <1>3 DEF OnSearch, Ask
  <2>2. Sends(net, net', "search", ui.query)
    BY <1>3, AskFills DEF OnSearch, FtLabelCalls
  <2>3. FtLabelCalls'
    BY <2>2 DEF FtLabelCalls, Sends, NewCall
  <2>4. FtLabelMarks'
    BY <2>1
  <2> QED
    BY <2>1, <2>3, <2>4 DEF FtLabelStored
<1>4. CASE OnSave
  <2> DEFINE e == [q |-> ui.query, pos |-> ui.pos, neg |-> ui.neg \cap FtHits(ui.of)]
  <2>1. ui' = [ui EXCEPT !.saving = TRUE] /\ db' = db
    BY <1>4 DEF OnSave, Ask
  <2>2. Ask([ui EXCEPT !.saving = TRUE], "save", e)
    BY <1>4 DEF OnSave
  <2>3. e.pos \notin e.neg
    OBVIOUS
  <2> HIDE DEF e
  <2>4. Sends(net, net', "save", e)
    BY <2>2, AskFills DEF FtLabelCalls
  <2>5. FtLabelCalls'
    BY <2>3, <2>4 DEF FtLabelCalls, Sends, NewCall
  <2>6. FtLabelMarks'
    BY <2>1
  <2> QED
    BY <2>1, <2>5, <2>6 DEF FtLabelStored
<1>5. CASE FtLabelMarks' /\ UNCHANGED <<net, db>>
  BY <1>5 DEF FtLabelCalls, FtLabelStored, CallsIn, IsCall
<1> HIDE DEF FtLabelMarks, FtLabelShape
<1> QED
  BY <1>1, <1>2, <1>3, <1>4, <1>5, HitsAreRows DEF FtLabelUser

LEMMA FtLabelServerStep ==
    ASSUME screen = "ftlabeling", FtLabelMarks, FtLabelCalls, FtLabelStored,
           NEW s \in Slots, Serve(s) \/ Fault(s)
    PROVE  FtLabelMarks' /\ FtLabelCalls' /\ FtLabelStored'
<1>1. PICK st, r : net' = Answered(s, st, r)
  BY DEF Serve, Fault
<1>2. Busy(s) /\ ui' = ui
  BY DEF Serve, Fault
<1>3. db' = db \/ db' = Effect(net[s])
  BY DEF Serve, Fault
<1>4. FtLabelCalls'
  <2>1. /\ CallsIn(net') /\ net'[s].k = net[s].k /\ net'[s].a = net[s].a
        /\ \A t \in Slots \ {s} : net'[t] = net[t]
    BY <1>1, <1>2, AnswerFills DEF FtLabelCalls
  <2> QED
    BY <1>2, <2>1 DEF FtLabelCalls, Busy
<1>5. FtLabelStored'
  <2>1. CASE db' = db
    BY <2>1 DEF FtLabelStored
  <2>2. CASE db' = FtLabelEffect(net[s])
    BY <1>2, <2>2 DEF FtLabelStored, FtLabelEffect, FtLabelCalls, Busy
  <2>3. Effect(net[s]) = FtLabelEffect(net[s])
    BY DEF Effect
  <2> QED
    BY <1>3, <2>1, <2>2, <2>3
<1> QED
  BY <1>2, <1>4, <1>5 DEF FtLabelMarks, FtLabelShape

LEMMA FtLabelResumeStep ==
    ASSUME FtLabelMarks, FtLabelCalls, FtLabelStored, NEW s \in Slots, FtLabelResume(s)
    PROVE  FtLabelMarks' /\ FtLabelCalls' /\ FtLabelStored'
<1>1. net' = Rest(s) /\ db' = db
  BY DEF FtLabelResume, FtLabelLists, FtLabelSearched, FtLabelSaved, Resume
<1>2. FtLabelCalls' /\ FtLabelStored'
  BY <1>1, RestFrees DEF FtLabelCalls, FtLabelStored
<1>3. FtLabelMarks'
  <2> USE DEF FtLabelMarks, FtLabelShape
  <2>1. CASE FtLabelLists(s)
    BY <2>1 DEF FtLabelLists, Resume
  <2>2. CASE FtLabelSearched(s)
    BY <2>2 DEF FtLabelSearched, Resume
  <2>3. CASE FtLabelSaved(s)
    BY <2>3 DEF FtLabelSaved, Resume
  <2> QED
    BY <2>1, <2>2, <2>3 DEF FtLabelResume
<1> QED
  BY <1>2, <1>3

\* No saved example has one chunk as its positive and among its negatives,
\* whatever is marked, searched and saved while requests are out, and also when
\* a save is lost after the server acted on it.
THEOREM SavedExamplesContrast == Spec => []ExamplesContrast
<1>1. Init => FtLabelInv
  <2> SUFFICES ASSUME Init, screen = "ftlabeling" PROVE FtLabelMarks /\ FtLabelCalls /\ FtLabelStored
    BY DEF FtLabelInv
  <2>1. PICK a : ui = FtLabelUi(a)
    BY DEF Init
  <2>2. db = FtLabelDb /\ net = Send(NoCalls, "lists", None)
    BY DEF Init
  <2>3. CallsIn(NoCalls) /\ NoCalls[1] = NoCall
    BY SomeSlot DEF CallsIn, NoCalls
  <2>4. Sends(NoCalls, net, "lists", None)
    BY <2>2, <2>3, SomeSlot, SendFills
  <2>5. FtLabelCalls
    BY <2>4 DEF FtLabelCalls, NoCalls, Sends, NewCall
  <2> QED
    BY <2>1, <2>2, <2>5 DEF FtLabelMarks, FtLabelShape, FtLabelStored, FtLabelUi, FtLabelDb
<1>2. FtLabelInv /\ [Next]_vars => FtLabelInv'
  <2> SUFFICES ASSUME FtLabelInv, [Next]_vars, screen' = "ftlabeling"
               PROVE  FtLabelMarks' /\ FtLabelCalls' /\ FtLabelStored'
    BY DEF FtLabelInv
  <2>1. screen = "ftlabeling"
    BY PageStays
  <2>2. FtLabelMarks /\ FtLabelCalls /\ FtLabelStored
    BY <2>1 DEF FtLabelInv
  <2>3. CASE UNCHANGED vars
    BY <2>2, <2>3 DEF FtLabelMarks, FtLabelShape, FtLabelCalls, FtLabelStored, CallsIn, IsCall, vars
  <2>4. CASE FtLabelUser
    BY <2>2, <2>4, FtLabelUserStep
  <2>5. ASSUME NEW s \in Slots, Serve(s) \/ Fault(s) \/ FtLabelResume(s)
        PROVE  FtLabelMarks' /\ FtLabelCalls' /\ FtLabelStored'
    BY <2>1, <2>2, <2>5, FtLabelServerStep, FtLabelResumeStep
  <2> QED
    BY <2>1, <2>3, <2>4, <2>5 DEF Next, Act, Interval, Elsewhere, Continue
<1>3. FtLabelInv => ExamplesContrast
  BY DEF FtLabelInv, FtLabelStored, ExamplesContrast
<1> QED
  BY <1>1, <1>2, <1>3, PTL DEF Spec

----------------------------------------------------------------------------
(* Settings: own is what the administrator gave; unless the form moved     *)
(* under a save, the page must be able to work it out from the form and    *)
(* the values it recorded before it changed them.                          *)

SettingsShape(u) ==
    DOMAIN u = {"ready", "loading", "base", "host", "form", "prev", "own", "moved", "saving", "testing"}

Restorable(u) ==
    /\ SettingsShape(u)
    /\ u.host \in Hosts
    /\ u.form \in [Fields -> FieldValues]
    /\ u.own \in [Fields -> FieldValues]
    /\ u.prev \in [Fields -> FieldValues \cup {None}]
    /\ u.moved \in BOOLEAN
    /\ ~u.moved => \A f \in Fields : u.own[f] = IF u.prev[f] = None THEN u.form[f] ELSE u.prev[f]
OnlyDatabricksKeeps(u) == u.base # "databricks" => u.prev = NoPrev

IsSettings(d) ==
    /\ d = [base |-> d.base, host |-> d.host, form |-> d.form]
    /\ d.host \in Hosts
    /\ d.form \in [Fields -> FieldValues]

\* A reading of the settings is out only while the form is hidden and has
\* nothing to restore; a save only while saving is set; and never two of them.
SettingsCalls ==
    /\ CallsIn(net)
    /\ \A s \in Slots : net[s] # NoCall =>
          /\ net[s].k = "list" => /\ ui.loading /\ ui.prev = NoPrev
                                  /\ net[s].st = "ok" => IsSettings(net[s].r)
          /\ net[s].k = "save" => ui.saving /\ IsSettings(net[s].a)
    /\ \A s, t \in Slots :
          (/\ net[s] # NoCall /\ net[s].k \in {"list", "save"}
           /\ net[t] # NoCall /\ net[t].k \in {"list", "save"}) => s = t

SettingsGood == Restorable(ui) /\ OnlyDatabricksKeeps(ui) /\ SettingsCalls /\ IsSettings(db)
SettingsInv == screen = "settings" => SettingsGood

\* Applying the recommended values keeps what the administrator gave, also when
\* they were applied before.
LEMMA ApplyRestorable ==
    ASSUME NEW u, Restorable(u), NEW F
    PROVE  /\ Restorable(ApplyDatabricks(u, F))
           /\ ApplyDatabricks(u, F).base = u.base
           /\ ApplyDatabricks(u, F).loading = u.loading
           /\ ApplyDatabricks(u, F).saving = u.saving
<1> DEFINE t == DbxTarget(u.host)
           C == {f \in F : t[f] # "" /\ u.form[f] # t[f]}
           p == [f \in Fields |-> IF f \in C THEN KeepFirst(u.prev, u.form, f) ELSE u.prev[f]]
           g == [f \in Fields |-> IF f \in C THEN t[f] ELSE u.form[f]]
           v == [u EXCEPT !.prev = p, !.form = g]
<1>1. ApplyDatabricks(u, F) = v
  BY DEF ApplyDatabricks
<1>2. \A f \in Fields : t[f] \in FieldValues
  BY DEF Restorable, DbxTarget, FieldValues
<1> HIDE DEF t, C
<1>3. \A f \in Fields :
         /\ p[f] = (IF f \in C THEN (IF u.prev[f] = None THEN u.form[f] ELSE u.prev[f]) ELSE u.prev[f])
         /\ g[f] = (IF f \in C THEN t[f] ELSE u.form[f])
  BY DEF KeepFirst
<1>4. p \in [Fields -> FieldValues \cup {None}] /\ g \in [Fields -> FieldValues]
  BY <1>2, <1>3 DEF Restorable
<1> HIDE DEF p, g
<1>5. ~u.moved => \A f \in Fields : u.own[f] = IF p[f] = None THEN g[f] ELSE p[f]
  BY <1>3, FieldAssumption DEF Restorable
<1>6. SettingsShape(v) /\ v.prev = p /\ v.form = g /\ v.own = u.own /\ v.host = u.host /\ v.moved = u.moved
  BY DEF Restorable, SettingsShape
<1>7. v.base = u.base /\ v.loading = u.loading /\ v.saving = u.saving
  BY DEF Restorable, SettingsShape
<1> HIDE DEF v
<1> QED
  BY <1>1, <1>4, <1>5, <1>6, <1>7 DEF Restorable

\* Switching back gives every field what the administrator gave.
LEMMA RevertRestorable ==
    ASSUME NEW u, Restorable(u)
    PROVE  /\ Restorable(RevertAll(u)) /\ RevertAll(u).prev = NoPrev
           /\ RevertAll(u).loading = u.loading /\ RevertAll(u).saving = u.saving
<1> DEFINE g == [f \in Fields |-> IF u.prev[f] = None THEN u.form[f] ELSE u.prev[f]]
           v == [u EXCEPT !.form = g, !.prev = NoPrev]
<1>1. RevertAll(u) = v
  BY DEF RevertAll
<1>2. g \in [Fields -> FieldValues] /\ (~u.moved => \A f \in Fields : g[f] = u.own[f])
  BY DEF Restorable
<1> HIDE DEF g
<1>3. SettingsShape(v) /\ v.prev = NoPrev /\ v.form = g /\ v.own = u.own /\ v.host = u.host /\ v.moved = u.moved
  BY DEF Restorable, SettingsShape
<1>4. v.loading = u.loading /\ v.saving = u.saving
  BY DEF Restorable, SettingsShape
<1>5. NoPrev \in [Fields -> FieldValues \cup {None}] /\ \A f \in Fields : NoPrev[f] = None
  BY DEF NoPrev
<1> HIDE DEF v
<1> QED
  BY <1>1, <1>2, <1>3, <1>4, <1>5 DEF Restorable

\* The handlers that only change the form.
SettingsEdit ==
    \/ \E b \in {"local", "databricks"} \ {ui.base} : SettingsBase(b)
    \/ \E h \in Hosts : SettingsHost(h)
    \/ SettingsApply
    \/ \E f \in Fields : SettingsRevert(f) \/ SettingsType(f)

LEMMA SettingsEditStep ==
    ASSUME Restorable(ui), OnlyDatabricksKeeps(ui), SettingsEdit
    PROVE  /\ Restorable(ui') /\ OnlyDatabricksKeeps(ui')
           /\ ui'.loading = ui.loading /\ ui'.saving = ui.saving
           /\ UNCHANGED <<net, db>>
<1> DEFINE Kept == /\ Restorable(ui') /\ OnlyDatabricksKeeps(ui')
                   /\ ui'.loading = ui.loading /\ ui'.saving = ui.saving
                   /\ UNCHANGED <<net, db>>
<1>1. ASSUME NEW b, SettingsBase(b) PROVE Kept
  <2> DEFINE u == [ui EXCEPT !.base = b]
  <2>1. Restorable(u) /\ u.base = b /\ u.loading = ui.loading /\ u.saving = ui.saving
    BY DEF Restorable, SettingsShape
  <2>2. UNCHANGED <<net, db>> /\ ui' = IF b = "databricks" THEN ApplyDatabricks(u, Fields) ELSE RevertAll(u)
    BY <1>1 DEF SettingsBase, User
  <2> HIDE DEF u
  <2>3. CASE b = "databricks"
    BY <2>1, <2>2, <2>3, ApplyRestorable DEF OnlyDatabricksKeeps
  <2>4. CASE b # "databricks"
    BY <2>1, <2>2, <2>4, RevertRestorable DEF OnlyDatabricksKeeps
  <2> QED
    BY <2>3, <2>4
<1>2. ASSUME NEW h \in Hosts, SettingsHost(h) PROVE Kept
  <2> DEFINE u == [ui EXCEPT !.host = h]
  <2>1. Restorable(u) /\ u.base = ui.base /\ u.loading = ui.loading /\ u.saving = ui.saving
    BY DEF Restorable, SettingsShape
  <2>2. UNCHANGED <<net, db>> /\ ui' = ApplyDatabricks(u, {"url"}) /\ ui.base = "databricks"
    BY <1>2 DEF SettingsHost, User
  <2> HIDE DEF u
  <2> QED
    BY <2>1, <2>2, ApplyRestorable DEF OnlyDatabricksKeeps
<1>3. ASSUME SettingsApply PROVE Kept
  BY <1>3, ApplyRestorable DEF SettingsApply, User, OnlyDatabricksKeeps
<1>4. ASSUME NEW f \in Fields, SettingsRevert(f) PROVE Kept
  <2> DEFINE g == [ui.form EXCEPT ![f] = ui.prev[f]]
             p == [ui.prev EXCEPT ![f] = None]
             u == [ui EXCEPT !.form = g, !.prev = p]
  <2>1. UNCHANGED <<net, db>> /\ ui' = u /\ ui.prev[f] # None
    BY <1>4 DEF SettingsRevert, RevertField, User
  <2>2. /\ g \in [Fields -> FieldValues] /\ p \in [Fields -> FieldValues \cup {None}]
        /\ ~ui.moved => \A e \in Fields : ui.own[e] = IF p[e] = None THEN g[e] ELSE p[e]
    BY <2>1 DEF Restorable
  <2>3. ui.prev = NoPrev => FALSE
    BY <2>1 DEF NoPrev
  <2> HIDE DEF g, p
  <2>4. SettingsShape(u) /\ u.prev = p /\ u.form = g /\ u.own = ui.own /\ u.host = ui.host /\ u.moved = ui.moved
    BY DEF Restorable, SettingsShape
  <2>5. u.base = ui.base /\ u.loading = ui.loading /\ u.saving = ui.saving
    BY DEF Restorable, SettingsShape
  <2> HIDE DEF u
  <2> QED
    BY <2>1, <2>2, <2>3, <2>4, <2>5 DEF Restorable, OnlyDatabricksKeeps
<1>5. ASSUME NEW f \in Fields, SettingsType(f) PROVE Kept
  <2> DEFINE y == IF ui.prev[f] = None THEN "y" ELSE ui.own[f]
             g == [ui.form EXCEPT ![f] = "y"]
             o == [ui.own EXCEPT ![f] = y]
             u == [ui EXCEPT !.form = g, !.own = o]
  <2>1. UNCHANGED <<net, db>> /\ ui' = u
    BY <1>5 DEF SettingsType, User
  <2>2. /\ g \in [Fields -> FieldValues] /\ o \in [Fields -> FieldValues]
        /\ ~ui.moved => \A e \in Fields : o[e] = IF ui.prev[e] = None THEN g[e] ELSE ui.prev[e]
    BY DEF Restorable, FieldValues
  <2> HIDE DEF g, o, y
  <2>3. SettingsShape(u) /\ u.prev = ui.prev /\ u.form = g /\ u.own = o /\ u.host = ui.host /\ u.moved = ui.moved
    BY DEF Restorable, SettingsShape
  <2>4. u.base = ui.base /\ u.loading = ui.loading /\ u.saving = ui.saving
    BY DEF Restorable, SettingsShape
  <2> HIDE DEF u
  <2> QED
    BY <2>1, <2>2, <2>3, <2>4 DEF Restorable, OnlyDatabricksKeeps
<1> HIDE DEF Kept
<1>6. Kept
  BY <1>1, <1>2, <1>3, <1>4, <1>5 DEF SettingsEdit
<1> QED
  BY <1>6 DEF Kept

LEMMA SettingsUserStep ==
    ASSUME SettingsGood, SettingsUser
    PROVE  SettingsGood'
<1>1. ~ui.loading /\ \A s \in Slots : net[s] # NoCall => net[s].k # "list"
  BY DEF SettingsUser, SettingsShown, SettingsGood, SettingsCalls
<1>2. CASE SettingsEdit
  <2>1. /\ Restorable(ui') /\ OnlyDatabricksKeeps(ui')
        /\ ui'.loading = ui.loading /\ ui'.saving = ui.saving
        /\ net' = net /\ db' = db
    BY <1>2, SettingsEditStep DEF SettingsGood
  <2>2. SettingsCalls'
    BY <1>1, <2>1 DEF SettingsGood, SettingsCalls
  <2> QED
    BY <2>1, <2>2 DEF SettingsGood
<1>3. CASE SettingsSave
  <2> DEFINE d == [base |-> ui.base, host |-> ui.host, form |-> ui.form]
             u == [ui EXCEPT !.saving = TRUE]
  <2>1. Ask(u, "save", d)
    BY <1>3 DEF SettingsSave
  <2>2. IsSettings(d)
    BY DEF SettingsGood, Restorable, IsSettings
  <2>3. Restorable(u) /\ OnlyDatabricksKeeps(u) /\ u.saving
    BY DEF SettingsGood, Restorable, SettingsShape, OnlyDatabricksKeeps
  <2> HIDE DEF d, u
  <2>4. ui' = u /\ db' = db /\ Sends(net, net', "save", d)
    BY <2>1, AskFills DEF SettingsGood, SettingsCalls
  <2>5. \A s \in Slots : net[s] # NoCall => net[s].k # "save"
    BY <1>3 DEF SettingsSave, SettingsGood, SettingsCalls
  <2>6. SettingsCalls'
    BY <1>1, <2>2, <2>3, <2>4, <2>5 DEF SettingsGood, SettingsCalls, Sends, NewCall
  <2> QED
    BY <2>3, <2>4, <2>6 DEF SettingsGood
<1>4. ASSUME NEW t, SettingsTest(t) PROVE SettingsGood'
  <2> DEFINE u == [ui EXCEPT !.testing = @ \cup {t}]
  <2>1. Ask(u, "check", t)
    BY <1>4 DEF SettingsTest
  <2>2. Restorable(u) /\ OnlyDatabricksKeeps(u) /\ u.saving = ui.saving
    BY DEF SettingsGood, Restorable, SettingsShape, OnlyDatabricksKeeps
  <2> HIDE DEF u
  <2>3. ui' = u /\ db' = db /\ Sends(net, net', "check", t)
    BY <2>1, AskFills DEF SettingsGood, SettingsCalls
  <2>4. SettingsCalls'
    BY <1>1, <2>2, <2>3 DEF SettingsGood, SettingsCalls, Sends, NewCall
  <2> QED
    BY <2>2, <2>3, <2>4 DEF SettingsGood
<1> QED
  BY <1>2, <1>3, <1>4 DEF SettingsUser, SettingsEdit

LEMMA SettingsServerStep ==
    ASSUME screen = "settings", SettingsGood, NEW s \in Slots, Serve(s) \/ Fault(s)
    PROVE  SettingsGood'
<1>1. PICK st, r : net' = Answered(s, st, r) /\ (st = "ok" => r = Answer(net[s]))
  BY DEF Serve, Fault
<1>2. Busy(s) /\ ui' = ui
  BY DEF Serve, Fault
<1>3. db' = db \/ db' = Effect(net[s])
  BY DEF Serve, Fault
<1>4. Answer(net[s]) = SettingsAnswer(net[s]) /\ Effect(net[s]) = SettingsEffect(net[s])
  BY DEF Answer, Effect
<1>5. /\ CallsIn(net') /\ net'[s].k = net[s].k /\ net'[s].a = net[s].a /\ net'[s].st = st /\ net'[s].r = r
      /\ \A t \in Slots \ {s} : net'[t] = net[t]
  BY <1>1, <1>2, AnswerFills DEF SettingsGood, SettingsCalls
<1>6. (net[s].k = "list" /\ st = "ok") => IsSettings(r)
  BY <1>1, <1>4 DEF SettingsAnswer, SettingsGood
<1>7. SettingsCalls'
  BY <1>2, <1>5, <1>6 DEF SettingsGood, SettingsCalls, Busy
<1>8. IsSettings(db')
  BY <1>2, <1>3, <1>4 DEF SettingsEffect, SettingsGood, SettingsCalls, Busy
<1> QED
  BY <1>2, <1>7, <1>8 DEF SettingsGood

LEMMA SettingsResumeStep ==
    ASSUME SettingsGood, NEW s \in Slots, Busy(s), net[s].st # "sent", SettingsResume(s)
    PROVE  SettingsGood'
<1>1. db' = db
  BY DEF SettingsResume, SettingsLoaded, SettingsSaved, SettingsTested, Refresh, Resume
<1>2. CallsIn(Rest(s)) /\ Rest(s)[s] = NoCall /\ \A t \in Slots \ {s} : Rest(s)[t] = net[t]
  BY RestFrees DEF SettingsGood, SettingsCalls
<1>3. CASE net[s].k = "list" /\ SettingsLoaded(s)
  <2>1. net' = Rest(s)
    BY <1>3 DEF SettingsLoaded, Resume
  <2>2. SettingsCalls'
    BY <1>2, <1>3, <2>1 DEF SettingsGood, SettingsCalls, Busy
  <2>3. ui.prev = NoPrev /\ (Ok(s) => IsSettings(net[s].r))
    BY <1>3 DEF SettingsGood, SettingsCalls, Busy, Ok
  <2>4. CASE Ok(s)
    <3> DEFINE d == net[s].r
               u == [ui EXCEPT !.loading = FALSE]
               v == [u EXCEPT !.ready = TRUE, !.base = d.base, !.host = d.host, !.form = d.form,
                            !.own = d.form, !.moved = FALSE]
    <3>1. ui' = v
      BY <1>3, <2>4 DEF SettingsLoaded, Resume
    <3>2. SettingsShape(u) /\ u.prev = NoPrev
      BY <2>3 DEF SettingsGood, Restorable, SettingsShape
    <3> HIDE DEF d, u
    <3>3. SettingsShape(v) /\ v.prev = NoPrev /\ v.host = d.host /\ v.form = d.form /\ v.own = d.form /\ ~v.moved /\ v.moved \in BOOLEAN
      BY <3>2 DEF SettingsShape
    <3>4. d.host \in Hosts /\ d.form \in [Fields -> FieldValues]
      BY <2>3, <2>4 DEF IsSettings, d
    <3>5. NoPrev \in [Fields -> FieldValues \cup {None}] /\ \A f \in Fields : NoPrev[f] = None
      BY DEF NoPrev
    <3> HIDE DEF v
    <3>6. Restorable(v) /\ OnlyDatabricksKeeps(v)
      BY <3>3, <3>4, <3>5 DEF Restorable, OnlyDatabricksKeeps
    <3> QED
      BY <1>1, <2>2, <3>1, <3>6 DEF SettingsGood
  <2>5. CASE ~Ok(s)
    <3> DEFINE u == [ui EXCEPT !.loading = FALSE]
    <3>1. ui' = u
      BY <1>3, <2>5 DEF SettingsLoaded, Resume
    <3>2. Restorable(u) /\ OnlyDatabricksKeeps(u)
      BY DEF SettingsGood, Restorable, SettingsShape, OnlyDatabricksKeeps
    <3> QED
      BY <1>1, <2>2, <3>1, <3>2 DEF SettingsGood
  <2> QED
    BY <2>4, <2>5
<1>4. CASE net[s].k = "save" /\ SettingsSaved(s) /\ Ok(s)
  <2> DEFINE sent == net[s].a.form
             u == [ui EXCEPT !.saving = FALSE, !.prev = NoPrev, !.own = sent, !.moved = (ui.form # sent)]
             v == [u EXCEPT !.loading = TRUE]
  <2>1. ui' = v /\ net' = Send(Rest(s), "list", None)
    BY <1>4 DEF SettingsSaved, Refresh, Resume
  <2>2. Sends(Rest(s), net', "list", None)
    BY <1>2, <2>1, SendFills
  <2>3. SettingsShape(u) /\ u.prev = NoPrev /\ u.form = ui.form /\ u.own = sent /\ u.host = ui.host
    BY DEF SettingsGood, Restorable, SettingsShape
  <2>3a. u.moved = (ui.form # sent)
    BY DEF SettingsGood, Restorable, SettingsShape
  <2>3b. sent \in [Fields -> FieldValues]
    BY <1>4 DEF SettingsGood, SettingsCalls, IsSettings, Busy
  <2> HIDE DEF u, sent
  <2>4. SettingsShape(v) /\ v.prev = NoPrev /\ v.form = ui.form /\ v.own = sent /\ v.host = ui.host /\ v.loading
    BY <2>3 DEF SettingsShape
  <2>4a. v.moved = (ui.form # sent)
    BY <2>3, <2>3a DEF SettingsShape
  <2>5. NoPrev \in [Fields -> FieldValues \cup {None}] /\ \A f \in Fields : NoPrev[f] = None
    BY DEF NoPrev
  <2> HIDE DEF v
  <2>6. Restorable(v) /\ OnlyDatabricksKeeps(v)
    BY <2>3b, <2>4a, <2>4, <2>5 DEF SettingsGood, Restorable, OnlyDatabricksKeeps
  <2>7. \A t \in Slots : Rest(s)[t] # NoCall => Rest(s)[t].k \notin {"list", "save"}
    BY <1>2, <1>4 DEF SettingsGood, SettingsCalls, Busy
  <2>8. SettingsCalls'
    BY <2>1, <2>2, <2>4, <2>7 DEF SettingsCalls, Sends, NewCall
  <2> QED
    BY <1>1, <2>1, <2>6, <2>8 DEF SettingsGood
<1>5. CASE net[s].k = "save" /\ SettingsSaved(s) /\ ~Ok(s)
  <2> DEFINE u == [ui EXCEPT !.saving = FALSE]
  <2>1. ui' = u /\ net' = Rest(s)
    BY <1>5 DEF SettingsSaved, Resume
  <2>2. Restorable(u) /\ OnlyDatabricksKeeps(u)
    BY DEF SettingsGood, Restorable, SettingsShape, OnlyDatabricksKeeps
  <2>3. SettingsCalls'
    BY <1>2, <1>5, <2>1 DEF SettingsGood, SettingsCalls, Busy
  <2> QED
    BY <1>1, <2>1, <2>2, <2>3 DEF SettingsGood
<1>6. CASE net[s].k \in {"check", "probe"} /\ SettingsTested(s)
  <2>1. CASE ui' = ui /\ net' = Send(Rest(s), "probe", net[s].a)
    <3>1. Sends(Rest(s), net', "probe", net[s].a)
      BY <1>2, <2>1, SendFills
    <3>2. SettingsCalls'
      BY <1>2, <2>1, <3>1 DEF SettingsGood, SettingsCalls, Sends, NewCall
    <3> QED
      BY <1>1, <2>1, <3>2 DEF SettingsGood
  <2>2. CASE ui' = [ui EXCEPT !.testing = @ \ {net[s].a}] /\ net' = Rest(s)
    <3> DEFINE u == [ui EXCEPT !.testing = @ \ {net[s].a}]
    <3>1. Restorable(u) /\ OnlyDatabricksKeeps(u) /\ u.loading = ui.loading /\ u.saving = ui.saving /\ u.prev = ui.prev
      BY DEF SettingsGood, Restorable, SettingsShape, OnlyDatabricksKeeps
    <3> HIDE DEF u
    <3>2. SettingsCalls'
      BY <1>2, <2>2, <3>1 DEF SettingsGood, SettingsCalls, u
    <3> QED
      BY <1>1, <2>2, <3>1, <3>2 DEF SettingsGood, u
  <2> QED
    BY <1>6, <2>1, <2>2 DEF SettingsTested, Resume
<1> QED
  BY <1>3, <1>4, <1>5, <1>6 DEF SettingsResume

\* When the platform is not (or no longer) Databricks, every field holds what
\* the administrator gave: through any sequence of switching, applying, changing
\* the host, reverting, typing, saving and reloading, with requests failing and
\* answering in any order (settings/page.tsx keeps the value a field had before
\* the first recommended one, and hides the form while it reloads); but for the
\* time between a save that succeeds after the form changed under it (moved)
\* and the next successful reload.
THEOREM SettingsSwitchBack == Spec => []SwitchBackRestores
<1>1. Init => SettingsInv
  <2> SUFFICES ASSUME Init, screen = "settings" PROVE SettingsGood
    BY DEF SettingsInv
  <2>1. ui = SettingsUi /\ db = SettingsDb /\ net = Send(NoCalls, "list", None)
    BY DEF Init
  <2>2. CallsIn(NoCalls) /\ NoCalls[1] = NoCall
    BY SomeSlot DEF CallsIn, NoCalls
  <2>3. Sends(NoCalls, net, "list", None)
    BY <2>1, <2>2, SomeSlot, SendFills
  <2>4. SettingsForm \in [Fields -> FieldValues] /\ "" \in Hosts
    BY DEF SettingsForm, FieldValues, Hosts
  <2>5. NoPrev \in [Fields -> FieldValues \cup {None}] /\ \A f \in Fields : NoPrev[f] = None
    BY DEF NoPrev
  <2>6. IsSettings(db)
    BY <2>1, <2>4 DEF SettingsDb, IsSettings
  <2>7. /\ SettingsShape(ui) /\ ui.host = "" /\ ui.form = SettingsForm /\ ui.own = SettingsForm
        /\ ui.prev = NoPrev /\ ui.loading /\ ~ui.moved /\ ui.moved \in BOOLEAN
    BY <2>1 DEF SettingsUi, SettingsShape
  <2>8. Restorable(ui) /\ OnlyDatabricksKeeps(ui)
    BY <2>4, <2>5, <2>7 DEF Restorable, OnlyDatabricksKeeps
  <2>9. SettingsCalls
    <3>1. \A s \in Slots : NoCalls[s] = NoCall
      BY DEF NoCalls
    <3>2. PICK t \in Slots : net[t] = NewCall("list", None) /\ \A s \in Slots \ {t} : net[s] = NoCall
      BY <2>3, <3>1 DEF Sends
    <3>3. CallsIn(net) /\ net[t].k = "list" /\ net[t].st = "sent"
      BY <2>3, <3>2 DEF Sends, NewCall
    <3> QED
      BY <2>7, <3>2, <3>3 DEF SettingsCalls
  <2> QED
    BY <2>6, <2>8, <2>9 DEF SettingsGood
<1>2. SettingsInv /\ [Next]_vars => SettingsInv'
  <2> SUFFICES ASSUME SettingsInv, [Next]_vars, screen' = "settings" PROVE SettingsGood'
    BY DEF SettingsInv
  <2>1. screen = "settings"
    BY PageStays
  <2>2. SettingsGood
    BY <2>1 DEF SettingsInv
  <2>3. CASE UNCHANGED vars
    BY <2>2, <2>3 DEF SettingsGood, SettingsCalls, vars
  <2>4. CASE SettingsUser
    BY <2>2, <2>4, SettingsUserStep
  <2>5. ASSUME NEW s \in Slots, Serve(s) \/ Fault(s)
        PROVE  SettingsGood'
    BY <2>1, <2>2, <2>5, SettingsServerStep
  <2>6. ASSUME NEW s \in Slots, Continue(s)
        PROVE  SettingsGood'
    <3>1. Busy(s) /\ net[s].st # "sent" /\ SettingsResume(s)
      BY <2>1, <2>6 DEF Continue
    <3> QED
      BY <2>2, <3>1, SettingsResumeStep
  <2> QED
    BY <2>1, <2>3, <2>4, <2>5, <2>6 DEF Next, Act, Interval, Elsewhere
<1>3. SettingsInv => SwitchBackRestores
  <2> SUFFICES ASSUME SettingsInv, screen = "settings", ui.base # "databricks", ~ui.moved PROVE ui.form = ui.own
    BY DEF SwitchBackRestores
  <2>1. ui.prev = NoPrev /\ Restorable(ui)
    BY DEF SettingsInv, SettingsGood, OnlyDatabricksKeeps
  <2>2. \A f \in Fields : ui.own[f] = ui.form[f]
    BY <2>1 DEF Restorable, NoPrev
  <2> QED
    BY <2>1, <2>2 DEF Restorable
<1> QED
  BY <1>1, <1>2, <1>3, PTL DEF Spec

----------------------------------------------------------------------------
(* The routing policy: the badge and the server compute the outcome in     *)
(* different ways, and agree on every policy; the draft is a policy.       *)

Stage  == [score : Nat, weight : Nat, min : Nat]
Policy == [mode : {"first_match", "weighted_vote"}, review : Nat, stages : Seq(Stage)]

\* The partial sums of the weights are what their definition says.
LEMMA WeightSums ==
    ASSUME NEW q \in Seq(Stage)
    PROVE  \E f : f = [i \in 0..Len(q) |-> IF i = 0 THEN 0 ELSE f[i - 1] + q[i].weight]
<1> DEFINE Upto(n) == \E f : f = [i \in 0..n |-> IF i = 0 THEN 0 ELSE f[i - 1] + q[i].weight]
           Bad == {n \in 0..Len(q) : ~Upto(n)}
<1>1. Len(q) \in Nat
  OBVIOUS
<1>2. SUFFICES ASSUME Bad # {} PROVE FALSE
  BY <1>1
<1>3. Bad \in SUBSET Nat
  BY <1>1
<1>4. PICK n \in Bad : \A m \in Bad : n <= m
  BY <1>2, <1>3, Smallest
<1>5. n \in 0..Len(q) /\ ~Upto(n)
  OBVIOUS
<1>6. n # 0
  <2> DEFINE f == [i \in 0..0 |-> 0]
  <2>1. f = [i \in 0..0 |-> IF i = 0 THEN 0 ELSE f[i - 1] + q[i].weight]
    OBVIOUS
  <2> QED
    BY <1>5, <2>1
<1>7. n - 1 \in 0..Len(q) /\ ~(n <= n - 1)
  BY <1>1, <1>5, <1>6
<1>8. Upto(n - 1)
  <2> HIDE DEF Upto
  <2> QED
    BY <1>4, <1>7
<1>9. PICK f : f = [i \in 0..(n - 1) |-> IF i = 0 THEN 0 ELSE f[i - 1] + q[i].weight]
  BY <1>8
<1> DEFINE g == [i \in 0..n |-> IF i = n THEN f[n - 1] + q[n].weight ELSE f[i]]
<1>10. \A i \in 0..n : g[i] = IF i = 0 THEN 0 ELSE g[i - 1] + q[i].weight
  <2> SUFFICES ASSUME NEW i \in 0..n PROVE g[i] = IF i = 0 THEN 0 ELSE g[i - 1] + q[i].weight
    OBVIOUS
  <2>1. CASE i = n
    BY <1>5, <1>6, <1>1, <2>1
  <2>2. CASE i # n
    <3>1. i \in 0..(n - 1) /\ i # n /\ (i # 0 => i - 1 \in 0..n /\ i - 1 # n)
      BY <1>1, <1>5, <2>2
    <3>2. g[i] = f[i] /\ (i # 0 => g[i - 1] = f[i - 1])
      BY <3>1
    <3>3. f[i] = IF i = 0 THEN 0 ELSE f[i - 1] + q[i].weight
      BY <1>9, <3>1
    <3> QED
      BY <3>2, <3>3
  <2> QED
    BY <2>1, <2>2
<1>11. g = [i \in 0..n |-> IF i = 0 THEN 0 ELSE g[i - 1] + q[i].weight]
  BY <1>10
<1>12. Upto(n)
  <2> HIDE DEF g
  <2> QED
    BY <1>11
<1> QED
  BY <1>5, <1>12

\* The weights of a policy's stages add up to a natural number.
LEMMA WeightSumNat ==
    ASSUME NEW q \in Seq(Stage)
    PROVE  WeightSum(q) \in Nat
<1> DEFINE sum == CHOOSE f : f = [i \in 0..Len(q) |-> IF i = 0 THEN 0 ELSE f[i - 1] + q[i].weight]
           Bad == {n \in 0..Len(q) : sum[n] \notin Nat}
<1>1. Len(q) \in Nat
  OBVIOUS
<1>2. sum = [i \in 0..Len(q) |-> IF i = 0 THEN 0 ELSE sum[i - 1] + q[i].weight]
  BY WeightSums
<1> HIDE DEF sum
<1>3. Bad = {}
  <2> SUFFICES ASSUME Bad # {} PROVE FALSE
    OBVIOUS
  <2>1. Bad \in SUBSET Nat
    BY <1>1
  <2>2. PICK n \in Bad : \A m \in Bad : n <= m
    BY <2>1, Smallest
  <2>3. n \in 0..Len(q) /\ sum[n] \notin Nat
    OBVIOUS
  <2>4. sum[n] = IF n = 0 THEN 0 ELSE sum[n - 1] + q[n].weight
    BY <1>2, <2>3
  <2>5. n # 0
    BY <2>3, <2>4
  <2>6. n - 1 \in 0..Len(q) /\ ~(n <= n - 1) /\ n \in 1..Len(q)
    BY <1>1, <2>3, <2>5
  <2>7. sum[n - 1] \in Nat
    BY <2>2, <2>6
  <2>8. q[n] \in Stage
    BY <2>6, ElementOfSeq
  <2>9. q[n].weight \in Nat
    BY <2>8 DEF Stage
  <2> QED
    BY <2>3, <2>4, <2>5, <2>7, <2>9
<1>4. sum[Len(q)] \in Nat
  BY <1>1, <1>3
<1> QED
  BY <1>4 DEF WeightSum, sum

\* The badge of a stage says what the server does, for every policy.
LEMMA BadgeAgrees ==
    ASSUME NEW p \in Policy, NEW i \in DOMAIN p.stages
    PROVE  StageSoloOutcome(p, i) = RunPolicy(p, i)
<1> DEFINE st == p.stages[i]
           w == WeightSum(p.stages)
           v == st.score * st.weight
<1>1. p.stages \in Seq(Stage) /\ p.review \in Nat /\ i \in 1..Len(p.stages)
  BY DEF Policy
<1>2. st \in Stage
  BY <1>1
<1>3. st.score \in Nat /\ st.min \in Nat /\ v \in Nat
  BY <1>2 DEF Stage
<1>4. w \in Nat
  BY <1>1, WeightSumNat
<1>5. CASE p.mode = "first_match"
  <2> DEFINE passing == {j \in DOMAIN p.stages : \E sc \in (IF j = i THEN {p.stages[j].score} ELSE {}) : sc >= p.stages[j].min}
  <2>1. passing = {} <=> st.score < st.min
    BY <1>3
  <2>2. RunPolicy(p, i) = IF passing = {} THEN "ignored" ELSE IF st.score < p.review THEN "review" ELSE "ok"
    BY <1>5 DEF RunPolicy
  <2> HIDE DEF passing
  <2>3. StageSoloOutcome(p, i) = IF st.score < st.min THEN "ignored" ELSE IF st.score < p.review THEN "review" ELSE "ok"
    <3>1. SoloConfidence(p, st) = <<st.score, 1>>
      BY <1>5 DEF SoloConfidence
    <3> DEFINE c == SoloConfidence(p, st)
    <3>2. c[1] < p.review * c[2] <=> st.score < p.review
      BY <1>1, <1>3, <3>1
    <3>3. StageSoloOutcome(p, i) =
            IF p.mode = "first_match" /\ st.score < st.min THEN "ignored"
            ELSE IF c[1] < p.review * c[2] THEN "review" ELSE "ok"
      BY DEF StageSoloOutcome
    <3> HIDE DEF c, st
    <3> QED
      BY <1>5, <3>2, <3>3
  <2> QED
    BY <2>1, <2>2, <2>3
<1>6. CASE p.mode # "first_match"
  <2>1. RunPolicy(p, i) = IF (w > 0 /\ v < p.review * w) \/ (w = 0 /\ 0 < p.review) THEN "review" ELSE "ok"
    BY <1>6 DEF RunPolicy
  <2>2. StageSoloOutcome(p, i) =
          IF w > 0 THEN (IF v < p.review * w THEN "review" ELSE "ok")
          ELSE IF 0 < p.review THEN "review" ELSE "ok"
    BY <1>1, <1>6 DEF StageSoloOutcome, SoloConfidence
  <2> HIDE DEF w, v
  <2> QED
    BY <1>4, <2>1, <2>2
<1> QED
  BY <1>5, <1>6

\* Wherever a policy is kept, on the page, in a request or by the server, it is
\* one; and the server still has every version the page offers to go back to.
PolicyShape == DOMAIN ui = {"admin", "loading", "policy", "draft", "versions", "saving"}
PolicyPage ==
    /\ PolicyShape
    /\ ui.policy # None => ui.policy \in Policy
    /\ ui.draft # None => ui.draft \in Policy
    /\ ui.versions \in Nat /\ ui.versions <= Len(db.versions)
PolicyCalls ==
    /\ CallsIn(net)
    /\ \A s \in Slots : net[s] # NoCall =>
          /\ net[s].k = "save" => net[s].a \in Policy
          /\ net[s].k = "rollback" => net[s].a \in 1..Len(db.versions)
          /\ (net[s].k = "list" /\ net[s].st = "ok") =>
                /\ net[s].r.config \in Policy
                /\ net[s].r.versions \in Nat /\ net[s].r.versions <= Len(db.versions)
PolicyKept == db.config \in Policy /\ db.versions \in Seq(Policy)

PolicyGood == PolicyPage /\ PolicyCalls /\ PolicyKept
PolicyInv == screen = "policy" => PolicyGood

\* The editing handlers make a policy of a policy.
LEMMA PolicyEdits ==
    ASSUME NEW p \in Policy
    PROVE  /\ \A i \in DOMAIN p.stages, sc \in Scores : [p EXCEPT !.stages[i] = [p.stages[i] EXCEPT !.score = sc]] \in Policy
           /\ \A i \in DOMAIN p.stages, w \in Weights : [p EXCEPT !.stages[i] = [p.stages[i] EXCEPT !.weight = w]] \in Policy
           /\ \A i \in DOMAIN p.stages, m \in Mins : [p EXCEPT !.stages[i] = [p.stages[i] EXCEPT !.min = m]] \in Policy
           /\ \A v \in Reviews : [p EXCEPT !.review = v] \in Policy
           /\ \A i \in DOMAIN p.stages :
                 [p EXCEPT !.stages = SubSeq(p.stages, 1, i - 1) \o SubSeq(p.stages, i + 1, Len(p.stages))] \in Policy
           /\ \A i, j \in DOMAIN p.stages :
                 [p EXCEPT !.stages = [p.stages EXCEPT ![i] = p.stages[j], ![j] = p.stages[i]]] \in Policy
           /\ [p EXCEPT !.stages = Append(p.stages, NewStage)] \in Policy
           /\ \A m \in {"first_match", "weighted_vote"} : [p EXCEPT !.mode = m] \in Policy
<1> DEFINE q == p.stages
<1>1. /\ p \in [mode : {"first_match", "weighted_vote"}, review : Nat, stages : Seq(Stage)]
      /\ q \in Seq(Stage) /\ DOMAIN q = 1..Len(q) /\ Len(q) \in Nat
  BY DEF Policy
<1>2. \A i \in 1..Len(q) : q[i] \in Stage
  BY <1>1, ElementOfSeq
<1>3. ASSUME NEW t \in Seq(Stage) PROVE [p EXCEPT !.stages = t] \in Policy
  BY <1>1, <1>3 DEF Policy
<1>4. ASSUME NEW i \in DOMAIN q, NEW st \in Stage PROVE [p EXCEPT !.stages[i] = st] \in Policy
  <2>1. [q EXCEPT ![i] = st] \in Seq(Stage)
    BY <1>1, <1>4, ExceptSeq
  <2>2. [p EXCEPT !.stages[i] = st] = [p EXCEPT !.stages = [q EXCEPT ![i] = st]]
    BY <1>1
  <2> QED
    BY <1>3, <2>1, <2>2
<1>5. ASSUME NEW i \in DOMAIN q, NEW sc \in Scores
      PROVE  [p EXCEPT !.stages[i] = [p.stages[i] EXCEPT !.score = sc]] \in Policy
  <2>1. q[i] \in Stage /\ sc \in Nat
    BY <1>1, <1>2, <1>5 DEF Scores
  <2>2. [p.stages[i] EXCEPT !.score = sc] \in Stage
    BY <2>1 DEF Stage
  <2> QED
    BY <1>4, <2>2
<1>6. ASSUME NEW i \in DOMAIN q, NEW w \in Weights
      PROVE  [p EXCEPT !.stages[i] = [p.stages[i] EXCEPT !.weight = w]] \in Policy
  <2>1. p.stages[i] \in Stage /\ w \in Nat
    BY <1>1, <1>2, <1>6 DEF Weights
  <2>2. [p.stages[i] EXCEPT !.weight = w] \in Stage
    BY <2>1 DEF Stage
  <2> QED
    BY <1>4, <2>2
<1>6a. ASSUME NEW i \in DOMAIN q, NEW m \in Mins
       PROVE  [p EXCEPT !.stages[i] = [p.stages[i] EXCEPT !.min = m]] \in Policy
  <2>1. p.stages[i] \in Stage /\ m \in Nat
    BY <1>1, <1>2, <1>6a DEF Mins
  <2>2. [p.stages[i] EXCEPT !.min = m] \in Stage
    BY <2>1 DEF Stage
  <2> QED
    BY <1>4, <2>2
<1>6b. \A v \in Reviews : [p EXCEPT !.review = v] \in Policy
  BY <1>1 DEF Policy, Reviews
<1>7. ASSUME NEW i \in DOMAIN q
      PROVE  [p EXCEPT !.stages = SubSeq(q, 1, i - 1) \o SubSeq(q, i + 1, Len(q))] \in Policy
  <2>1. SubSeq(q, 1, i - 1) \in Seq(Stage)
    BY <1>1, <1>2, <1>7, SubSeqProperties
  <2>2. SubSeq(q, i + 1, Len(q)) \in Seq(Stage)
    BY <1>1, <1>2, <1>7, SubSeqProperties
  <2>3. SubSeq(q, 1, i - 1) \o SubSeq(q, i + 1, Len(q)) \in Seq(Stage)
    BY <2>1, <2>2, ConcatProperties
  <2> QED
    BY <1>3, <2>3
<1>8. ASSUME NEW i \in DOMAIN q, NEW j \in DOMAIN q
      PROVE  [p EXCEPT !.stages = [q EXCEPT ![i] = q[j], ![j] = q[i]]] \in Policy
  <2> DEFINE t == [q EXCEPT ![i] = q[j]]
  <2>1. t \in Seq(Stage) /\ Len(t) = Len(q)
    BY <1>1, <1>2, <1>8, ExceptSeq
  <2> HIDE DEF t
  <2>2. [t EXCEPT ![j] = q[i]] \in Seq(Stage)
    BY <1>1, <1>2, <1>8, <2>1, ExceptSeq
  <2> QED
    BY <1>3, <2>2 DEF t
<1>9. [p EXCEPT !.stages = Append(q, NewStage)] \in Policy
  <2>1. NewStage \in Stage
    BY DEF NewStage, Stage
  <2>2. Append(q, NewStage) \in Seq(Stage)
    BY <1>1, <2>1, AppendProperties
  <2> QED
    BY <1>3, <2>2
<1>10. \A m \in {"first_match", "weighted_vote"} : [p EXCEPT !.mode = m] \in Policy
  BY <1>1 DEF Policy
<1> QED
  BY <1>5, <1>6, <1>6a, <1>6b, <1>7, <1>8, <1>9, <1>10

LEMMA PolicyUserStep ==
    ASSUME PolicyGood, PolicyUser
    PROVE  PolicyGood'
<1>1. ui.draft # None /\ ui.draft \in Policy
  BY DEF PolicyUser, PolicyShown, PolicyGood, PolicyPage
<1>2. ASSUME NEW d, d # None => d \in Policy, PolicyDraft(d)
      PROVE  PolicyGood'
  <2>1. ui' = [ui EXCEPT !.draft = d] /\ net' = net /\ db' = db
    BY <1>2 DEF PolicyDraft, User
  <2>2. PolicyPage'
    BY <1>2, <2>1 DEF PolicyGood, PolicyPage, PolicyShape
  <2>3. PolicyCalls' /\ PolicyKept'
    BY <2>1 DEF PolicyGood, PolicyCalls, PolicyKept
  <2> QED
    BY <2>2, <2>3 DEF PolicyGood
<1>3. ASSUME NEW i \in DOMAIN ui.draft.stages, NEW sc \in Scores,
             PolicyPatchStage(i, [ui.draft.stages[i] EXCEPT !.score = sc])
      PROVE  PolicyGood'
  BY <1>1, <1>2, <1>3, PolicyEdits DEF PolicyPatchStage
<1>4. ASSUME NEW i \in DOMAIN ui.draft.stages, NEW w \in Weights,
             PolicyPatchStage(i, [ui.draft.stages[i] EXCEPT !.weight = w])
      PROVE  PolicyGood'
  BY <1>1, <1>2, <1>4, PolicyEdits DEF PolicyPatchStage
<1>4a. ASSUME NEW i \in DOMAIN ui.draft.stages, NEW m \in Mins,
              PolicyPatchStage(i, [ui.draft.stages[i] EXCEPT !.min = m])
       PROVE  PolicyGood'
  BY <1>1, <1>2, <1>4a, PolicyEdits DEF PolicyPatchStage
<1>4b. ASSUME NEW v \in Reviews, PolicyReview(v)
       PROVE  PolicyGood'
  BY <1>1, <1>2, <1>4b, PolicyEdits DEF PolicyReview
<1>5. ASSUME NEW i \in DOMAIN ui.draft.stages, PolicyRemoveStage(i)
      PROVE  PolicyGood'
  BY <1>1, <1>2, <1>5, PolicyEdits DEF PolicyRemoveStage
<1>6. ASSUME NEW i \in DOMAIN ui.draft.stages, NEW j, PolicyMoveStage(i, j)
      PROVE  PolicyGood'
  <2>1. j \in DOMAIN ui.draft.stages
    BY <1>6 DEF PolicyMoveStage
  <2> QED
    BY <1>1, <1>2, <1>6, <2>1, PolicyEdits DEF PolicyMoveStage
<1>7. CASE PolicyAddStage
  BY <1>1, <1>2, <1>7, PolicyEdits DEF PolicyAddStage
<1>8. ASSUME NEW m \in {"first_match", "weighted_vote"}, PolicyMode(m)
      PROVE  PolicyGood'
  BY <1>1, <1>2, <1>8, PolicyEdits DEF PolicyMode
<1>9. CASE PolicyDiscard
  BY <1>2, <1>9 DEF PolicyDiscard, PolicyGood, PolicyPage
<1>10. CASE PolicySave
  <2> DEFINE u == [ui EXCEPT !.saving = TRUE]
  <2>1. Ask(u, "save", ui.draft)
    BY <1>10 DEF PolicySave
  <2>2. ui' = u /\ db' = db /\ Sends(net, net', "save", ui.draft)
    BY <2>1, AskFills DEF PolicyGood, PolicyCalls
  <2>3. PolicyCalls'
    BY <1>1, <2>2 DEF PolicyGood, PolicyCalls, Sends, NewCall
  <2>4. PolicyPage' /\ PolicyKept'
    BY <2>2 DEF PolicyGood, PolicyPage, PolicyShape, PolicyKept
  <2> QED
    BY <2>3, <2>4 DEF PolicyGood
<1>11. ASSUME NEW v \in 1..(ui.versions - 1), PolicyRollback(v)
       PROVE  PolicyGood'
  <2>1. ui' = ui /\ db' = db /\ Sends(net, net', "rollback", v)
    BY <1>11, AskFills DEF PolicyRollback, PolicyGood, PolicyCalls
  <2>2. v \in 1..Len(db.versions)
    BY DEF PolicyGood, PolicyPage, PolicyKept
  <2>3. PolicyCalls'
    BY <2>1, <2>2 DEF PolicyGood, PolicyCalls, Sends, NewCall
  <2>4. PolicyPage' /\ PolicyKept'
    BY <2>1 DEF PolicyGood, PolicyPage, PolicyShape, PolicyKept
  <2> QED
    BY <2>3, <2>4 DEF PolicyGood
<1> QED
  BY <1>3, <1>4, <1>4a, <1>4b, <1>5, <1>6, <1>7, <1>8, <1>9, <1>10, <1>11 DEF PolicyUser

LEMMA PolicyServerStep ==
    ASSUME screen = "policy", PolicyGood, NEW s \in Slots, Serve(s) \/ Fault(s)
    PROVE  PolicyGood'
<1>1. PICK st, r : net' = Answered(s, st, r) /\ (st = "ok" => r = Answer(net[s]) /\ db' = Effect(net[s]))
  BY DEF Serve, Fault
<1>2. Busy(s) /\ ui' = ui
  BY DEF Serve, Fault
<1>3. db' = db \/ db' = Effect(net[s])
  BY DEF Serve, Fault
<1>4. Answer(net[s]) = PolicyAnswer(net[s]) /\ Effect(net[s]) = PolicyEffect(net[s])
  BY DEF Answer, Effect
<1>5. PolicyKept' /\ Len(db'.versions) \in Nat /\ Len(db.versions) <= Len(db'.versions)
  <2>1. CASE db' = db
    BY <2>1 DEF PolicyGood, PolicyKept
  <2>2. CASE db' = PolicyEffect(net[s]) /\ db' # db
    <3>1. \E p \in Policy : db' = [config |-> p, versions |-> Append(db.versions, p)]
      <4>1. CASE net[s].k = "save"
        <5>1. net[s].a \in Policy
          BY <1>2, <4>1 DEF PolicyGood, PolicyCalls, Busy
        <5> QED
          BY <2>2, <4>1, <5>1 DEF PolicyEffect
      <4>2. CASE net[s].k = "rollback"
        <5>1. db.versions[net[s].a] \in Policy
          BY <1>2, <4>2, ElementOfSeq DEF PolicyGood, PolicyCalls, PolicyKept, Busy
        <5> QED
          BY <2>2, <4>2, <5>1 DEF PolicyEffect
      <4> QED
        BY <2>2, <4>1, <4>2 DEF PolicyEffect
    <3>2. PICK p \in Policy : db' = [config |-> p, versions |-> Append(db.versions, p)]
      BY <3>1
    <3>3. db'.config = p /\ db'.versions = Append(db.versions, p)
      BY <3>2
    <3>4. Append(db.versions, p) \in Seq(Policy) /\ Len(Append(db.versions, p)) = Len(db.versions) + 1
      BY AppendProperties DEF PolicyGood, PolicyKept
    <3>5. Len(db.versions) \in Nat
      BY DEF PolicyGood, PolicyKept
    <3> QED
      BY <3>3, <3>4, <3>5 DEF PolicyKept
  <2> QED
    BY <1>3, <1>4, <2>1, <2>2
<1>6. /\ CallsIn(net') /\ net'[s].k = net[s].k /\ net'[s].a = net[s].a /\ net'[s].st = st /\ net'[s].r = r
      /\ \A t \in Slots \ {s} : net'[t] = net[t]
  BY <1>1, <1>2, AnswerFills DEF PolicyGood, PolicyCalls
<1>7. (net[s].k = "list" /\ st = "ok") =>
         r.config \in Policy /\ r.versions \in Nat /\ r.versions <= Len(db'.versions)
  <2> SUFFICES ASSUME net[s].k = "list", st = "ok"
               PROVE  r.config \in Policy /\ r.versions \in Nat /\ r.versions <= Len(db'.versions)
    OBVIOUS
  <2>1. r = [config |-> db.config, versions |-> Len(db.versions)]
    BY <1>1, <1>4 DEF PolicyAnswer
  <2> QED
    BY <1>5, <2>1 DEF PolicyGood, PolicyKept
<1>8. Len(db.versions) \in Nat
  BY DEF PolicyGood, PolicyKept
<1>9. \A t \in Slots : net'[t] # NoCall =>
         /\ net'[t].k = "save" => net'[t].a \in Policy
         /\ net'[t].k = "rollback" => net'[t].a \in 1..Len(db'.versions)
         /\ (net'[t].k = "list" /\ net'[t].st = "ok") =>
               /\ net'[t].r.config \in Policy
               /\ net'[t].r.versions \in Nat /\ net'[t].r.versions <= Len(db'.versions)
  <2> SUFFICES ASSUME NEW t \in Slots, net'[t] # NoCall
               PROVE  /\ net'[t].k = "save" => net'[t].a \in Policy
                      /\ net'[t].k = "rollback" => net'[t].a \in 1..Len(db'.versions)
                      /\ (net'[t].k = "list" /\ net'[t].st = "ok") =>
                            /\ net'[t].r.config \in Policy
                            /\ net'[t].r.versions \in Nat /\ net'[t].r.versions <= Len(db'.versions)
    OBVIOUS
  <2>1. CASE t = s
    BY <1>2, <1>5, <1>6, <1>7, <1>8, <2>1 DEF PolicyGood, PolicyCalls, Busy
  <2>2. CASE t # s
    BY <1>5, <1>6, <1>8, <2>2 DEF PolicyGood, PolicyCalls
  <2> QED
    BY <2>1, <2>2
<1>10. PolicyCalls'
  BY <1>6, <1>9 DEF PolicyCalls
<1>11. PolicyPage'
  BY <1>2, <1>5, <1>8 DEF PolicyGood, PolicyPage, PolicyShape
<1> QED
  BY <1>5, <1>10, <1>11 DEF PolicyGood

LEMMA PolicyResumeStep ==
    ASSUME PolicyGood, NEW s \in Slots, Busy(s), PolicyResume(s)
    PROVE  PolicyGood'
<1>1. db' = db
  BY DEF PolicyResume, PolicyLoaded, PolicySaved, PolicyRolledBack, Refresh, Resume
<1>2. CallsIn(Rest(s)) /\ Rest(s)[s] = NoCall /\ \A t \in Slots \ {s} : Rest(s)[t] = net[t]
  BY RestFrees DEF PolicyGood, PolicyCalls
<1>3. PolicyKept'
  BY <1>1 DEF PolicyGood, PolicyKept
<1>4. ASSUME net' = Rest(s) PROVE PolicyCalls'
  BY <1>1, <1>2, <1>4 DEF PolicyGood, PolicyCalls
<1>5. ASSUME net' = Send(Rest(s), "list", None) PROVE PolicyCalls'
  <2>1. Sends(Rest(s), net', "list", None)
    BY <1>2, <1>5, SendFills
  <2> QED
    BY <1>1, <1>2, <2>1 DEF PolicyGood, PolicyCalls, Sends, NewCall
<1>6. CASE net[s].k = "list" /\ PolicyLoaded(s)
  <2> DEFINE u == [ui EXCEPT !.loading = FALSE]
             c == net[s].r.config
             n == net[s].r.versions
  <2>1. net' = Rest(s) /\ ui' = IF Ok(s) THEN [u EXCEPT !.policy = c, !.draft = c, !.versions = n] ELSE u
    BY <1>6 DEF PolicyLoaded, Resume
  <2>2. /\ DOMAIN u = {"admin", "loading", "policy", "draft", "versions", "saving"}
        /\ u.policy = ui.policy /\ u.draft = ui.draft /\ u.versions = ui.versions
    BY DEF PolicyGood, PolicyPage, PolicyShape
  <2>3. Ok(s) => c \in Policy /\ n \in Nat /\ n <= Len(db.versions)
    BY <1>6 DEF PolicyGood, PolicyCalls, Busy, Ok
  <2> HIDE DEF u, c, n
  <2>4. PolicyPage'
    <3>1. CASE Ok(s)
      BY <1>1, <2>1, <2>2, <2>3, <3>1 DEF PolicyPage, PolicyShape
    <3>2. CASE ~Ok(s)
      BY <1>1, <2>1, <2>2, <3>2 DEF PolicyGood, PolicyPage, PolicyShape
    <3> QED
      BY <3>1, <3>2
  <2> QED
    BY <1>3, <1>4, <2>1, <2>4 DEF PolicyGood
<1>7. CASE PolicySaved(s) \/ PolicyRolledBack(s)
  <2>1. net' = Rest(s) \/ net' = Send(Rest(s), "list", None)
    BY <1>7 DEF PolicySaved, PolicyRolledBack, Refresh, Resume
  <2>2. PolicyPage'
    <3> DEFINE u == [ui EXCEPT !.saving = FALSE]
    <3>1. ui' \in {ui, u, [ui EXCEPT !.loading = TRUE], [u EXCEPT !.loading = TRUE]}
      BY <1>7 DEF PolicySaved, PolicyRolledBack, Refresh, Resume
    <3>2. DOMAIN ui' = DOMAIN ui /\ ui'.policy = ui.policy /\ ui'.draft = ui.draft /\ ui'.versions = ui.versions
      BY <3>1 DEF PolicyGood, PolicyPage, PolicyShape
    <3> QED
      BY <1>1, <3>2 DEF PolicyGood, PolicyPage, PolicyShape
  <2> QED
    BY <1>3, <1>4, <1>5, <2>1, <2>2 DEF PolicyGood
<1> QED
  BY <1>6, <1>7 DEF PolicyResume

\* The badge beside each stage of the draft says what the server will do with a
\* document that this stage alone matches: stageSoloOutcome of the builder and
\* run_policy agree on every policy, and the draft is one whatever is edited,
\* saved, rolled back and reloaded meanwhile.
THEOREM BadgesPredict == Spec => []BadgePredictsServer
<1>1. Init => PolicyInv
  <2> SUFFICES ASSUME Init, screen = "policy" PROVE PolicyGood
    BY DEF PolicyInv
  <2>1. PICK a : ui = PolicyUi(a)
    BY DEF Init
  <2>2. db = PolicyDb /\ net = Send(NoCalls, "list", None)
    BY DEF Init
  <2>3. NewStage \in Stage
    BY DEF NewStage, Stage
  <2>4. <<NewStage>> \in Seq(Stage)
    BY <2>3
  <2>5. Policy0 \in Policy
    BY <2>4 DEF Policy0, Policy
  <2>6. PolicyKept /\ Len(db.versions) = 1
    BY <2>2, <2>5 DEF PolicyDb, PolicyKept
  <2>7. PolicyPage
    BY <2>1, <2>6 DEF PolicyUi, PolicyPage, PolicyShape
  <2>8. CallsIn(NoCalls) /\ NoCalls[1] = NoCall /\ \A s \in Slots : NoCalls[s] = NoCall
    BY SomeSlot DEF CallsIn, NoCalls
  <2>9. Sends(NoCalls, net, "list", None)
    BY <2>2, <2>8, SomeSlot, SendFills
  <2>10. PolicyCalls
    BY <2>8, <2>9 DEF PolicyCalls, Sends, NewCall
  <2> QED
    BY <2>6, <2>7, <2>10 DEF PolicyGood
<1>2. PolicyInv /\ [Next]_vars => PolicyInv'
  <2> SUFFICES ASSUME PolicyInv, [Next]_vars, screen' = "policy" PROVE PolicyGood'
    BY DEF PolicyInv
  <2>1. screen = "policy"
    BY PageStays
  <2>2. PolicyGood
    BY <2>1 DEF PolicyInv
  <2>3. CASE UNCHANGED vars
    BY <2>2, <2>3 DEF PolicyGood, PolicyPage, PolicyShape, PolicyCalls, PolicyKept, vars
  <2>4. CASE PolicyUser
    BY <2>2, <2>4, PolicyUserStep
  <2>5. ASSUME NEW s \in Slots, Serve(s) \/ Fault(s)
        PROVE  PolicyGood'
    BY <2>1, <2>2, <2>5, PolicyServerStep
  <2>6. ASSUME NEW s \in Slots, Continue(s)
        PROVE  PolicyGood'
    <3>1. Busy(s) /\ PolicyResume(s)
      BY <2>1, <2>6 DEF Continue
    <3> QED
      BY <2>2, <3>1, PolicyResumeStep
  <2> QED
    BY <2>1, <2>3, <2>4, <2>5, <2>6 DEF Next, Act, Interval, Elsewhere
<1>3. PolicyInv => BadgePredictsServer
  BY BadgeAgrees DEF PolicyInv, PolicyGood, PolicyPage, BadgePredictsServer
<1> QED
  BY <1>1, <1>2, <1>3, PTL DEF Spec

----------------------------------------------------------------------------
(* Labelling: boxes are told apart by their numbers, so every operation on *)
(* them must keep the numbers apart.  The numbers of an image are bounded, *)
(* else there would be no largest one.                                     *)

NumberedApart(B) ==
    /\ B \subseteq [seq : Nat, v : {0, 1}]
    /\ \A b, c \in B : b.seq = c.seq => b = c
    /\ \E n \in Nat : \A b \in B : b.seq <= n

LEMMA BoxesFinite ==
    ASSUME NEW B, NumberedApart(B)
    PROVE  IsFiniteSet(B)
<1>1. PICK n \in Nat : \A b \in B : b.seq <= n
  BY DEF NumberedApart
<1> DEFINE f == [b \in B |-> b.seq]
<1>2. f \in Injection(B, 0..n)
  BY <1>1 DEF NumberedApart, Injection, IsInjective
<1>3. IsFiniteSet(0..n)
  BY FS_Interval
<1> QED
  BY <1>2, <1>3, FS_Injection

\* nextSeq is larger than every number in use.
LEMMA NextSeqIsNew ==
    ASSUME NEW B, NumberedApart(B)
    PROVE  NextSeq(B) \in Nat /\ \A b \in B : b.seq < NextSeq(B)
<1>1. CASE B = {}
  BY <1>1 DEF NextSeq
<1>2. CASE B # {}
  <2> DEFINE U == {n \in Nat : \A b \in B : b.seq <= n}
             M == {b.seq : b \in B}
  <2>1. U \in SUBSET Nat /\ U # {}
    BY DEF NumberedApart
  <2>2. PICK u \in U : \A n \in U : u <= n
    BY <2>1, Smallest
  <2>3. u \in M
    <3> SUFFICES ASSUME u \notin M PROVE FALSE
      OBVIOUS
    <3>1. \A b \in B : b.seq \in Nat /\ b.seq <= u /\ b.seq # u
      BY DEF NumberedApart
    <3>2. \A b \in B : b.seq <= u - 1
      BY <3>1
    <3>3. u - 1 \in Nat
      BY <1>2, <3>1
    <3>4. u - 1 \in U /\ ~(u <= u - 1)
      BY <3>2, <3>3
    <3> QED
      BY <2>2, <3>4
  <2>4. \E n \in M : \A b \in B : b.seq <= n
    BY <2>2, <2>3
  <2> DEFINE n == CHOOSE n \in M : \A b \in B : b.seq <= n
  <2>5. n \in M /\ \A b \in B : b.seq <= n
    BY <2>4
  <2>6. NextSeq(B) = 1 + n
    BY <1>2 DEF NextSeq
  <2> HIDE DEF n
  <2>7. n \in Nat /\ \A b \in B : b.seq \in Nat
    BY <2>5 DEF NumberedApart
  <2> QED
    BY <2>5, <2>6, <2>7
<1> QED
  BY <1>1, <1>2

\* A new box.
LEMMA AddedApart ==
    ASSUME NEW B, NumberedApart(B), NEW v \in {0, 1}
    PROVE  NumberedApart(B \cup {Box(NextSeq(B), v)})
<1>1. NextSeq(B) \in Nat /\ \A b \in B : b.seq < NextSeq(B) /\ b.seq \in Nat
  BY NextSeqIsNew DEF NumberedApart
<1> DEFINE x == Box(NextSeq(B), v)
<1>2. x \in [seq : Nat, v : {0, 1}] /\ x.seq = NextSeq(B)
  BY <1>1 DEF Box
<1> HIDE DEF x
<1>3. \A b \in B \cup {x} : b.seq <= NextSeq(B)
  BY <1>1, <1>2
<1>4. \A b, c \in B \cup {x} : b.seq = c.seq => b = c
  BY <1>1, <1>2 DEF NumberedApart
<1>5. B \cup {x} \subseteq [seq : Nat, v : {0, 1}]
  BY <1>2 DEF NumberedApart
<1>6. NumberedApart(B \cup {x})
  BY <1>1, <1>3, <1>4, <1>5 DEF NumberedApart
<1> QED
  BY <1>6 DEF x

\* A box is given a text.
LEMMA TextedApart ==
    ASSUME NEW B, NumberedApart(B), NEW q
    PROVE  NumberedApart({IF b.seq = q THEN [b EXCEPT !.v = 1] ELSE b : b \in B})
<1> DEFINE T(b) == IF b.seq = q THEN [b EXCEPT !.v = 1] ELSE b
           C == {T(b) : b \in B}
<1>1. \A b \in B : T(b) \in [seq : Nat, v : {0, 1}] /\ T(b).seq = b.seq
  BY DEF NumberedApart
<1> HIDE DEF T
<1>2. C \subseteq [seq : Nat, v : {0, 1}]
  BY <1>1
<1>3. \A b, c \in C : b.seq = c.seq => b = c
  BY <1>1 DEF NumberedApart
<1>4. \E n \in Nat : \A b \in C : b.seq <= n
  BY <1>1 DEF NumberedApart
<1>5. NumberedApart(C)
  BY <1>2, <1>3, <1>4 DEF NumberedApart
<1> QED
  BY <1>5 DEF T

\* A box is deleted.
LEMMA DeletedApart ==
    ASSUME NEW B, NumberedApart(B), NEW q
    PROVE  NumberedApart({b \in B : b.seq # q})
BY DEF NumberedApart

\* Renumbering gives each box its place in the order of the numbers.
LEMMA RenumberedApart ==
    ASSUME NEW B, NumberedApart(B)
    PROVE  NumberedApart(Renumbered(B))
<1> DEFINE Upto(b) == {c \in B : c.seq <= b.seq}
           R(b) == [b EXCEPT !.seq = Cardinality(Upto(b))]
<1>1. IsFiniteSet(B) /\ Cardinality(B) \in Nat
  BY BoxesFinite, FS_CardinalityType
<1>2. \A b \in B : IsFiniteSet(Upto(b)) /\ Cardinality(Upto(b)) \in Nat /\ Cardinality(Upto(b)) <= Cardinality(B)
  BY <1>1, FS_Subset, FS_CardinalityType
<1>3. ASSUME NEW b \in B, NEW c \in B, Cardinality(Upto(b)) = Cardinality(Upto(c))
      PROVE  b = c
  <2>1. b.seq \in Nat /\ c.seq \in Nat /\ \A d \in B : d.seq \in Nat
    BY DEF NumberedApart
  <2>2. CASE b.seq <= c.seq
    <3>1. Upto(b) \in SUBSET Upto(c)
      BY <2>1, <2>2
    <3>2. Upto(c) = Upto(b)
      BY <1>2, <1>3, <3>1, FS_Subset
    <3>3. c \in Upto(b)
      BY <2>1, <3>2
    <3> QED
      BY <2>1, <2>2, <3>3 DEF NumberedApart
  <2>3. CASE c.seq <= b.seq
    <3>1. Upto(c) \in SUBSET Upto(b)
      BY <2>1, <2>3
    <3>2. Upto(c) = Upto(b)
      BY <1>2, <1>3, <3>1, FS_Subset
    <3>3. b \in Upto(c)
      BY <2>1, <3>2
    <3> QED
      BY <2>1, <2>3, <3>3 DEF NumberedApart
  <2> QED
    BY <2>1, <2>2, <2>3
<1> HIDE DEF Upto
<1>4. \A b \in B : R(b) \in [seq : Nat, v : {0, 1}] /\ R(b).seq = Cardinality(Upto(b))
  BY <1>2 DEF NumberedApart
<1> HIDE DEF R
<1> DEFINE C == {R(b) : b \in B}
<1>5. C \subseteq [seq : Nat, v : {0, 1}] /\ \A b \in C : b.seq <= Cardinality(B)
  BY <1>2, <1>4
<1>6. \A b, c \in C : b.seq = c.seq => b = c
  BY <1>3, <1>4
<1>7. NumberedApart(C)
  BY <1>1, <1>5, <1>6 DEF NumberedApart
<1>8. Renumbered(B) = C
  BY DEF Renumbered, R, Upto
<1> QED
  BY <1>7, <1>8

\* The images of the instance, and the box of an import.
LEMMA GivenApart == NumberedApart({}) /\ NumberedApart({Box(1, 1)}) /\ NumberedApart({Box(1, 0), Box(2, 1)})
<1>1. NumberedApart({})
  BY DEF NumberedApart
<1>2. NumberedApart({Box(1, 1)})
  BY DEF NumberedApart, Box
<1>3. NumberedApart({Box(1, 0), Box(2, 1)})
  <2>1. \A b \in {Box(1, 0), Box(2, 1)} : b.seq <= 2
    BY DEF Box
  <2> QED
    BY <2>1 DEF NumberedApart, Box
<1> QED
  BY <1>1, <1>2, <1>3

\* The editor's state, the requests it sends and the images of the server.
EditorFields ==
    {"img", "loading", "boxes", "meta", "status", "bt", "mt", "saving", "sel", "edit", "detecting", "cands", "splitting"}
EditorGood(e) == DOMAIN e = EditorFields /\ e.img \in Rows /\ NumberedApart(e.boxes)
IsEditorCall(k, a) ==
    /\ DOMAIN a = {"img", "val", "then", "gone", "meta"} /\ a.img \in Rows
    /\ k = "boxes" => NumberedApart(a.val)

LabelingPage == DOMAIN ui = {"ed", "rows", "loading", "drawn"} /\ (ui.ed # None => EditorGood(ui.ed))
LabelingCalls ==
    /\ CallsIn(net)
    /\ \A s \in Slots : (net[s] # NoCall /\ net[s].k # "list") =>
          /\ EditorGood(ui.ed)
          /\ IsEditorCall(net[s].k, net[s].a)
          /\ (net[s].k = "load" /\ net[s].st = "ok") => NumberedApart(net[s].r.boxes)
LabelingImages ==
    /\ DOMAIN db = {"imgs"} /\ DOMAIN db.imgs = Rows
    /\ \A r \in Rows : /\ DOMAIN db.imgs[r] = {"boxes", "meta", "status", "label"}
                       /\ NumberedApart(db.imgs[r].boxes)

LabelingGood == LabelingPage /\ LabelingCalls /\ LabelingImages
LabelingInv == screen = "labeling" => LabelingGood

\* The first row.
LEMMA FirstRow == Fresh(NoRows) \in Rows
<1>1. \E r \in Rows : NoRows[r] = None
  BY BrowserAssumption DEF NoRows
<1> QED
  BY <1>1 DEF Fresh

\* A step that leaves a good editor and sends at most one good request.
LEMMA LabelingKept ==
    ASSUME LabelingGood, EditorGood(ui'.ed), DOMAIN ui' = DOMAIN ui, db' = db, net' = net
    PROVE  LabelingGood'
<1>1. LabelingPage'
  BY DEF LabelingGood, LabelingPage
<1>2. LabelingCalls'
  BY DEF LabelingGood, LabelingCalls
<1>3. LabelingImages'
  BY DEF LabelingGood, LabelingImages
<1> QED
  BY <1>1, <1>2, <1>3 DEF LabelingGood

LEMMA LabelingSends ==
    ASSUME LabelingPage, LabelingImages, EditorGood(ui'.ed), DOMAIN ui' = DOMAIN ui, db' = db,
           NEW m, CallsIn(m),
           \A s \in Slots : (m[s] # NoCall /\ m[s].k # "list") =>
              /\ IsEditorCall(m[s].k, m[s].a)
              /\ (m[s].k = "load" /\ m[s].st = "ok") => NumberedApart(m[s].r.boxes),
           NEW k, NEW a, IsEditorCall(k, a), Sends(m, net', k, a)
    PROVE  LabelingGood'
<1>1. LabelingPage'
  BY DEF LabelingPage
<1>2. LabelingImages'
  BY DEF LabelingImages
<1>3. PICK t \in Slots : net'[t] = NewCall(k, a) /\ \A s \in Slots \ {t} : net'[s] = m[s]
  BY DEF Sends
<1>4. net'[t].k = k /\ net'[t].a = a /\ net'[t].st = "sent" /\ CallsIn(net')
  BY <1>3 DEF NewCall, Sends
<1>5. LabelingCalls'
  <2> SUFFICES ASSUME NEW s \in Slots, net'[s] # NoCall, net'[s].k # "list"
               PROVE  /\ IsEditorCall(net'[s].k, net'[s].a)
                      /\ (net'[s].k = "load" /\ net'[s].st = "ok") => NumberedApart(net'[s].r.boxes)
    BY <1>4 DEF LabelingCalls
  <2>1. CASE s = t
    BY <1>4, <2>1
  <2>2. CASE s # t
    BY <1>3, <2>2
  <2> QED
    BY <2>1, <2>2
<1> QED
  BY <1>1, <1>2, <1>5 DEF LabelingGood

\* The editor changes and saves nothing yet.
LEMMA EditorSetStep ==
    ASSUME LabelingGood, NEW e, EditorGood(e), EditorSet(e) \/ EditorDrawn(e)
    PROVE  LabelingGood'
<1>1. CASE EditorSet(e)
  <2>1. ui' = [ui EXCEPT !.ed = e] /\ net' = net /\ db' = db
    BY <1>1 DEF EditorSet, User
  <2>2. ui'.ed = e /\ DOMAIN ui' = DOMAIN ui
    BY <2>1 DEF LabelingGood, LabelingPage
  <2> QED
    BY <2>1, <2>2, LabelingKept
<1>2. CASE EditorDrawn(e)
  <2> DEFINE f == [e EXCEPT !.bt = TRUE]
  <2>1. ui' = [ui EXCEPT !.ed = f, !.drawn[Ed.img] = e.boxes] /\ net' = net /\ db' = db
    BY <1>2 DEF EditorDrawn
  <2>2. EditorGood(f)
    BY DEF EditorGood, EditorFields
  <2> HIDE DEF f
  <2>3. ui'.ed = f /\ DOMAIN ui' = DOMAIN ui
    BY <2>1 DEF LabelingGood, LabelingPage
  <2> QED
    BY <2>1, <2>2, <2>3, LabelingKept
<1> QED
  BY <1>1, <1>2

\* The editor sends a request.
LEMMA EditorAskStep ==
    ASSUME LabelingGood, NEW u, EditorGood(u.ed), DOMAIN u = DOMAIN ui,
           NEW k, NEW img \in Rows, NEW val, NEW then, k = "boxes" => NumberedApart(val),
           ui' = u, db' = db, Sends(net, net', k, EditorCall(img, val, then))
    PROVE  LabelingGood'
<1> DEFINE a == EditorCall(img, val, then)
<1>1. IsEditorCall(k, a)
  BY DEF IsEditorCall, EditorCall
<1> HIDE DEF a
<1>2. CallsIn(net) /\ \A s \in Slots : (net[s] # NoCall /\ net[s].k # "list") =>
              /\ IsEditorCall(net[s].k, net[s].a)
              /\ (net[s].k = "load" /\ net[s].st = "ok") => NumberedApart(net[s].r.boxes)
  BY DEF LabelingGood, LabelingCalls
<1>3. Sends(net, net', k, a)
  BY DEF a
<1>4. LabelingPage /\ LabelingImages
  BY DEF LabelingGood
<1> QED
  BY <1>1, <1>2, <1>3, <1>4, LabelingSends

LEMMA LabelingSelectStep ==
    ASSUME LabelingGood, NEW r \in Rows, LabelingSelect(r)
    PROVE  LabelingGood'
<1> DEFINE m == Unmounted(net)
<1>1. /\ ui' = [ui EXCEPT !.ed = EditorUi(r)] /\ db' = db
      /\ net' = Send(m, "load", EditorCall(r, None, "no"))
  BY DEF LabelingSelect, EditorLoad
<1>2. EditorGood(EditorUi(r))
  BY GivenApart DEF EditorUi, EditorGood, EditorFields
<1>3. ui'.ed = EditorUi(r) /\ DOMAIN ui' = DOMAIN ui
  BY <1>1 DEF LabelingGood, LabelingPage
<1>4. \A s \in Slots : (net[s] = NoCall \/ net[s].k = "list") => m[s] = net[s]
  BY DEF Unmounted
<1>5. ASSUME NEW s \in Slots, net[s] # NoCall, net[s].k # "list"
      PROVE  /\ IsCall(m[s]) /\ m[s].k = net[s].k /\ m[s].st = net[s].st /\ m[s].r = net[s].r
             /\ IsEditorCall(m[s].k, m[s].a)
  <2> DEFINE a == [net[s].a EXCEPT !.gone = TRUE, !.meta = Ed.meta]
  <2>1. net[s] = [k |-> net[s].k, a |-> net[s].a, st |-> net[s].st, r |-> net[s].r]
    BY <1>5 DEF LabelingGood, LabelingCalls, CallsIn, IsCall
  <2>2. m[s] = [net[s] EXCEPT !.a.gone = TRUE, !.a.meta = Ed.meta]
    BY <1>5 DEF Unmounted
  <2>3. m[s] = [k |-> net[s].k, a |-> a, st |-> net[s].st, r |-> net[s].r]
    BY <2>1, <2>2
  <2>4. IsEditorCall(net[s].k, net[s].a)
    BY <1>5 DEF LabelingGood, LabelingCalls
  <2>5. IsEditorCall(net[s].k, a)
    BY <2>4 DEF IsEditorCall
  <2> HIDE DEF a, m
  <2> QED
    BY <2>3, <2>5 DEF IsCall
<1>6. m = [s \in Slots |-> m[s]]
  BY DEF Unmounted
<1> HIDE DEF m
<1>7. CallsIn(m)
  BY <1>4, <1>5, <1>6 DEF CallsIn, LabelingGood, LabelingCalls
<1>8. \A s \in Slots : (m[s] # NoCall /\ m[s].k # "list") =>
              /\ IsEditorCall(m[s].k, m[s].a)
              /\ (m[s].k = "load" /\ m[s].st = "ok") => NumberedApart(m[s].r.boxes)
  BY <1>4, <1>5 DEF LabelingGood, LabelingCalls
<1>9. PICK i \in Slots : net[i] = NoCall
  BY RoomIsIdle DEF LabelingSelect
<1> DEFINE a == EditorCall(r, None, "no")
<1>10. IsEditorCall("load", a)
  BY DEF IsEditorCall, EditorCall
<1>11. net' = Send(m, "load", a) /\ m[i] = NoCall
  BY <1>1, <1>4, <1>9
<1> HIDE DEF a
<1>12. Sends(m, net', "load", a)
  BY <1>7, <1>9, <1>11, SendFills
<1>13. LabelingPage /\ LabelingImages
  BY DEF LabelingGood
<1>14. EditorGood(ui'.ed)
  BY <1>2, <1>3
<1> QED
  BY <1>1, <1>3, <1>7, <1>8, <1>10, <1>12, <1>13, <1>14, LabelingSends

LEMMA LabelingUserStep ==
    ASSUME LabelingGood, LabelingUser
    PROVE  LabelingGood'
<1>1. ASSUME NEW r \in Rows, LabelingSelect(r) PROVE LabelingGood'
  BY <1>1, LabelingSelectStep
<1>2. SUFFICES ASSUME EditorReady PROVE LabelingGood'
  BY <1>1 DEF LabelingUser
<1>3. /\ EditorGood(Ed) /\ DOMAIN Ed = EditorFields /\ Ed.img \in Rows /\ NumberedApart(Ed.boxes)
      /\ DOMAIN ui = {"ed", "rows", "loading", "drawn"}
  BY <1>2 DEF EditorReady, Ed, LabelingGood, LabelingPage, EditorGood
<1>4. ASSUME NEW B, NumberedApart(B), NEW x, NEW y
      PROVE  /\ EditorGood([Ed EXCEPT !.boxes = B])
             /\ EditorGood([Ed EXCEPT !.boxes = B, !.edit = x])
             /\ EditorGood([Ed EXCEPT !.boxes = B, !.sel = x])
             /\ EditorGood([Ed EXCEPT !.boxes = B, !.sel = x, !.cands = y])
             /\ EditorGood([Ed EXCEPT !.boxes = B, !.meta = 0, !.sel = None, !.mt = TRUE])
  BY <1>3, <1>4 DEF EditorGood, EditorFields
<1>5. ASSUME NEW x, NEW y
      PROVE  /\ EditorGood([Ed EXCEPT !.sel = x, !.edit = y])
             /\ EditorGood([Ed EXCEPT !.sel = x])
             /\ EditorGood([Ed EXCEPT !.edit = x])
             /\ EditorGood([Ed EXCEPT !.cands = x])
             /\ EditorGood([Ed EXCEPT !.saving = x])
             /\ EditorGood([Ed EXCEPT !.splitting = x])
             /\ EditorGood([Ed EXCEPT !.detecting = x])
  BY <1>3 DEF EditorGood, EditorFields
<1>6. ASSUME NEW q
      PROVE  /\ NumberedApart(EditorTexted(q, 1))
             /\ NumberedApart({b \in Ed.boxes : b.seq # q})
  BY <1>3, TextedApart, DeletedApart DEF EditorTexted
<1>7. CASE EditorCommit
  <2> DEFINE e == [Ed EXCEPT !.boxes = EditorTexted(Ed.sel, 1), !.edit = FALSE]
  <2>1. EditorGood(e)
    BY <1>4, <1>6
  <2>2. EditorDrawn(e)
    BY <1>7 DEF EditorCommit
  <2> HIDE DEF e
  <2> QED
    BY <2>1, <2>2, EditorSetStep
<1>8. CASE EditorCancel \/ EditorReject
  BY <1>5, <1>8, EditorSetStep DEF EditorCancel, EditorReject
<1>9. ASSUME NEW v \in {0, 1}, EditorNew(v) PROVE LabelingGood'
  <2> DEFINE n == NextSeq(Ed.boxes)
             B == Ed.boxes \cup {Box(n, v)}
             e == [Ed EXCEPT !.boxes = B, !.sel = IF v = 0 THEN n ELSE @, !.cands = IF v = 0 THEN @ ELSE {}]
  <2>1. NumberedApart(B)
    BY <1>3, <1>9, AddedApart
  <2>2. EditorDrawn(EditorStamp(e))
    BY <1>9 DEF EditorNew
  <2>3. EditorGood(e)
    BY <1>3, <2>1 DEF EditorGood, EditorFields
  <2> HIDE DEF e
  <2> DEFINE f == [e EXCEPT !.meta = 1, !.mt = TRUE]
  <2>4. EditorGood(f)
    BY <2>3 DEF EditorGood, EditorFields
  <2>5. EditorStamp(e) = e \/ EditorStamp(e) = f
    BY DEF EditorStamp
  <2> HIDE DEF f
  <2> QED
    BY <2>2, <2>3, <2>4, <2>5, EditorSetStep
<1>10. ASSUME NEW q, EditorText(q) PROVE LabelingGood'
  BY <1>4, <1>6, <1>10, EditorSetStep DEF EditorText
<1>11. ASSUME NEW q, EditorBegin(q) \/ EditorSelect(q) PROVE LabelingGood'
  BY <1>5, <1>11, EditorSetStep DEF EditorBegin, EditorSelect
<1>12. ASSUME NEW q, EditorDelete(q) PROVE LabelingGood'
  <2> DEFINE B == {b \in Ed.boxes : b.seq # q}
             e == [Ed EXCEPT !.boxes = B, !.sel = IF @ = q THEN None ELSE @]
  <2>1. EditorDrawn(e)
    BY <1>12 DEF EditorDelete
  <2>2. NumberedApart(B)
    BY <1>6
  <2>3. EditorGood(e)
    BY <1>3, <2>2 DEF EditorGood, EditorFields
  <2> HIDE DEF e
  <2> QED
    BY <2>1, <2>3, EditorSetStep
<1>13. CASE EditorRenumber
  <2> DEFINE e == [Ed EXCEPT !.boxes = Renumbered(@)]
  <2>1. EditorDrawn(e)
    BY <1>13 DEF EditorRenumber
  <2> DEFINE B == Renumbered(Ed.boxes)
  <2>2. NumberedApart(B)
    BY <1>3, RenumberedApart
  <2>3. e = [Ed EXCEPT !.boxes = B]
    OBVIOUS
  <2> HIDE DEF B, e
  <2>4. EditorGood(e)
    BY <1>3, <2>2, <2>3 DEF EditorGood, EditorFields
  <2> QED
    BY <2>1, <2>4, EditorSetStep
<1>14. CASE EditorImport
  BY <1>4, <1>14, GivenApart, EditorSetStep DEF EditorImport
<1>15. CASE EditorDetect
  <2> DEFINE u == [ui EXCEPT !.ed.detecting = TRUE]
  <2>1. Ask(u, "detect", EditorCall(Ed.img, None, "no"))
    BY <1>15 DEF EditorDetect
  <2>2. u.ed = [Ed EXCEPT !.detecting = TRUE] /\ DOMAIN u = DOMAIN ui
    BY <1>3 DEF Ed
  <2>3. EditorGood(u.ed)
    BY <1>5, <2>2
  <2> HIDE DEF u
  <2>4. ui' = u /\ db' = db /\ Sends(net, net', "detect", EditorCall(Ed.img, None, "no"))
    BY <2>1, AskFills DEF LabelingGood, LabelingCalls
  <2>5. DOMAIN u = DOMAIN ui /\ Ed.img \in Rows /\ "detect" # "boxes"
    BY <1>3, <2>2
  <2> QED
    BY <2>3, <2>4, <2>5, EditorAskStep
<1>16. ASSUME NEW e, EditorGood(e), NEW then, EditorFlush(e, then) PROVE LabelingGood'
  <2> DEFINE f == [e EXCEPT !.bt = FALSE, !.mt = FALSE]
             u == [ui EXCEPT !.ed = f]
  <2>1. Ask(u, "boxes", EditorCall(Ed.img, Ed.boxes, then))
    BY <1>16 DEF EditorFlush
  <2>2. EditorGood(f)
    BY <1>16 DEF EditorGood, EditorFields
  <2> HIDE DEF f
  <2>3. u.ed = f /\ DOMAIN u = DOMAIN ui
    BY <1>3
  <2> HIDE DEF u
  <2>4. ui' = u /\ db' = db /\ Sends(net, net', "boxes", EditorCall(Ed.img, Ed.boxes, then))
    BY <2>1, AskFills DEF LabelingGood, LabelingCalls
  <2> QED
    BY <1>3, <2>2, <2>3, <2>4, EditorAskStep
<1>17. CASE EditorSave \/ EditorSplit \/ EditorJson
  BY <1>3, <1>5, <1>16, <1>17 DEF EditorSave, EditorSplit, EditorJson
<1>18. ASSUME NEW st, EditorStatus(st) PROVE LabelingGood'
  <2>1. CASE st = "completed"
    BY <1>3, <1>16, <1>18, <2>1 DEF EditorStatus
  <2>2. CASE st # "completed"
    <3>1. Ask(ui, "status", EditorCall(Ed.img, st, "no"))
      BY <1>18, <2>2 DEF EditorStatus
    <3>2. ui' = ui /\ db' = db /\ Sends(net, net', "status", EditorCall(Ed.img, st, "no"))
      BY <3>1, AskFills DEF LabelingGood, LabelingCalls
    <3>3. EditorGood(ui.ed)
      BY <1>3 DEF Ed
    <3> QED
      BY <1>3, <3>2, <3>3, EditorAskStep
  <2> QED
    BY <2>1, <2>2
<1>19. CASE EditorDraw \/ EditorAccept
  BY <1>9, <1>19 DEF EditorDraw, EditorAccept
<1>20. CASE EditorKey
  BY <1>12, <1>20 DEF EditorKey
<1> QED
  BY <1>1, <1>7, <1>8, <1>10, <1>11, <1>12, <1>13, <1>14, <1>15, <1>17, <1>18, <1>19, <1>20 DEF LabelingUser

LEMMA LabelingTimerStep ==
    ASSUME LabelingGood, EditorTimer
    PROVE  LabelingGood'
<1>1. /\ EditorGood(Ed) /\ DOMAIN Ed = EditorFields /\ Ed.img \in Rows /\ NumberedApart(Ed.boxes)
      /\ DOMAIN ui = {"ed", "rows", "loading", "drawn"}
  BY DEF EditorTimer, Ed, LabelingGood, LabelingPage, EditorGood
<1>2. PICK i \in Slots : net[i] = NoCall
  BY RoomIsIdle DEF EditorTimer, Tick
<1>3. CallsIn(net)
  BY DEF LabelingGood, LabelingCalls
<1>4. CASE Tick([ui EXCEPT !.ed.bt = FALSE, !.ed.saving = TRUE], "boxes", EditorCall(Ed.img, Ed.boxes, "no"))
  <2> DEFINE u == [ui EXCEPT !.ed.bt = FALSE, !.ed.saving = TRUE]
             e == [Ed EXCEPT !.bt = FALSE, !.saving = TRUE]
  <2>1. u.ed = e /\ DOMAIN u = DOMAIN ui
    BY <1>1 DEF Ed
  <2>2. EditorGood(e)
    BY <1>1 DEF EditorGood, EditorFields
  <2>3. ui' = u /\ db' = db /\ net' = Send(net, "boxes", EditorCall(Ed.img, Ed.boxes, "no"))
    BY <1>4 DEF Tick, Fire
  <2> HIDE DEF u, e
  <2>4. Sends(net, net', "boxes", EditorCall(Ed.img, Ed.boxes, "no"))
    BY <1>2, <1>3, <2>3, SendFills
  <2>5. EditorGood(u.ed)
    BY <2>1, <2>2
  <2> QED
    BY <1>1, <2>1, <2>3, <2>4, <2>5, EditorAskStep
<1>5. CASE Tick([ui EXCEPT !.ed.mt = FALSE, !.ed.saving = TRUE], "meta", EditorCall(Ed.img, Ed.meta, "no"))
  <2> DEFINE u == [ui EXCEPT !.ed.mt = FALSE, !.ed.saving = TRUE]
             e == [Ed EXCEPT !.mt = FALSE, !.saving = TRUE]
  <2>1. u.ed = e /\ DOMAIN u = DOMAIN ui
    BY <1>1 DEF Ed
  <2>2. EditorGood(e)
    BY <1>1 DEF EditorGood, EditorFields
  <2>3. ui' = u /\ db' = db /\ net' = Send(net, "meta", EditorCall(Ed.img, Ed.meta, "no"))
    BY <1>5 DEF Tick, Fire
  <2> HIDE DEF u, e
  <2>4. Sends(net, net', "meta", EditorCall(Ed.img, Ed.meta, "no"))
    BY <1>2, <1>3, <2>3, SendFills
  <2>5. EditorGood(u.ed)
    BY <2>1, <2>2
  <2> QED
    BY <1>1, <2>1, <2>3, <2>4, <2>5, EditorAskStep
<1> QED
  BY <1>4, <1>5 DEF EditorTimer

LEMMA LabelingServerStep ==
    ASSUME screen = "labeling", LabelingGood, NEW s \in Slots, Serve(s) \/ Fault(s)
    PROVE  LabelingGood'
<1>1. PICK st, r : net' = Answered(s, st, r) /\ (st = "ok" => r = Answer(net[s]))
  BY DEF Serve, Fault
<1>2. Busy(s) /\ ui' = ui
  BY DEF Serve, Fault
<1>3. db' = db \/ db' = Effect(net[s])
  BY DEF Serve, Fault
<1>4. Answer(net[s]) = LabelingAnswer(net[s]) /\ Effect(net[s]) = LabelingEffect(net[s])
  <2>1. Answer(net[s]) = LabelingAnswer(net[s])
    BY SMTT(30) DEF Answer
  <2>2. Effect(net[s]) = LabelingEffect(net[s])
    BY SMTT(30) DEF Effect
  <2> QED
    BY <2>1, <2>2
<1>5. LabelingImages'
  <2>1. CASE db' = db
    BY <2>1 DEF LabelingGood, LabelingImages
  <2>2. CASE net[s].k \in {"boxes", "meta", "status"} /\ db' = LabelingEffect(net[s])
    <3> DEFINE c == net[s]
    <3>1. IsEditorCall(c.k, c.a)
      BY <1>2, <2>2 DEF LabelingGood, LabelingCalls, Busy
    <3>2. c.a.img \in Rows /\ (c.k = "boxes" => NumberedApart(c.a.val))
      BY <3>1 DEF IsEditorCall
    <3>3. DOMAIN db = {"imgs"} /\ DOMAIN db.imgs = Rows
      BY DEF LabelingGood, LabelingImages
    <3>4. DOMAIN db.imgs[c.a.img] = {"boxes", "meta", "status", "label"} /\ NumberedApart(db.imgs[c.a.img].boxes)
      BY <3>2 DEF LabelingGood, LabelingImages
    <3> HIDE DEF c
    <3>5. PICK d : /\ db' = [db EXCEPT !.imgs[c.a.img] = d]
                   /\ DOMAIN d = {"boxes", "meta", "status", "label"} /\ NumberedApart(d.boxes)
      <4> DEFINE o == db.imgs[c.a.img]
      <4>1. CASE c.k = "boxes"
        <5> DEFINE d == [o EXCEPT !.boxes = c.a.val]
        <5>1. db' = [db EXCEPT !.imgs[c.a.img] = d]
          BY <2>2, <4>1 DEF LabelingEffect, c
        <5>2. DOMAIN d = {"boxes", "meta", "status", "label"} /\ d.boxes = c.a.val
          BY <3>4
        <5> QED
          BY <3>2, <4>1, <5>1, <5>2
      <4>2. CASE c.k = "meta"
        <5> DEFINE d == [o EXCEPT !.meta = c.a.val]
        <5>1. db' = [db EXCEPT !.imgs[c.a.img] = d]
          BY <2>2, <4>2 DEF LabelingEffect, c
        <5>2. DOMAIN d = {"boxes", "meta", "status", "label"} /\ d.boxes = o.boxes
          BY <3>4
        <5> QED
          BY <3>4, <5>1, <5>2
      <4>3. CASE c.k = "status"
        <5> DEFINE l == IF c.a.val = "completed" THEN o.boxes ELSE o.label
                   d == [o EXCEPT !.status = c.a.val, !.label = l]
        <5>1. db' = [db EXCEPT !.imgs[c.a.img].status = c.a.val,
                               !.imgs[c.a.img].label = IF c.a.val = "completed" THEN db.imgs[c.a.img].boxes ELSE @]
          BY <2>2, <4>3 DEF LabelingEffect, c
        <5>2. db' = [db EXCEPT !.imgs[c.a.img] = d]
          BY <3>2, <3>3, <3>4, <5>1
        <5>3. DOMAIN d = {"boxes", "meta", "status", "label"} /\ d.boxes = o.boxes
          BY <3>4
        <5> QED
          BY <3>4, <5>2, <5>3
      <4> QED
        BY <2>2, <4>1, <4>2, <4>3 DEF c
    <3>6. /\ DOMAIN db' = {"imgs"} /\ DOMAIN db'.imgs = Rows /\ db'.imgs[c.a.img] = d
          /\ \A x \in Rows \ {c.a.img} : db'.imgs[x] = db.imgs[x]
      BY <3>2, <3>3, <3>5
    <3> QED
      BY <3>5, <3>6 DEF LabelingGood, LabelingImages
  <2> QED
    BY <1>3, <1>4, <2>1, <2>2 DEF LabelingEffect
<1>6. /\ CallsIn(net') /\ net'[s].k = net[s].k /\ net'[s].a = net[s].a /\ net'[s].st = st /\ net'[s].r = r
      /\ \A t \in Slots \ {s} : net'[t] = net[t]
  BY <1>1, <1>2, AnswerFills DEF LabelingGood, LabelingCalls
<1>7. (net[s].k = "load" /\ st = "ok") => NumberedApart(r.boxes)
  <2> SUFFICES ASSUME net[s].k = "load", st = "ok" PROVE NumberedApart(r.boxes)
    OBVIOUS
  <2>1. IsEditorCall(net[s].k, net[s].a)
    BY <1>2 DEF LabelingGood, LabelingCalls, Busy
  <2> DEFINE o == db.imgs[net[s].a.img]
  <2>2. DOMAIN o = {"boxes", "meta", "status", "label"} /\ NumberedApart(o.boxes)
    BY <2>1, SMTT(30) DEF IsEditorCall, LabelingGood, LabelingImages
  <2>3. r = [o EXCEPT !.boxes = o.boxes]
    BY <1>1, <1>4 DEF LabelingAnswer
  <2> HIDE DEF o
  <2>4. r.boxes = o.boxes
    BY <2>2, <2>3
  <2> QED
    BY <2>2, <2>4
<1>8. LabelingCalls'
  BY <1>2, <1>6, <1>7 DEF LabelingGood, LabelingCalls, Busy
<1>9. LabelingPage'
  BY <1>2 DEF LabelingGood, LabelingPage
<1> QED
  BY <1>5, <1>8, <1>9 DEF LabelingGood

LEMMA LabelingResumeStep ==
    ASSUME LabelingGood, NEW s \in Slots, Busy(s), LabelingResume(s)
    PROVE  LabelingGood'
<1>1. db' = db
  BY DEF LabelingResume, LabelingListed, EditorLoaded, EditorBoxesSaved, EditorMetaSaved, EditorStatusSet,
         EditorExported, EditorDetected, Resume
<1>2. CallsIn(Rest(s)) /\ Rest(s)[s] = NoCall /\ \A t \in Slots \ {s} : Rest(s)[t] = net[t]
  BY RestFrees DEF LabelingGood, LabelingCalls
<1>3. \A t \in Slots : (Rest(s)[t] # NoCall /\ Rest(s)[t].k # "list") =>
              /\ IsEditorCall(Rest(s)[t].k, Rest(s)[t].a)
              /\ (Rest(s)[t].k = "load" /\ Rest(s)[t].st = "ok") => NumberedApart(Rest(s)[t].r.boxes)
  BY <1>2 DEF LabelingGood, LabelingCalls
<1>4. LabelingPage /\ LabelingImages /\ DOMAIN ui = {"ed", "rows", "loading", "drawn"}
  BY DEF LabelingGood, LabelingPage
<1>5. ASSUME net' = Rest(s), DOMAIN ui' = DOMAIN ui, EditorGood(ui'.ed) PROVE LabelingGood'
  <2>1. LabelingCalls'
    BY <1>2, <1>3, <1>5 DEF LabelingCalls
  <2>2. LabelingPage' /\ LabelingImages'
    BY <1>1, <1>4, <1>5 DEF LabelingPage, LabelingImages
  <2> QED
    BY <2>1, <2>2 DEF LabelingGood
<1>6. ASSUME NEW k, NEW a, net' = Send(Rest(s), k, a), IsEditorCall(k, a), DOMAIN ui' = DOMAIN ui, EditorGood(ui'.ed)
      PROVE  LabelingGood'
  <2>1. Sends(Rest(s), net', k, a)
    BY <1>2, <1>6, SendFills
  <2> QED
    BY <1>1, <1>2, <1>3, <1>4, <1>6, <2>1, LabelingSends
<1>7. CASE net[s].k = "list" /\ LabelingListed(s)
  <2> DEFINE u == [ui EXCEPT !.loading = FALSE, !.rows = Got(s, @)]
             r == Fresh(NoRows)
  <2>1. u.ed = ui.ed /\ DOMAIN u = DOMAIN ui
    BY <1>4
  <2>2. CASE Ok(s) /\ Ed = None
    <3>1. ui' = [u EXCEPT !.ed = EditorUi(r)] /\ net' = Send(Rest(s), "load", EditorCall(r, None, "no"))
      BY <1>7, <2>2 DEF LabelingListed, EditorLoad, Resume
    <3>2. EditorGood(EditorUi(r))
      BY GivenApart, FirstRow DEF EditorUi, EditorGood, EditorFields
    <3> DEFINE a == EditorCall(r, None, "no")
    <3>3. IsEditorCall("load", a)
      BY FirstRow DEF IsEditorCall, EditorCall
    <3> HIDE DEF u, a
    <3>4. ui'.ed = EditorUi(r) /\ DOMAIN ui' = DOMAIN ui
      BY <1>4, <2>1, <3>1
    <3>5. net' = Send(Rest(s), "load", a)
      BY <3>1 DEF a
    <3> QED
      BY <1>6, <3>2, <3>3, <3>4, <3>5
  <2>3. CASE ~(Ok(s) /\ Ed = None)
    <3>1. ui' = u /\ net' = Rest(s)
      BY <1>7, <2>3 DEF LabelingListed, Resume
    <3> HIDE DEF u
    <3>2. LabelingCalls'
      BY <1>2, <1>3, <2>1, <3>1 DEF LabelingGood, LabelingCalls
    <3>3. LabelingPage' /\ LabelingImages'
      BY <1>1, <1>4, <2>1, <3>1 DEF LabelingPage, LabelingImages
    <3> QED
      BY <3>2, <3>3 DEF LabelingGood
  <2> QED
    BY <2>2, <2>3
<1>8. SUFFICES ASSUME net[s].k # "list" PROVE LabelingGood'
  BY <1>7 DEF LabelingResume
<1>9. /\ EditorGood(ui.ed) /\ EditorGood(Ed)
      /\ DOMAIN Ed = EditorFields /\ Ed.img \in Rows /\ NumberedApart(Ed.boxes)
      /\ IsEditorCall(net[s].k, net[s].a)
      /\ (net[s].k = "load" /\ net[s].st = "ok") => NumberedApart(net[s].r.boxes)
  BY <1>8 DEF LabelingGood, LabelingCalls, Busy, EditorGood, Ed
<1>10. ASSUME NEW e, EditorGood(e), net' = Rest(s), ui' = EditorSets(s, e) PROVE LabelingGood'
  <2>1. CASE net[s].a.gone
    BY <1>5, <1>9, <1>10, <2>1 DEF EditorSets
  <2>2. CASE ~net[s].a.gone
    <3>1. ui' = [ui EXCEPT !.ed = e]
      BY <1>10, <2>2 DEF EditorSets
    <3>2. ui'.ed = e /\ DOMAIN ui' = DOMAIN ui
      BY <1>4, <3>1
    <3> QED
      BY <1>5, <1>10, <3>2
  <2> QED
    BY <2>1, <2>2
<1>11. ASSUME NEW k, k # "boxes", NEW x, net' = Send(Rest(s), k, [net[s].a EXCEPT !.val = x]), ui' = ui
       PROVE  LabelingGood'
  <2> DEFINE a == [net[s].a EXCEPT !.val = x]
  <2>1. IsEditorCall(k, a)
    BY <1>9, <1>11 DEF IsEditorCall
  <2>2. net' = Send(Rest(s), k, a)
    BY <1>11
  <2> HIDE DEF a
  <2> QED
    BY <1>6, <1>9, <1>11, <2>1, <2>2
<1>12. ASSUME NEW x
       PROVE  /\ EditorGood([Ed EXCEPT !.saving = x])
              /\ EditorGood([Ed EXCEPT !.splitting = x])
              /\ EditorGood([Ed EXCEPT !.loading = x])
              /\ EditorGood([Ed EXCEPT !.status = x])
  BY <1>9 DEF EditorGood, EditorFields
<1>13. ASSUME NEW then PROVE EditorGood(EditorDone(Ed, then))
  BY <1>9, <1>12 DEF EditorDone
<1>14. CASE net[s].k = "load" /\ EditorLoaded(s)
  <2> DEFINE e == [Ed EXCEPT !.loading = FALSE]
             d == net[s].r
             f == [e EXCEPT !.boxes = d.boxes, !.meta = d.meta, !.status = d.status]
  <2>1. net' = Rest(s) /\ ui' = EditorSets(s, IF Ok(s) THEN f ELSE e)
    BY <1>14 DEF EditorLoaded, Resume
  <2>2. EditorGood(e)
    BY <1>12
  <2>3. Ok(s) => NumberedApart(d.boxes)
    BY <1>9, <1>14 DEF Ok
  <2> HIDE DEF e, d
  <2>4. Ok(s) => EditorGood(f)
    BY <2>2, <2>3 DEF EditorGood, EditorFields
  <2> HIDE DEF f
  <2> QED
    BY <1>10, <2>1, <2>2, <2>4
<1>15. CASE EditorBoxesSaved(s)
  <2> DEFINE c == net[s].a
             m == IF c.gone THEN c.meta ELSE Ed.meta
             e == [Ed EXCEPT !.saving = FALSE, !.status = net[s].r.status]
             f == [Ed EXCEPT !.saving = FALSE]
  <2>1. EditorGood(e) /\ EditorGood(f)
    BY <1>9 DEF EditorGood, EditorFields
  <2>2. CASE c.then = "no"
    <3>1. net' = Rest(s) /\ ui' = EditorSets(s, IF Ok(s) THEN e ELSE f)
      BY <1>15, <2>2 DEF EditorBoxesSaved, Resume
    <3> HIDE DEF e, f
    <3> QED
      BY <1>10, <2>1, <3>1
  <2>3. CASE c.then # "no" /\ ~Ok(s)
    <3>1. net' = Rest(s) /\ ui' = EditorSets(s, EditorDone(Ed, c.then))
      BY <1>15, <2>3 DEF EditorBoxesSaved, Resume
    <3> QED
      BY <1>10, <1>13, <3>1
  <2>4. CASE c.then # "no" /\ Ok(s)
    <3>1. net' = Send(Rest(s), "meta", [c EXCEPT !.val = m]) /\ ui' = ui
      BY <1>15, <2>4 DEF EditorBoxesSaved, Resume
    <3> HIDE DEF m
    <3>2. "meta" # "boxes"
      OBVIOUS
    <3> QED
      BY <1>11, <3>1, <3>2
  <2> QED
    BY <2>2, <2>3, <2>4
<1>16. CASE EditorMetaSaved(s)
  <2> DEFINE c == net[s].a
             n == CASE c.then = "completed" -> "status" [] c.then = "split" -> "crops" [] c.then = "json" -> "export" [] OTHER -> "no"
             x == IF n = "status" THEN "completed" ELSE None
  <2>1. n # "boxes"
    OBVIOUS
  <2>2. CASE ~Ok(s) \/ n = "no"
    <3>1. net' = Rest(s) /\ ui' = EditorSets(s, EditorDone(Ed, c.then))
      BY <1>16, <2>2 DEF EditorMetaSaved, Resume
    <3> HIDE DEF n
    <3> QED
      BY <1>10, <1>13, <3>1
  <2>3. CASE ~(~Ok(s) \/ n = "no")
    <3>1. net' = Send(Rest(s), n, [c EXCEPT !.val = x]) /\ ui' = ui
      BY <1>16, <2>3 DEF EditorMetaSaved, Resume
    <3> HIDE DEF n, x
    <3> QED
      BY <1>11, <2>1, <3>1
  <2> QED
    BY <2>2, <2>3
<1>17. CASE EditorStatusSet(s)
  <2>1. net' = Rest(s) /\ ui' = EditorSets(s, IF Ok(s) THEN [Ed EXCEPT !.status = net[s].r] ELSE Ed)
    BY <1>17 DEF EditorStatusSet, Resume
  <2> QED
    BY <1>9, <1>10, <1>12, <2>1
<1>18. CASE EditorExported(s)
  BY <1>10, <1>13, <1>18 DEF EditorExported, Resume
<1>19. CASE EditorDetected(s)
  <2> DEFINE e == [Ed EXCEPT !.detecting = FALSE, !.cands = Got(s, @)]
  <2>1. EditorGood(e)
    BY <1>9 DEF EditorGood, EditorFields
  <2>2. net' = Rest(s) /\ ui' = EditorSets(s, e)
    BY <1>19 DEF EditorDetected, Resume
  <2> HIDE DEF e
  <2> QED
    BY <1>10, <2>1, <2>2
<1> QED
  BY <1>8, <1>14, <1>15, <1>16, <1>17, <1>18, <1>19 DEF LabelingResume

\* No two boxes of the image in the editor carry the same number, so that an
\* edit, a deletion or a saved label means one box: not even when an answer of
\* the server replaces the boxes during an edit, an editor is left while its
\* requests are out, or its boxes are renumbered.
THEOREM BoxNumbersStayUnique == Spec => []BoxNumbersUnique
<1>1. Init => LabelingInv
  <2> SUFFICES ASSUME Init, screen = "labeling" PROVE LabelingGood
    BY DEF LabelingInv
  <2>1. ui = LabelingUi /\ db = LabelingDb /\ net = Send(NoCalls, "list", None)
    BY DEF Init
  <2>2. LabelingPage
    BY <2>1 DEF LabelingUi, LabelingPage
  <2>3. LabelingImages
    BY <2>1, GivenApart DEF LabelingDb, LabelingImages
  <2>4. CallsIn(NoCalls) /\ NoCalls[1] = NoCall /\ \A s \in Slots : NoCalls[s] = NoCall
    BY SomeSlot DEF CallsIn, NoCalls
  <2>5. Sends(NoCalls, net, "list", None)
    BY <2>1, <2>4, SomeSlot, SendFills
  <2>6. LabelingCalls
    BY <2>4, <2>5 DEF LabelingCalls, Sends, NewCall
  <2> QED
    BY <2>2, <2>3, <2>6 DEF LabelingGood
<1>2. LabelingInv /\ [Next]_vars => LabelingInv'
  <2> SUFFICES ASSUME LabelingInv, [Next]_vars, screen' = "labeling" PROVE LabelingGood'
    BY DEF LabelingInv
  <2>1. screen = "labeling"
    BY PageStays
  <2>2. LabelingGood
    BY <2>1 DEF LabelingInv
  <2>3. CASE UNCHANGED vars
    BY <2>2, <2>3 DEF LabelingGood, LabelingPage, LabelingCalls, LabelingImages, vars
  <2>4. CASE LabelingUser
    BY <2>2, <2>4, LabelingUserStep
  <2>5. CASE EditorTimer
    BY <2>2, <2>5, LabelingTimerStep
  <2>6. ASSUME NEW s \in Slots, Serve(s) \/ Fault(s)
        PROVE  LabelingGood'
    BY <2>1, <2>2, <2>6, LabelingServerStep
  <2>7. ASSUME NEW s \in Slots, Continue(s)
        PROVE  LabelingGood'
    <3>1. Busy(s) /\ LabelingResume(s)
      BY <2>1, <2>7 DEF Continue
    <3> QED
      BY <2>2, <3>1, LabelingResumeStep
  <2> QED
    BY <2>1, <2>3, <2>4, <2>5, <2>6, <2>7 DEF Next, Act, Interval, Elsewhere
<1>3. LabelingInv => BoxNumbersUnique
  BY DEF LabelingInv, LabelingGood, LabelingPage, EditorGood, NumberedApart, BoxNumbersUnique
<1> QED
  BY <1>1, <1>2, <1>3, PTL DEF Spec

----------------------------------------------------------------------------
(* Panels: what a panel shows was asked for by the object it is shown for. *)
(* An answer finds the page as it was asked, or is dropped: so the         *)
(* invariants speak of the requests in flight as well as of the page.      *)

\* There is room for two requests: two slots are free.
LEMMA RoomsAreIdle ==
    ASSUME Room(2)
    PROVE  \E i, h \in Slots : i # h /\ net[i] = NoCall /\ net[h] = NoCall
<1>1. IsFiniteSet(Slots) /\ Idle(net) \subseteq Slots /\ \A i \in Idle(net) : net[i] = NoCall
  BY BrowserAssumption, FS_Interval DEF Slots, Idle
<1>2. IsFiniteSet(Idle(net))
  BY <1>1, FS_Subset
<1>3. CASE Idle(net) = {}
  BY <1>3, FS_EmptySet DEF Room
<1>4. CASE \E i \in Idle(net) : Idle(net) = {i}
  BY <1>4, FS_Singleton DEF Room
<1> QED
  BY <1>1, <1>3, <1>4

\* A slot of m is free; two are.
Free(m)  == \E i \in Slots : m[i] = NoCall
Free2(m) == \E i, h \in Slots : i # h /\ m[i] = NoCall /\ m[h] = NoCall

\* The server serves the request in slot s, or it fails.
LEMMA Served ==
    ASSUME CallsIn(net), NEW s \in Slots, Serve(s) \/ Fault(s)
    PROVE  /\ Busy(s) /\ ui' = ui /\ CallsIn(net')
           /\ net'[s].k = net[s].k /\ net'[s].a = net[s].a
           /\ net'[s].st = "ok" => net'[s].r = Answer(net[s])
           /\ net'[s].st = "ok" \/ evs' = evs + 1 \/ ~Accepts(net[s])
           /\ evs' = evs \/ evs' = evs + 1
           /\ \A t \in Slots \ {s} : net'[t] = net[t]
<1>1. Busy(s) /\ ui' = ui
  BY DEF Serve, Fault
<1>2. PICK st, r : /\ net' = Answered(s, st, r) /\ (st = "ok" => r = Answer(net[s]))
                   /\ st = "ok" \/ evs' = evs + 1 \/ ~Accepts(net[s])
                   /\ evs' = evs \/ evs' = evs + 1
  BY DEF Serve, Fault
<1> QED
  BY <1>1, <1>2, AnswerFills

\* The folder picker: the listing and the path are set by one answer.
PickerPanel ==
    /\ CallsIn(net) /\ DOMAIN ui = {"open", "src", "prefix", "entries", "loading", "chosen"}
    /\ ui.entries.dir = ui.prefix
    /\ \A s \in Slots : Busy(s) /\ Ok(s) => net[s].r.dir = net[s].a.dir

LEMMA PickerPanelStep ==
    ASSUME screen = "picker", PickerPanel, NEW s \in Slots,
           PickerUser \/ Serve(s) \/ Fault(s) \/ (Busy(s) /\ PickerResume(s))
    PROVE  PickerPanel'
<1> USE DEF Busy, Ok
<1>1. CallsIn(net) /\ DOMAIN ui = {"open", "src", "prefix", "entries", "loading", "chosen"}
  BY DEF PickerPanel
<1>2. ASSUME NEW u, NEW k, NEW a, Ask(u, k, a), DOMAIN u = DOMAIN ui, u.entries = ui.entries, u.prefix = ui.prefix
      PROVE  PickerPanel'
  <2>1. ui' = u /\ Sends(net, net', k, a)
    BY <1>1, <1>2, AskFills
  <2> QED
    BY <1>2, <2>1 DEF PickerPanel, Sends, NewCall
<1>3. ASSUME NEW src, PickerOpen(src) PROVE PickerPanel'
  <2> DEFINE u == [ui EXCEPT !.open = TRUE, !.src = src, !.loading = TRUE]
  <2>1. Ask(u, "dir", [src |-> src, dir |-> 0])
    BY <1>3 DEF PickerOpen
  <2>2. DOMAIN u = DOMAIN ui /\ u.entries = ui.entries /\ u.prefix = ui.prefix
    BY <1>1
  <2> HIDE DEF u
  <2> QED
    BY <1>2, <2>1, <2>2
<1>4. CASE \E p : PickerLoad(p)
  BY <1>1, <1>2, <1>4 DEF PickerLoad
<1>5. CASE PickerChoose
  BY <1>1, <1>5 DEF PickerPanel, PickerChoose, User
<1>6. CASE Serve(s) \/ Fault(s)
  <2>1. Answer(net[s]) = net[s].a
    BY DEF Answer, PickerAnswer
  <2> QED
    BY <1>1, <1>6, <2>1, Served DEF PickerPanel
<1>7. CASE Busy(s) /\ PickerResume(s)
  <2>1. /\ net' = Rest(s) /\ DOMAIN ui' = DOMAIN ui
        /\ \/ ui'.entries = ui.entries /\ ui'.prefix = ui.prefix
           \/ Ok(s) /\ ui'.entries = net[s].r /\ ui'.prefix = net[s].a.dir
    BY <1>1, <1>7 DEF PickerResume, PickerListed, Resume, Got
  <2> QED
    BY <1>1, <1>7, <2>1, RestFrees DEF PickerPanel
<1> QED
  BY <1>3, <1>4, <1>5, <1>6, <1>7 DEF PickerUser

\* The polled tabs: whatever is awaited was asked for by the tab that is shown.
PolledPanel ==
    /\ CallsIn(net) /\ DOMAIN ui = {"tab", "data", "loading"}
    /\ ui.data # None => ui.data.tab = ui.tab
    /\ \A s \in Slots : Busy(s) /\ net[s].k = "list" =>
           net[s].a = ui.tab /\ (Ok(s) => net[s].r.tab = ui.tab)

LEMMA PolledPanelStep ==
    ASSUME screen = "polled", PolledPanel, NEW s \in Slots,
           PolledUser \/ PolledPoll \/ PolledWorld \/ Serve(s) \/ Fault(s) \/ (Busy(s) /\ PolledResume(s))
    PROVE  PolledPanel'
<1> USE DEF Busy, Ok
<1>1. CallsIn(net) /\ DOMAIN ui = {"tab", "data", "loading"}
  BY DEF PolledPanel
<1>2. ASSUME ui' = ui, Sends(net, net', "list", ui.tab) PROVE PolledPanel'
  BY <1>2 DEF PolledPanel, Sends, NewCall
<1>3. CASE PolledRefresh
  BY <1>1, <1>2, <1>3, AskFills DEF PolledRefresh
<1>4. CASE PolledPoll
  <2>1. Room(1) /\ ui' = ui /\ net' = Send(net, "list", ui.tab)
    BY <1>4 DEF PolledPoll, Tick, Fire
  <2> QED
    BY <1>1, <1>2, <2>1, RoomIsIdle, SendFills
<1>5. ASSUME NEW t, PolledSwitch(t) PROVE PolledPanel'
  <2> DEFINE m == Abandon(net)
  <2>1. Room(1) /\ ui' = [tab |-> t, data |-> None, loading |-> TRUE] /\ net' = Send(m, "list", t)
    BY <1>5 DEF PolledSwitch
  <2>2. PICK i \in Slots : net[i] = NoCall
    BY <2>1, RoomIsIdle
  <2>3. /\ m = [j \in Slots |-> m[j]] /\ \A j \in Slots : net[j] = NoCall => m[j] = NoCall
        /\ \A j \in Slots : m[j] # NoCall => net[j] # NoCall /\ m[j] = [net[j] EXCEPT !.k = "gone", !.a = None]
    BY DEF Abandon
  <2>4. \A j \in Slots : m[j] # NoCall => IsCall(m[j]) /\ m[j].k = "gone"
    BY <1>1, <2>3 DEF CallsIn, IsCall
  <2> HIDE DEF m
  <2>5. Sends(m, net', "list", t)
    BY <2>1, <2>2, <2>3, <2>4, SendFills DEF CallsIn
  <2> QED
    BY <2>1, <2>4, <2>5 DEF PolledPanel, Sends, NewCall
<1>6. CASE PolledWorld
  BY <1>6 DEF PolledPanel, PolledWorld, World
<1>7. CASE Serve(s) \/ Fault(s)
  <2>1. net[s].k = "list" => Answer(net[s]) = [tab |-> net[s].a, v |-> db[net[s].a]]
    BY DEF Answer, PolledAnswer
  <2>2. net[s].k = "list" => Answer(net[s]).tab = net[s].a
    BY <2>1
  <2> QED
    BY <1>1, <1>7, <2>2, Served DEF PolledPanel
<1>8. CASE Busy(s) /\ PolledResume(s)
  <2>1. /\ net' = Rest(s) /\ DOMAIN ui' = DOMAIN ui /\ ui'.tab = ui.tab
        /\ ui'.data = ui.data \/ (net[s].k = "list" /\ Ok(s) /\ ui'.data = net[s].r)
    BY <1>1, <1>8 DEF PolledResume, PolledListed, Resume, Got
  <2> QED
    BY <1>1, <1>8, <2>1, RestFrees DEF PolledPanel
<1> QED
  BY <1>3, <1>4, <1>5, <1>6, <1>7, <1>8 DEF PolledUser

\* The sweeps: a run is applied from the board of its own sweep.
SweepPanel ==
    /\ CallsIn(net)
    /\ \A s \in Slots : Busy(s) /\ net[s].k = "apply" => net[s].a.run = net[s].a.id

LEMMA SweepPanelStep ==
    ASSUME SweepPanel, NEW s \in Slots,
           SweepUser \/ SweepPoll \/ SweepWorld \/ Serve(s) \/ Fault(s) \/ (Busy(s) /\ SweepResume(s))
    PROVE  SweepPanel'
<1> USE DEF Busy
<1>1. CallsIn(net)
  BY DEF SweepPanel
<1>2. ASSUME NEW u, NEW k, NEW a, Ask(u, k, a), k = "apply" => a.run = a.id PROVE SweepPanel'
  <2>1. Sends(net, net', k, a)
    BY <1>1, <1>2, AskFills
  <2> QED
    BY <1>2, <2>1 DEF SweepPanel, Sends, NewCall
<1>3. ASSUME net' = net PROVE SweepPanel'
  BY <1>3 DEF SweepPanel, CallsIn, IsCall
<1>4. ASSUME Busy(s), net' = Rest(s) \/ \E k, a : k # "apply" /\ net' = Send(Rest(s), k, a) PROVE SweepPanel'
  <2>1. CallsIn(Rest(s)) /\ Rest(s)[s] = NoCall /\ \A t \in Slots \ {s} : Rest(s)[t] = net[t]
    BY <1>1, RestFrees
  <2>2. CASE net' = Rest(s)
    BY <2>1, <2>2 DEF SweepPanel
  <2>3. ASSUME NEW k, NEW a, k # "apply", net' = Send(Rest(s), k, a) PROVE SweepPanel'
    <3> DEFINE m == Rest(s)
    <3>1. CallsIn(m) /\ m[s] = NoCall /\ \A t \in Slots \ {s} : m[t] = net[t]
      BY <2>1
    <3>2. net' = Send(m, k, a)
      BY <2>3
    <3> HIDE DEF m
    <3>3. Sends(m, net', k, a)
      BY <3>1, <3>2, SendFills
    <3> QED
      BY <2>3, <3>1, <3>3 DEF SweepPanel, Sends, NewCall
  <2> QED
    BY <1>4, <2>2, <2>3
<1>5. CASE SweepUser
  BY <1>2, <1>3, <1>5 DEF SweepUser, SweepChip, SweepCreate, SweepExpand, SweepCancel, SweepApply, SweepBoard, User
<1>6. CASE SweepPoll
  <2>1. CASE Tick(ui, "list", SweepFetch(FALSE, None))
    <3>1. Room(1) /\ net' = Send(net, "list", SweepFetch(FALSE, None))
      BY <2>1 DEF Tick, Fire
    <3>2. Sends(net, net', "list", SweepFetch(FALSE, None))
      BY <1>1, <3>1, RoomIsIdle, SendFills
    <3> QED
      BY <3>2 DEF SweepPanel, Sends, NewCall
  <2>2. CASE Room(2) /\ \E a, b : net' = Send(Send(net, "list", a), "board", b)
    <3>1. PICK a, b : net' = Send(Send(net, "list", a), "board", b)
      BY <2>2
    <3> DEFINE m == Send(net, "list", a)
    <3>2. PICK i \in Slots, j \in Slots : i # j /\ net[i] = NoCall /\ net[j] = NoCall
      BY <2>2, RoomsAreIdle
    <3>3. Sends(net, m, "list", a)
      BY <1>1, <3>2, SendFills
    <3>4. net' = Send(m, "board", b)
      BY <3>1
    <3> HIDE DEF m
    <3>5. CallsIn(m) /\ \E t \in Slots : m[t] = NoCall
      BY <3>2, <3>3 DEF Sends
    <3>6. Sends(m, net', "board", b)
      BY <3>4, <3>5, SendFills
    <3>7. \A t \in Slots : m[t] # NoCall /\ m[t].k = "apply" => m[t].a.run = m[t].a.id
      BY <3>3 DEF SweepPanel, Sends, NewCall
    <3> QED
      BY <3>6, <3>7 DEF SweepPanel, Sends, NewCall
  <2> QED
    BY <1>6, <2>1, <2>2 DEF SweepPoll, Fire
<1>7. CASE SweepWorld
  BY <1>3, <1>7 DEF SweepWorld, World
<1>8. CASE Serve(s) \/ Fault(s)
  BY <1>1, <1>8, Served DEF SweepPanel
<1>9. CASE Busy(s) /\ SweepResume(s)
  BY <1>4, <1>9 DEF SweepResume, SweepCreated, SweepListed, SweepBoarded, SweepCanceled, Resume
<1> QED
  BY <1>5, <1>6, <1>7, <1>8, <1>9

\* The explorer: the images asked for last are those of the folder shown (f), r
\* is the number of that load; while nothing has failed (e), every load is
\* answered.
PagesAsked(m, f, r, e) ==
    /\ CallsIn(m)
    /\ \A t \in Slots : m[t] # NoCall /\ m[t].k = "images" =>
           /\ m[t].a.rid \in Nat /\ m[t].a.rid <= r
           /\ m[t].a.rid = r => m[t].a.folder = f
           /\ e = 0 => m[t].st \in {"sent", "ok"}

ExplorerPanel ==
    /\ DOMAIN ui = {"cur", "back", "kids", "of", "from", "items", "total", "rid", "loading", "more", "busy",
                    "cancel", "ids", "confirm", "dlg"}
    /\ ui.rid \in Nat /\ evs \in Nat
    /\ PagesAsked(net, ui.of, ui.rid, evs)
    /\ (~ui.loading /\ evs = 0) => ui.from = ui.of

\* A request that is no load, or one of the last load.
LEMMA PagesMore ==
    ASSUME NEW m, NEW f, NEW r \in Nat, NEW e, PagesAsked(m, f, r, e), Free(m),
           NEW k, NEW a, k = "images" => (a.rid = r /\ a.folder = f)
    PROVE  PagesAsked(Send(m, k, a), f, r, e) /\ (Free2(m) => Free(Send(m, k, a)))
<1> DEFINE n == Send(m, k, a)
<1>1. Sends(m, n, k, a)
  BY SendFills DEF PagesAsked, Free
<1> HIDE DEF n
<1>2. PagesAsked(n, f, r, e)
  BY <1>1 DEF PagesAsked, Sends, NewCall
<1>3. Free2(m) => Free(n)
  BY <1>1 DEF Sends, Free, Free2
<1> QED
  BY <1>2, <1>3 DEF n

\* A new load makes the earlier ones old.
LEMMA PagesAnew ==
    ASSUME NEW m, NEW f, NEW r \in Nat, NEW e, PagesAsked(m, f, r, e), NEW g
    PROVE  PagesAsked(m, g, r + 1, e)
BY DEF PagesAsked

LEMMA ExplorerPanelStep ==
    ASSUME screen = "explorer", ExplorerPanel, NEW s \in Slots,
           ExplorerUser \/ Serve(s) \/ Fault(s) \/ (Busy(s) /\ net[s].st # "sent" /\ ExplorerResume(s))
    PROVE  ExplorerPanel'
<1> DEFINE none == ""
           Parts == {"cur", "back", "kids", "of", "from", "items", "total", "rid", "loading", "more", "busy",
                      "cancel", "ids", "confirm", "dlg"}
           Like(u) == DOMAIN u = Parts /\ u.of = ui.of /\ u.from = ui.from /\ u.rid = ui.rid /\ u.loading = ui.loading
           Anew(u) == DOMAIN u = Parts /\ u.rid = ui.rid + 1 /\ u.loading = TRUE
           Asked(m) == PagesAsked(m, ui.of, ui.rid, evs)
<1>1. /\ DOMAIN ui = Parts /\ ui.rid \in Nat /\ evs \in Nat /\ Asked(net) /\ CallsIn(net)
      /\ (~ui.loading /\ evs = 0) => ui.from = ui.of
  BY DEF ExplorerPanel, PagesAsked
<1>2. ASSUME evs' = evs, NEW u, ui' = u, Like(u), Asked(net') PROVE ExplorerPanel'
  BY <1>1, <1>2 DEF ExplorerPanel
<1>3. ASSUME evs' = evs, NEW u, ui' = u, Anew(u), PagesAsked(net', u.of, u.rid, evs) PROVE ExplorerPanel'
  BY <1>1, <1>3 DEF ExplorerPanel
<1>4. ASSUME NEW u, Like(u), User(u) PROVE ExplorerPanel'
  BY <1>1, <1>2, <1>4 DEF User
<1>5. ASSUME NEW u, Like(u), NEW k, NEW a, k = "images" => (a.rid = ui.rid /\ a.folder = ui.of), Ask(u, k, a)
      PROVE  ExplorerPanel'
  <2>1. evs' = evs /\ ui' = u /\ net' = Send(net, k, a) /\ Free(net)
    BY <1>5, RoomIsIdle DEF Ask, Free
  <2>2. Asked(net')
    BY <1>1, <1>5, <2>1, PagesMore
  <2> QED
    BY <1>2, <1>5, <2>1, <2>2
<1>6. ASSUME NEW u, DOMAIN u = Parts, u.rid = ui.rid, NEW f
      PROVE  Anew(ExplorerReload(u, f)) /\ ExplorerReload(u, f).of = f /\ ExplorerReload(u, f).kids = u.kids
  BY <1>6 DEF ExplorerReload
<1>7. ASSUME NEW u, DOMAIN u = Parts, u.rid = ui.rid, NEW f
      PROVE  Anew(ExplorerSelected(u, f)) /\ ExplorerSelected(u, f).kids = u.kids
  <2> DEFINE w == IF f = u.cur THEN u.back ELSE u.cur
             v == [u EXCEPT !.cur = f, !.back = w]
  <2>1. ExplorerSelected(u, f) = ExplorerReload(v, f)
    BY Zenon DEF ExplorerSelected
  <2> HIDE DEF w
  <2>2. DOMAIN v = Parts /\ v.rid = ui.rid /\ v.kids = u.kids
    BY <1>7
  <2> HIDE DEF v, Anew, Parts
  <2>3. Anew(ExplorerReload(v, f)) /\ ExplorerReload(v, f).kids = v.kids
    BY <1>6, <2>2
  <2> QED
    BY <2>1, <2>2, <2>3
<1>8. ASSUME NEW m, NEW u, PagesAsked(m, u.of, u.rid, evs), u.rid \in Nat, Free(m), NEW fin
      PROVE  /\ PagesAsked(ExplorerImagesOf(m, u, fin), u.of, u.rid, evs)
             /\ Free2(m) => Free(ExplorerImagesOf(m, u, fin))
  <2> DEFINE a == [folder |-> u.of, page |-> 1, rid |-> u.rid, fin |-> fin]
  <2>1. ExplorerImagesOf(m, u, fin) = Send(m, "images", a)
    BY DEF ExplorerImagesOf
  <2>2. a.rid = u.rid /\ a.folder = u.of
    OBVIOUS
  <2> HIDE DEF a
  <2> QED
    BY <1>8, <2>1, <2>2, PagesMore
<1>9. ASSUME NEW m, NEW f, NEW r \in Nat, PagesAsked(m, f, r, evs), Free(m), NEW g, NEW fin
      PROVE  PagesAsked(ExplorerKidsOf(m, g, fin), f, r, evs)
  BY <1>9, PagesMore DEF ExplorerKidsOf
<1>10. ASSUME NEW m, NEW u, PagesAsked(m, u.of, u.rid, evs), u.rid \in Nat, Free(m), NEW f, u.kids[f] # None \/ Free2(m)
       PROVE  PagesAsked(ExplorerOpened(m, u, f), u.of, u.rid, evs)
  <2> DEFINE n == ExplorerImagesOf(m, u, "no")
  <2>1. PagesAsked(n, u.of, u.rid, evs) /\ (Free2(m) => Free(n))
    BY <1>8, <1>10
  <2>2. ExplorerOpened(m, u, f) = IF u.kids[f] = None THEN ExplorerKidsOf(n, f, "no") ELSE n
    BY DEF ExplorerOpened
  <2> HIDE DEF n
  <2> QED
    BY <1>9, <1>10, <2>1, <2>2
<1>11. ASSUME NEW m, Asked(m), NEW u, Anew(u) PROVE PagesAsked(m, u.of, u.rid, evs) /\ u.rid \in Nat
  BY <1>1, <1>11, PagesAnew
<1>12. Asked(Rest(s)) /\ Free(Rest(s)) /\ ((Busy(s) /\ Room(1)) => Free2(Rest(s)))
  <2>1. CallsIn(Rest(s)) /\ Rest(s)[s] = NoCall /\ \A t \in Slots \ {s} : Rest(s)[t] = net[t]
    BY <1>1, RestFrees
  <2>2. Asked(Rest(s))
    BY <1>1, <2>1 DEF PagesAsked
  <2>3. (Busy(s) /\ Room(1)) => Free2(Rest(s))
    BY <2>1, RoomIsIdle DEF Free2, Busy
  <2> QED
    BY <2>1, <2>2, <2>3 DEF Free
<1>13. CASE Serve(s) \/ Fault(s)
  <2>1. /\ Busy(s) /\ ui' = ui /\ CallsIn(net') /\ net'[s].k = net[s].k /\ net'[s].a = net[s].a
        /\ net'[s].st = "ok" \/ evs' = evs + 1 \/ ~Accepts(net[s])
        /\ evs' = evs \/ evs' = evs + 1
        /\ \A t \in Slots \ {s} : net'[t] = net[t]
    BY <1>1, <1>13, Served
  <2>2. net[s].k = "images" => Accepts(net[s])
    BY DEF Accepts, ExplorerAccepts
  <2>3. evs' \in Nat /\ (evs' = 0 => evs = 0) /\ (evs' = 0 /\ net[s].k = "images" => net'[s].st = "ok")
    BY <1>1, <2>1, <2>2
  <2>4. PagesAsked(net', ui.of, ui.rid, evs')
    BY <1>1, <2>1, <2>3 DEF PagesAsked, Busy
  <2> QED
    BY <1>1, <2>1, <2>3, <2>4 DEF ExplorerPanel
<1>14. ASSUME NEW f, ExplorerSelect(f) PROVE ExplorerPanel'
  <2> DEFINE u == ExplorerSelected(ui, f)
  <2>1. Room(2) /\ ui' = u /\ net' = ExplorerOpened(net, u, f) /\ evs' = evs
    BY <1>14 DEF ExplorerSelect
  <2>2. Anew(u)
    BY <1>1, <1>7
  <2> HIDE DEF u, Anew
  <2>3. Free2(net) /\ Free(net)
    BY <2>1, RoomsAreIdle DEF Free2, Free
  <2>4. PagesAsked(net', u.of, u.rid, evs)
    BY <1>1, <1>10, <1>11, <2>1, <2>2, <2>3
  <2> QED
    BY <1>3, <2>1, <2>2, <2>4
<1>15. ASSUME NEW t \in Slots, ExplorerCancel(t) PROVE ExplorerPanel'
  <2> DEFINE v == [ui EXCEPT !.cancel = TRUE]
  <2>1. Busy(t) /\ net[t].k = "convert"
    BY <1>15 DEF ExplorerCancel
  <2>2. Like(v)
    BY <1>1
  <2>3. CASE net[t].st = "sent"
    <3> DEFINE u == ExplorerReload(v, net[t].a.folder)
               m == [net EXCEPT ![t].k = "aborted"]
               n == ExplorerImagesOf(m, u, "convert")
    <3>1. Room(2) /\ ui' = u /\ net' = ExplorerKidsOf(n, u.of, "convert") /\ evs' = evs
      BY <1>15, <2>3, Zenon DEF ExplorerCancel, Fire
    <3> HIDE DEF v, Anew, Parts
    <3>2. Anew(u)
      BY <1>6, <2>2
    <3>3. /\ CallsIn(m) /\ m[t].k = "aborted"
          /\ \A i \in Slots \ {t} : m[i] = net[i]
      BY <1>1, <2>1 DEF CallsIn, IsCall, Busy
    <3> HIDE DEF u, m
    <3>4. Asked(m)
      BY <1>1, <3>3 DEF PagesAsked
    <3>5. Free2(m) /\ Free(m)
      BY <2>1, <3>1, <3>3, RoomsAreIdle DEF Free2, Free, Busy
    <3>6. PagesAsked(m, u.of, u.rid, evs) /\ u.rid \in Nat
      BY <1>11, <3>2, <3>4
    <3>7. PagesAsked(n, u.of, u.rid, evs) /\ Free(n)
      BY <1>8, <3>5, <3>6
    <3> HIDE DEF n
    <3>8. PagesAsked(net', u.of, u.rid, evs)
      BY <1>9, <3>1, <3>6, <3>7
    <3> QED
      BY <1>3, <3>1, <3>2, <3>8
  <2>4. CASE net[t].st # "sent"
    <3>1. User(v)
      BY <1>15, <2>4 DEF ExplorerCancel
    <3> HIDE DEF v
    <3> QED
      BY <1>4, <2>2, <3>1
  <2> QED
    BY <2>3, <2>4
<1>16. CASE ExplorerUser
  <2>1. \/ \E f : ExplorerSelect(f)
        \/ \E t \in Slots : ExplorerCancel(t)
        \/ \E f : Ask(ui, "kids", f)
        \/ Ask([ui EXCEPT !.more = TRUE], "images", [folder |-> ui.of, page |-> 2, rid |-> ui.rid, fin |-> "no"])
        \/ \E a : Ask([ui EXCEPT !.dlg = "creating"], "mkdir", a)
        \/ \E a : Ask([ui EXCEPT !.confirm = "busy"], "rmdir", a)
        \/ \E k \in {"upload", "convert"} : \E a : Ask([ui EXCEPT !.busy = k], k, a)
        \/ \E a : Ask([ui EXCEPT !.busy = "remove", !.confirm = "busy"], "remove", a)
        \/ \E x, y : User([ui EXCEPT !.cur = x, !.back = y])
        \/ \E x : User([ui EXCEPT !.dlg = x])
        \/ \E x : User([ui EXCEPT !.ids = x])
        \/ \E x : User([ui EXCEPT !.confirm = x])
    BY <1>16, Zenon
       DEF ExplorerUser, ExplorerExpand, ExplorerLoadMore, ExplorerSubmitFolder, ExplorerDeleteFolder, ExplorerTransfer,
           ExplorerDeleteImages, ExplorerBack, ExplorerNewFolder, ExplorerCloseFolder, ExplorerCloseConfirm,
           ExplorerToggle, ExplorerAskDelete
  <2>2. CASE \E f : Ask(ui, "kids", f)
    BY <1>1, <1>5, <2>2
  <2>3. CASE Ask([ui EXCEPT !.more = TRUE], "images", [folder |-> ui.of, page |-> 2, rid |-> ui.rid, fin |-> "no"])
    <3> DEFINE u == [ui EXCEPT !.more = TRUE]
               a == [folder |-> ui.of, page |-> 2, rid |-> ui.rid, fin |-> "no"]
    <3>1. Like(u) /\ a.rid = ui.rid /\ a.folder = ui.of
      BY <1>1
    <3>2. Ask(u, "images", a)
      BY <2>3
    <3> HIDE DEF u, a
    <3> QED
      BY <1>5, <3>1, <3>2
  <2>4. ASSUME NEW u, NEW x, NEW y,
               \/ u = [ui EXCEPT !.dlg = x] \/ u = [ui EXCEPT !.confirm = x] \/ u = [ui EXCEPT !.busy = x]
               \/ u = [ui EXCEPT !.busy = x, !.confirm = y] \/ u = [ui EXCEPT !.cur = x, !.back = y]
               \/ u = [ui EXCEPT !.ids = x]
        PROVE  Like(u)
    BY <1>1, <2>4
  <2>5. CASE \/ \E a : Ask([ui EXCEPT !.dlg = "creating"], "mkdir", a)
             \/ \E a : Ask([ui EXCEPT !.confirm = "busy"], "rmdir", a)
             \/ \E k \in {"upload", "convert"} : \E a : Ask([ui EXCEPT !.busy = k], k, a)
             \/ \E a : Ask([ui EXCEPT !.busy = "remove", !.confirm = "busy"], "remove", a)
    <3>1. PICK u, k, a : k # "images" /\ Ask(u, k, a) /\ \E x, y :
               \/ u = [ui EXCEPT !.dlg = x] \/ u = [ui EXCEPT !.confirm = x] \/ u = [ui EXCEPT !.busy = x]
               \/ u = [ui EXCEPT !.busy = x, !.confirm = y]
      <4>1. {"mkdir", "rmdir", "upload", "convert", "remove"} \cap {"images"} = {}
        OBVIOUS
      <4> QED
        BY <2>5, <4>1, Zenon
    <3>2. Like(u)
      BY <2>4, <3>1
    <3> QED
      BY <1>5, <3>1, <3>2
  <2>6. CASE \/ \E x, y : User([ui EXCEPT !.cur = x, !.back = y])
             \/ \E x : User([ui EXCEPT !.dlg = x])
             \/ \E x : User([ui EXCEPT !.ids = x])
             \/ \E x : User([ui EXCEPT !.confirm = x])
    <3>1. ASSUME NEW x, NEW y,
                 \/ User([ui EXCEPT !.cur = x, !.back = y]) \/ User([ui EXCEPT !.dlg = x])
                 \/ User([ui EXCEPT !.ids = x]) \/ User([ui EXCEPT !.confirm = x])
          PROVE  ExplorerPanel'
      <4> DEFINE u1 == [ui EXCEPT !.cur = x, !.back = y]
                 u2 == [ui EXCEPT !.dlg = x]
                 u3 == [ui EXCEPT !.ids = x]
                 u4 == [ui EXCEPT !.confirm = x]
      <4>1. User(u1) \/ User(u2) \/ User(u3) \/ User(u4)
        BY <3>1
      <4>2. Like(u1) /\ Like(u2) /\ Like(u3) /\ Like(u4)
        BY <2>4
      <4> HIDE DEF u1, u2, u3, u4, Like
      <4> QED
        BY <1>4, <4>1, <4>2
    <3> QED
      BY <2>6, <3>1
  <2> QED
    BY <1>14, <1>15, <2>1, <2>2, <2>3, <2>5, <2>6
<1>17. ASSUME NEW v, DOMAIN v = Parts PROVE LET e == ExplorerEnds(v, s) IN
              DOMAIN e = Parts /\ e.of = v.of /\ e.from = v.from /\ e.rid = v.rid /\ e.loading = v.loading
  <2> DEFINE fin == net[s].a.fin
             others == {t \in InFlight({"images", "kids"}) \ {s} : net[t].a.fin = fin}
             x == [v EXCEPT !.busy = "no", !.confirm = IF @ = "busy" THEN None ELSE @]
             y == [v EXCEPT !.dlg = "no"]
             z == [v EXCEPT !.busy = "no", !.cancel = FALSE]
             Keeps(e) == DOMAIN e = Parts /\ e.of = v.of /\ e.from = v.from /\ e.rid = v.rid /\ e.loading = v.loading
  <2>1. ExplorerEnds(v, s) = IF fin = "no" \/ others # {} THEN v
                             ELSE CASE fin = "remove" -> x [] fin = "mkdir" -> y [] OTHER -> z
    BY Zenon DEF ExplorerEnds
  <2>2. Keeps(v) /\ Keeps(x) /\ Keeps(y) /\ Keeps(z)
    BY <1>17
  <2> HIDE DEF x, y, z, fin, others, Parts
  <2>3. ExplorerEnds(v, s) \in {v, x, y, z}
    BY <2>1
  <2> QED
    BY <2>2, <2>3
<1>18. CASE Busy(s) /\ net[s].st # "sent" /\ net[s].k = "images" /\ ExplorerLoaded(s)
  <2> DEFINE c == net[s].a
             u == IF ~ExplorerCurrent(s) THEN ui
                  ELSE IF c.page = 1 THEN [ui EXCEPT !.loading = FALSE] ELSE [ui EXCEPT !.more = FALSE]
             v == IF ~Ok(s) \/ ~ExplorerCurrent(s) THEN u
                  ELSE [u EXCEPT !.items = IF c.page = 1 THEN net[s].r.items ELSE @ \cup net[s].r.items,
                                 !.total = net[s].r.total, !.from = c.folder]
  <2>1. ui' = ExplorerEnds(v, s) /\ net' = Rest(s) /\ evs' = evs
    BY <1>18, Zenon DEF ExplorerLoaded, Resume
  <2>2. c.rid = ui.rid => (c.folder = ui.of /\ (evs = 0 => Ok(s)))
    BY <1>1, <1>18 DEF PagesAsked, Busy, Ok
  <2>3. /\ DOMAIN u = Parts /\ u.of = ui.of /\ u.rid = ui.rid /\ u.from = ui.from
        /\ ~ExplorerCurrent(s) => u.loading = ui.loading
    BY <1>1
  <2> HIDE DEF u
  <2>4. DOMAIN v = Parts /\ v.of = ui.of /\ v.rid = ui.rid /\ ((~v.loading /\ evs = 0) => v.from = v.of)
    <3>1. CASE Ok(s) /\ ExplorerCurrent(s)
      <4> DEFINE i == IF c.page = 1 THEN net[s].r.items ELSE u.items \cup net[s].r.items
                 w == [u EXCEPT !.items = i, !.total = net[s].r.total, !.from = c.folder]
      <4>1. v = w
        BY <3>1
      <4> HIDE DEF i, v
      <4>2. DOMAIN w = Parts /\ w.of = ui.of /\ w.rid = ui.rid /\ w.from = c.folder
        BY <2>3
      <4> HIDE DEF w, Parts
      <4> QED
        BY <2>2, <3>1, <4>1, <4>2 DEF ExplorerCurrent
    <3>2. CASE ~Ok(s) \/ ~ExplorerCurrent(s)
      <4>1. v = u
        BY <3>2
      <4> HIDE DEF v, Parts
      <4> QED
        BY <1>1, <2>2, <2>3, <3>2, <4>1 DEF ExplorerCurrent
    <3> QED
      BY <3>1, <3>2
  <2> HIDE DEF v
  <2>5. DOMAIN ui' = Parts /\ ui'.of = ui.of /\ ui'.rid = ui.rid /\ ((~ui'.loading /\ evs = 0) => ui'.from = ui'.of)
    <3> DEFINE e == ExplorerEnds(v, s)
    <3>1. DOMAIN e = Parts /\ e.of = v.of /\ e.from = v.from /\ e.rid = v.rid /\ e.loading = v.loading
      BY <1>17, <2>4
    <3>2. ui' = e
      BY <2>1
    <3> HIDE DEF e, Parts
    <3> QED
      BY <2>4, <3>1, <3>2
  <2>6. Asked(net') /\ evs' = evs
    BY <1>12, <2>1
  <2> QED
    BY <1>1, <2>5, <2>6 DEF ExplorerPanel
<1>19. ASSUME NEW u, Like(u), ui' = ExplorerEnds(u, s) \/ ui' = u, evs' = evs, Asked(net') PROVE ExplorerPanel'
  <2>1. DOMAIN u = Parts
    BY <1>19
  <2>2. Like(ExplorerEnds(u, s))
    <3> HIDE DEF Parts
    <3> QED
      BY <1>17, <1>19, <2>1
  <2> QED
    BY <1>2, <1>19, <2>2
<1>20. CASE Busy(s) /\ net[s].k = "kids" /\ ExplorerKids(s)
  <2> DEFINE u == IF Ok(s) THEN [ui EXCEPT !.kids[net[s].a.folder] = net[s].r] ELSE ui
             v == ExplorerSelected(u, none)
             w == [v EXCEPT !.confirm = IF @ = "busy" THEN None ELSE @]
  <2>1. /\ IF net[s].a.fin = "rmdir"
           THEN (u.kids[none] # None \/ Room(1)) /\ ui' = w /\ net' = ExplorerOpened(Rest(s), v, none)
           ELSE ui' = ExplorerEnds(u, s) /\ net' = Rest(s)
        /\ evs' = evs
    BY <1>20, Zenon DEF ExplorerKids, Resume
  <2> HIDE DEF none
  <2>2. Like(u)
    BY <1>1
  <2> HIDE DEF u
  <2>3. CASE net[s].a.fin # "rmdir"
    <3> HIDE DEF Like
    <3> QED
      BY <1>12, <1>19, <2>1, <2>2, <2>3
  <2>4. CASE net[s].a.fin = "rmdir"
    <3>1. Anew(v) /\ v.kids = u.kids
      <4> HIDE DEF Parts, Anew
      <4> QED
        BY <1>7, <2>2
    <3> HIDE DEF v
    <3>2. Anew(w) /\ w.of = v.of /\ w.rid = v.rid
      BY <3>1
    <3> HIDE DEF w, Anew
    <3>3. PagesAsked(net', v.of, v.rid, evs)
      <4> DEFINE m == Rest(s)
      <4>1. Asked(m) /\ Free(m) /\ (v.kids[none] # None \/ Free2(m)) /\ net' = ExplorerOpened(m, v, none)
        BY <1>12, <1>20, <2>1, <2>4, <3>1
      <4> HIDE DEF m
      <4>2. PagesAsked(m, v.of, v.rid, evs) /\ v.rid \in Nat
        BY <1>11, <3>1, <4>1
      <4> QED
        BY <1>10, <4>1, <4>2
    <3> QED
      BY <1>3, <2>1, <2>4, <3>2, <3>3
  <2> QED
    BY <2>3, <2>4
<1>21. ASSUME NEW v, DOMAIN v = Parts, v.rid = ui.rid, NEW f, NEW fin, ui' = ExplorerReload(v, f), evs' = evs,
              \/ net' = ExplorerImagesOf(Rest(s), ui', fin)
              \/ Busy(s) /\ Room(1) /\ \E g : net' = ExplorerKidsOf(ExplorerImagesOf(Rest(s), ui', fin), g, fin)
       PROVE  ExplorerPanel'
  <2> DEFINE u == ExplorerReload(v, f)
             m == Rest(s)
             n == ExplorerImagesOf(m, u, fin)
  <2>1. ui' = u /\ (net' = n \/ (Busy(s) /\ Room(1) /\ \E g : net' = ExplorerKidsOf(n, g, fin)))
    BY <1>21
  <2> HIDE DEF Anew, Parts
  <2>2. Anew(u)
    BY <1>6, <1>21
  <2>3. Asked(m) /\ Free(m) /\ ((Busy(s) /\ Room(1)) => Free2(m))
    BY <1>12
  <2> HIDE DEF u, m
  <2>4. PagesAsked(m, u.of, u.rid, evs) /\ u.rid \in Nat
    BY <1>11, <2>2, <2>3
  <2>5. PagesAsked(n, u.of, u.rid, evs) /\ (Free2(m) => Free(n))
    BY <1>8, <2>3, <2>4
  <2> HIDE DEF n
  <2>6. PagesAsked(net', u.of, u.rid, evs)
    BY <1>9, <2>1, <2>3, <2>4, <2>5
  <2> QED
    BY <1>3, <1>21, <2>1, <2>2, <2>6
<1>22. ASSUME NEW u, Like(u), ui' = u, evs' = evs,
              net' = Rest(s) \/ \E k, a : k # "images" /\ net' = Send(Rest(s), k, a)
       PROVE  ExplorerPanel'
  <2>1. Asked(net')
    <3> DEFINE m == Rest(s)
    <3>1. Asked(m) /\ Free(m) /\ (net' = m \/ \E k, a : k # "images" /\ net' = Send(m, k, a))
      BY <1>12, <1>22
    <3> HIDE DEF m
    <3> QED
      BY <1>1, <3>1, PagesMore
  <2> QED
    BY <1>2, <1>22, <2>1
<1>23. CASE Busy(s) /\ net[s].k \in {"upload", "convert"} /\ ExplorerTransferred(s)
  <2> DEFINE k == net[s].k
             c == net[s].a
             w == [ui EXCEPT !.busy = "no"]
  <2>1. /\ \/ ui' = w /\ net' = Rest(s)
           \/ ui' = ui /\ \E a : net' = Send(Rest(s), k, a)
           \/ /\ Room(1) /\ ui' = ExplorerReload(ui, c.folder)
              /\ net' = ExplorerKidsOf(ExplorerImagesOf(Rest(s), ExplorerReload(ui, c.folder), k), c.folder, k)
        /\ evs' = evs
    BY <1>23, Zenon DEF ExplorerTransferred, Resume
  <2>2. Like(w) /\ Like(ui)
    BY <1>1
  <2>3. CASE ui' = w /\ net' = Rest(s)
    <3> HIDE DEF w, Like
    <3> QED
      BY <1>22, <2>1, <2>2, <2>3
  <2>4. CASE ui' = ui /\ \E a : net' = Send(Rest(s), k, a)
    <3> HIDE DEF Like
    <3> QED
      BY <1>22, <1>23, <2>1, <2>2, <2>4
  <2>5. CASE /\ Room(1) /\ ui' = ExplorerReload(ui, c.folder)
             /\ net' = ExplorerKidsOf(ExplorerImagesOf(Rest(s), ExplorerReload(ui, c.folder), k), c.folder, k)
    BY <1>1, <1>21, <1>23, <2>1, <2>5
  <2> QED
    BY <2>1, <2>3, <2>4, <2>5
<1>24. CASE Busy(s) /\ net[s].k = "remove" /\ ExplorerRemoved(s)
  <2> DEFINE c == net[s].a
             v == [ui EXCEPT !.ids = {}]
             u == ExplorerReload(v, c.folder)
             w == [ui EXCEPT !.ids = {}, !.busy = "no", !.confirm = IF @ = "busy" THEN None ELSE @]
  <2>1. /\ \/ ui' = ui /\ \E a : net' = Send(Rest(s), "remove", a)
           \/ ui' = u /\ net' = ExplorerImagesOf(Rest(s), u, "remove")
           \/ ui' = w /\ net' = Rest(s)
        /\ evs' = evs
    <3> DEFINE todo == c.ids \ {CHOOSE r \in c.ids : TRUE}
               done == c.done \/ Ok(s)
               A == Resume(s, ui, Send(Rest(s), "remove", [c EXCEPT !.ids = todo, !.done = done]))
               B == Resume(s, u, ExplorerImagesOf(Rest(s), u, "remove"))
               C == Resume(s, w, Rest(s))
    <3>1. (CASE todo # {} -> A [] todo = {} /\ done -> B [] OTHER -> C)
      BY <1>24, Zenon DEF ExplorerRemoved
    <3>2. A => (evs' = evs /\ ui' = ui /\ \E a : net' = Send(Rest(s), "remove", a))
      BY Zenon DEF Resume
    <3>3. B => (evs' = evs /\ ui' = u /\ net' = ExplorerImagesOf(Rest(s), u, "remove"))
      BY Zenon DEF Resume
    <3>4. C => (evs' = evs /\ ui' = w /\ net' = Rest(s))
      BY Zenon DEF Resume
    <3>5. A \in BOOLEAN /\ B \in BOOLEAN /\ C \in BOOLEAN
      BY Zenon DEF Resume
    <3> HIDE DEF A, B, C, todo, done
    <3>6. A \/ B \/ C
      BY <3>1, <3>5
    <3> QED
      BY <3>2, <3>3, <3>4, <3>6
  <2>2. Like(v) /\ Like(w) /\ Like(ui)
    BY <1>1
  <2> HIDE DEF v, w
  <2>3. CASE ui' = ui /\ \E a : net' = Send(Rest(s), "remove", a)
    <3> HIDE DEF Like
    <3> QED
      BY <1>22, <2>1, <2>2, <2>3
  <2>4. CASE ui' = u /\ net' = ExplorerImagesOf(Rest(s), u, "remove")
    BY <1>21, <2>1, <2>2, <2>4
  <2>5. CASE ui' = w /\ net' = Rest(s)
    <3> HIDE DEF Like
    <3> QED
      BY <1>22, <2>1, <2>2, <2>5
  <2> QED
    BY <2>1, <2>3, <2>4, <2>5
<1>25. CASE \/ net[s].k = "aborted" /\ Resume(s, ui, Rest(s))
            \/ net[s].k = "mkdir" /\ ExplorerMade(s)
            \/ net[s].k = "rmdir" /\ ExplorerFolderGone(s)
  <2> DEFINE v == [ui EXCEPT !.dlg = IF @ = "creating" THEN "name" ELSE @]
             w == [ui EXCEPT !.confirm = IF @ = "busy" THEN None ELSE @]
  <2>1. /\ \/ ui' = ui /\ (net' = Rest(s) \/ \E a : net' = Send(Rest(s), "kids", a))
           \/ ui' = v /\ net' = Rest(s)
           \/ ui' = w /\ net' = Rest(s)
        /\ evs' = evs
    BY <1>25, Zenon DEF ExplorerMade, ExplorerFolderGone, ExplorerKidsOf, Resume
  <2>2. Like(v) /\ Like(w) /\ Like(ui)
    BY <1>1
  <2> HIDE DEF v, w, Like
  <2> QED
    BY <1>22, <2>1, <2>2
<1>26. CASE Busy(s) /\ net[s].st # "sent" /\ ExplorerResume(s)
  BY <1>18, <1>20, <1>23, <1>24, <1>25, <1>26, Zenon DEF ExplorerResume
<1> QED
  BY <1>13, <1>16, <1>26, Zenon

\* The object browser: with the confirmation of one object's deletion open, no
\* other dialog is, and that object is all that is selected.
ObjectChosen(u) ==
    /\ DOMAIN u = {"admin", "path", "been", "shown", "of", "loading", "sel", "open", "ctx", "chosen", "busy",
                   "prog", "refresh", "two"}
    /\ "ctxdelete" \in u.open => u.open \subseteq {"ctxdelete", "progress"} /\ u.sel \subseteq {u.ctx}

LEMMA ObjectKept ==
    ASSUME NEW u, ObjectChosen(u), NEW v, DOMAIN v = DOMAIN u, v.open = u.open \/ v.open = u.open \cup {"progress"},
           v.sel = u.sel \/ v.sel = {}, v.ctx = u.ctx
    PROVE  ObjectChosen(v)
BY DEF ObjectChosen

\* A dialog is closed.
LEMMA ObjectHidden ==
    ASSUME NEW u, ObjectChosen(u), NEW d
    PROVE  ObjectChosen(FilesHide(u, d))
<1>1. CASE d \notin u.open
  BY <1>1 DEF FilesHide
<1>2. CASE d \in u.open
  <2> DEFINE v1 == u.open \ {d}
             v2 == IF d = "upload" THEN {} ELSE u.chosen
             v3 == IF d = "progress" THEN u.ctx ELSE None
             v4 == IF d = "progress" THEN <<>> ELSE u.prog
             v  == [u EXCEPT !.open = v1, !.chosen = v2, !.ctx = v3, !.prog = v4]
  <2>1. FilesHide(u, d) = v
    BY <1>2, Zenon DEF FilesHide
  <2>2. v1 = u.open \ {d} /\ (d = "progress" => v3 = u.ctx)
    OBVIOUS
  <2> HIDE DEF v1, v2, v3, v4
  <2>3. DOMAIN v = DOMAIN u /\ v.open = v1 /\ v.sel = u.sel /\ v.ctx = v3
    BY DEF ObjectChosen
  <2> HIDE DEF v
  <2> QED
    BY <1>2, <2>1, <2>2, <2>3 DEF ObjectChosen
<1> QED
  BY <1>1, <1>2

LEMMA FilesPanelStep ==
    ASSUME ObjectChosen(ui), NEW s \in Slots, FilesUser \/ FilesResume(s)
    PROVE  ObjectChosen(ui)'
<1> DEFINE Like(v) == DOMAIN v = DOMAIN ui /\ v.open = ui.open /\ (v.sel = ui.sel \/ v.sel = {}) /\ v.ctx = ui.ctx
<1>1. DOMAIN ui = {"admin", "path", "been", "shown", "of", "loading", "sel", "open", "ctx", "chosen", "busy",
                   "prog", "refresh", "two"}
  BY DEF ObjectChosen
<1>2. ASSUME NEW v, ObjectChosen(v), ui' = v PROVE ObjectChosen(ui)'
  BY <1>2 DEF ObjectChosen
<1>3. ASSUME NEW v, Like(v), ui' = v PROVE ObjectChosen(ui)'
  BY <1>2, <1>3, ObjectKept
<1>4. ASSUME NEW p, NavigateTo(p) PROVE ObjectChosen(ui)'
  <2> DEFINE v == [ui EXCEPT !.path = p, !.been = @ \cup {p}, !.sel = {}, !.loading = TRUE]
  <2>1. ui' = v
    BY <1>4 DEF NavigateTo, Ask
  <2>2. Like(v)
    BY <1>1
  <2> HIDE DEF v
  <2> QED
    BY <1>3, <2>1, <2>2
<1>5. CASE HandleDrop
  <2>1. /\ DOMAIN ui' = DOMAIN ui /\ ui'.open = ui.open \cup {"progress"}
        /\ ui'.sel = ui.sel /\ ui'.ctx = ui.ctx
    BY <1>1, <1>5 DEF HandleDrop, FilesShow, Ask
  <2> QED
    BY <1>1, <2>1 DEF ObjectChosen
<1>6. CASE HandleUploadProgressClose
  <2> DEFINE u == FilesHide(ui, "progress")
             v == [u EXCEPT !.refresh = FALSE, !.loading = TRUE]
  <2>1. ui' = u \/ ui' = v
    BY <1>6, Zenon DEF HandleUploadProgressClose, Ask, User
  <2>2. ObjectChosen(u)
    BY ObjectHidden
  <2> HIDE DEF u
  <2>3. DOMAIN v = DOMAIN u /\ v.open = u.open /\ v.sel = u.sel /\ v.ctx = u.ctx
    BY <2>2 DEF ObjectChosen
  <2> HIDE DEF v
  <2>4. ObjectChosen(v)
    BY <2>2, <2>3, ObjectKept
  <2> QED
    BY <1>2, <2>1, <2>2, <2>4
<1>7. CASE FilesDialogs
  <2>1. \/ ui' = [ui EXCEPT !.busy = TRUE]
        \/ \E F : ui' = [ui EXCEPT !.chosen = F]
        \/ ui' = [ui EXCEPT !.busy = TRUE, !.chosen = {}]
        \/ \E d : ui' = FilesHide(ui, d)
    BY <1>7, Zenon
       DEF FilesDialogs, HandleCreateFolder, HandleRename, FilesDelete, FilesCall, FilesChoose, HandleUpload, FilesClose,
           Ask, User
  <2>2. CASE ui' = [ui EXCEPT !.busy = TRUE] \/ ui' = [ui EXCEPT !.busy = TRUE, !.chosen = {}]
    <3>1. Like(ui')
      BY <1>1, <2>2
    <3> QED
      BY <1>3, <3>1
  <2>3. ASSUME NEW F, ui' = [ui EXCEPT !.chosen = F] PROVE ObjectChosen(ui)'
    <3>1. Like(ui')
      BY <1>1, <2>3
    <3> QED
      BY <1>3, <3>1
  <2>4. ASSUME NEW d, ui' = FilesHide(ui, d) PROVE ObjectChosen(ui)'
    BY <1>2, <2>4, ObjectHidden
  <2> QED
    BY <2>1, <2>2, <2>3, <2>4
<1>8. ASSUME NEW k, \/ \E x : ui' = [ui EXCEPT !.sel = x]
                    \/ \E d \in {"upload", "create", "delete"} : ui' = FilesShow(ui, d)
                    \/ ui' = FilesShow([ui EXCEPT !.ctx = k], "rename")
                    \/ ui' = FilesShow([ui EXCEPT !.ctx = k, !.sel = {k}], "ctxdelete"),
             ui.open = {}
      PROVE  ObjectChosen(ui)'
  <2>1. CASE \E x : ui' = [ui EXCEPT !.sel = x]
    <3>1. DOMAIN ui' = DOMAIN ui /\ ui'.open = {}
      BY <1>1, <1>8, <2>1
    <3> QED
      BY <1>1, <3>1 DEF ObjectChosen
  <2>2. ASSUME NEW u, u = ui \/ u = [ui EXCEPT !.ctx = k], NEW d \in {"upload", "create", "delete", "rename"}, ui' = FilesShow(u, d)
        PROVE  ObjectChosen(ui)'
    <3>1. DOMAIN u = DOMAIN ui /\ u.open = {}
      BY <1>1, <1>8, <2>2
    <3>2. DOMAIN ui' = DOMAIN ui /\ ui'.open = {d}
      BY <1>1, <2>2, <3>1 DEF FilesShow
    <3> QED
      BY <1>1, <3>2 DEF ObjectChosen
  <2>3. CASE ui' = FilesShow([ui EXCEPT !.ctx = k, !.sel = {k}], "ctxdelete")
    <3> DEFINE u == [ui EXCEPT !.ctx = k, !.sel = {k}]
    <3>1. DOMAIN u = DOMAIN ui /\ u.open = {} /\ u.sel = {k} /\ u.ctx = k
      BY <1>1, <1>8
    <3> HIDE DEF u
    <3>2. DOMAIN ui' = DOMAIN ui /\ ui'.open = {"ctxdelete"} /\ ui'.sel = {k} /\ ui'.ctx = k
      BY <1>1, <2>3, <3>1 DEF FilesShow, u
    <3> QED
      BY <1>1, <3>2 DEF ObjectChosen
  <2> QED
    BY <1>8, <2>1, <2>2, <2>3
<1>9. CASE ui.open = {} /\ (FilesToolbar \/ FilesTable)
  <2>1. \/ \E p : NavigateTo(p)
        \/ ui' = ui \/ ui' = [ui EXCEPT !.loading = TRUE]
        \/ \E x : ui' = [ui EXCEPT !.sel = x]
        \/ ui' = FilesShow(ui, "upload") \/ ui' = FilesShow(ui, "create") \/ ui' = FilesShow(ui, "delete")
        \/ \E k : ui' = FilesShow([ui EXCEPT !.ctx = k], "rename")
        \/ \E k : ui' = FilesShow([ui EXCEPT !.ctx = k, !.sel = {k}], "ctxdelete")
    BY <1>9, Zenon DEF FilesToolbar, FilesTable, FilesToggle, FilesToggleAll, HandleContextAction, FilesDownload, Ask, User
  <2>2. CASE ui' = ui \/ ui' = [ui EXCEPT !.loading = TRUE]
    <3>1. Like(ui')
      BY <1>1, <2>2
    <3> QED
      BY <1>3, <3>1
  <2> QED
    BY <1>4, <1>8, <1>9, <2>1, <2>2
<1>10. ASSUME NEW d, NEW p, FilesDone(s, d, p) PROVE ObjectChosen(ui)'
  <2> DEFINE u == FilesHide(ui, d)
             x == IF net[s].k = "delete" THEN {} ELSE u.sel
             v == [u EXCEPT !.loading = TRUE, !.sel = x]
  <2>1. ui' = v \/ ui' = [ui EXCEPT !.busy = FALSE]
    BY <1>10, Zenon DEF FilesDone, Resume
  <2>2. ObjectChosen(u)
    BY ObjectHidden
  <2>3. x = u.sel \/ x = {}
    OBVIOUS
  <2> HIDE DEF u, x
  <2>4. DOMAIN v = DOMAIN u /\ v.open = u.open /\ v.sel = x /\ v.ctx = u.ctx
    BY <2>2 DEF ObjectChosen
  <2> HIDE DEF v
  <2>5. ObjectChosen(v)
    BY <2>2, <2>3, <2>4, ObjectKept
  <2>6. Like([ui EXCEPT !.busy = FALSE])
    BY <1>1
  <2> QED
    BY <1>2, <1>3, <2>1, <2>5, <2>6
<1>11. CASE FilesListed(s)
  <2> DEFINE c == net[s].a
             b == ui.busy /\ ~c.busy
             u == [ui EXCEPT !.loading = FALSE, !.busy = b]
  <2>1. \E x, y : ui' = [u EXCEPT !.shown = x, !.of = y]
    BY <1>11, Zenon DEF FilesListed, Resume
  <2> HIDE DEF b
  <2>2. Like(u)
    BY <1>1
  <2> HIDE DEF u
  <2>3. Like(ui')
    BY <1>1, <2>1, <2>2
  <2> QED
    BY <1>3, <2>3
<1>12. ASSUME ui' = ui \/ \E P : ui' = [ui EXCEPT !.prog = P] PROVE ObjectChosen(ui)'
  <2>1. Like(ui')
    BY <1>1, <1>12
  <2> QED
    BY <1>3, <2>1
<1>13. CASE FilesResume(s)
  <2>1. \/ FilesListed(s)
        \/ \E d, p : FilesDone(s, d, p)
        \/ ui' = ui \/ \E P : ui' = [ui EXCEPT !.prog = P]
    BY <1>13, Zenon DEF FilesResume, FilesUploaded, FilesDropped, Resume
  <2> QED
    BY <1>10, <1>11, <1>12, <2>1
<1>14. CASE FilesUser
  BY <1>4, <1>5, <1>6, <1>7, <1>9, <1>14 DEF FilesUser, FilesPopState
<1> QED
  BY <1>13, <1>14

PanelInv ==
    /\ screen = "picker"   => PickerPanel
    /\ screen = "polled"   => PolledPanel
    /\ screen = "sweeps"   => SweepPanel
    /\ screen = "explorer" => ExplorerPanel
    /\ screen = "files"    => ObjectChosen(ui)

\* What a panel shows, or what its buttons act on, belongs to the object it is
\* shown for, whatever order the answers come in: a listing to the path above it,
\* the rows of a tab to that tab, an applied run to its sweep, images to their
\* folder (as long as no request failed) and a deletion to its object.
THEOREM PanelsShowSelection == Spec => []PanelShowsSelection
<1>1. Init => PanelInv
  <2> SUFFICES ASSUME Init PROVE PanelInv
    OBVIOUS
  <2>0. CallsIn(NoCalls) /\ NoCalls[1] = NoCall /\ \A s \in Slots : NoCalls[s] = NoCall
    BY SomeSlot DEF CallsIn, NoCalls
  <2>1. ASSUME screen = "picker" PROVE PickerPanel
    <3>1. ui = PickerUi /\ net = NoCalls
      BY <2>1 DEF Init
    <3> QED
      BY <2>0, <3>1 DEF PickerPanel, PickerUi, Busy
  <2>2. ASSUME screen = "polled" PROVE PolledPanel
    <3>1. ui = PolledUi /\ net = Send(NoCalls, "list", "eval")
      BY <2>2 DEF Init
    <3>2. Sends(NoCalls, net, "list", "eval")
      BY <2>0, <3>1, SomeSlot, SendFills
    <3> QED
      BY <2>0, <3>1, <3>2 DEF PolledPanel, PolledUi, Busy, Ok, Sends, NewCall
  <2>3. ASSUME screen = "sweeps" PROVE SweepPanel
    <3>1. PICK a : net = Send(NoCalls, "list", a)
      BY <2>3 DEF Init
    <3>2. Sends(NoCalls, net, "list", a)
      BY <2>0, <3>1, SomeSlot, SendFills
    <3> QED
      BY <2>0, <3>2 DEF SweepPanel, Busy, Sends, NewCall
  <2>4. ASSUME screen = "explorer" PROVE ExplorerPanel
    <3> DEFINE none == ""
               u == [cur |-> none, back |-> None, kids |-> [f \in Folders |-> None], of |-> none, from |-> None,
                     items |-> {}, total |-> 0, rid |-> 1, loading |-> TRUE, more |-> FALSE, busy |-> "no",
                     cancel |-> FALSE, ids |-> {}, confirm |-> None, dlg |-> "no"]
               a == [folder |-> ui.of, page |-> 1, rid |-> ui.rid, fin |-> "no"]
               c == [folder |-> none, fin |-> "no"]
               m == Send(NoCalls, "images", a)
    <3>1. ui = u /\ net = Send(m, "kids", c)
      BY <2>4, Zenon DEF Init, ExplorerUi, ExplorerKidsOf, ExplorerImagesOf
    <3>2. evs = 0
      BY DEF Init
    <3> HIDE DEF none
    <3>3. /\ DOMAIN ui = {"cur", "back", "kids", "of", "from", "items", "total", "rid", "loading", "more", "busy",
                          "cancel", "ids", "confirm", "dlg"}
          /\ ui.rid = 1 /\ ui.loading = TRUE
      BY <3>1
    <3>4. a.rid = ui.rid /\ a.folder = ui.of /\ ui.rid \in Nat
      BY <3>3
    <3>5. PagesAsked(NoCalls, ui.of, ui.rid, evs)
      BY <2>0 DEF PagesAsked
    <3>6. Free2(NoCalls) /\ Free(NoCalls)
      <4>1. 1 \in Slots /\ 2 \in Slots
        BY BrowserAssumption DEF Slots
      <4> QED
        BY <2>0, <4>1 DEF Free, Free2
    <3> HIDE DEF a, c, u
    <3>7. PagesAsked(m, ui.of, ui.rid, evs) /\ Free(m)
      BY <3>4, <3>5, <3>6, PagesMore
    <3> HIDE DEF m
    <3>8. PagesAsked(net, ui.of, ui.rid, evs)
      BY <3>1, <3>4, <3>7, PagesMore
    <3> QED
      BY <3>2, <3>3, <3>4, <3>8 DEF ExplorerPanel
  <2>5. ASSUME screen = "files" PROVE ObjectChosen(ui)
    <3>1. PICK a, p : ui = FilesUi(a, p)
      BY <2>5, Zenon DEF Init
    <3> QED
      BY <3>1 DEF FilesUi, ObjectChosen
  <2> QED
    BY <2>1, <2>2, <2>3, <2>4, <2>5 DEF PanelInv
<1>2. PanelInv /\ [Next]_vars => PanelInv'
  <2> SUFFICES ASSUME PanelInv, [Next]_vars PROVE PanelInv'
    OBVIOUS
  <2>1. screen' = screen
    BY PageStays
  <2>2. CASE UNCHANGED vars
    <3>1. ui' = ui /\ net' = net /\ evs' = evs
      BY <2>2 DEF vars
    <3> QED
      BY <2>1, <3>1 DEF PanelInv, PickerPanel, PolledPanel, SweepPanel, ExplorerPanel, ObjectChosen, CallsIn, IsCall, Busy, Ok
  <2>3. ASSUME Next, screen = "picker" PROVE PickerPanel'
    BY <2>3, PickerPanelStep, SomeSlot DEF PanelInv, Next, Act, Interval, Elsewhere, Continue
  <2>4. ASSUME Next, screen = "polled" PROVE PolledPanel'
    BY <2>4, PolledPanelStep, SomeSlot DEF PanelInv, Next, Act, Interval, Elsewhere, Continue
  <2>5. ASSUME Next, screen = "sweeps" PROVE SweepPanel'
    BY <2>5, SweepPanelStep, SomeSlot DEF PanelInv, Next, Act, Interval, Elsewhere, Continue
  <2>6. ASSUME Next, screen = "explorer" PROVE ExplorerPanel'
    BY <2>6, ExplorerPanelStep, SomeSlot DEF PanelInv, Next, Act, Interval, Elsewhere, Continue
  <2>7. ASSUME Next, screen = "files" PROVE ObjectChosen(ui)'
    <3>1. FilesUser \/ ui' = ui \/ \E s \in Slots : FilesResume(s)
      BY <2>7 DEF Next, Act, Interval, Elsewhere, Continue, Serve, Fault
    <3>2. ObjectChosen(ui)
      BY <2>7 DEF PanelInv
    <3>3. CASE ui' = ui
      BY <3>2, <3>3 DEF ObjectChosen
    <3> QED
      BY <3>1, <3>2, <3>3, FilesPanelStep, SomeSlot
  <2> QED
    BY <2>1, <2>2, <2>3, <2>4, <2>5, <2>6, <2>7 DEF PanelInv
<1>3. PanelInv => PanelShowsSelection
  <2> SUFFICES ASSUME PanelInv PROVE PanelMatches
    BY DEF PanelShowsSelection
  <2>1. CASE screen = "picker"
    BY <2>1 DEF PanelInv, PickerPanel, PanelMatches
  <2>2. CASE screen = "polled"
    BY <2>2 DEF PanelInv, PolledPanel, PanelMatches
  <2>3. CASE screen = "sweeps"
    BY <2>3 DEF PanelInv, SweepPanel, PanelMatches, InFlight
  <2>4. CASE screen = "explorer"
    BY <2>4 DEF PanelInv, ExplorerPanel, PanelMatches
  <2>5. CASE screen = "files"
    BY <2>5 DEF PanelInv, ObjectChosen, PanelMatches
  <2>6. CASE screen \notin {"picker", "polled", "sweeps", "explorer", "files"}
    BY <2>6 DEF PanelMatches
  <2> QED
    BY <2>1, <2>2, <2>3, <2>4, <2>5, <2>6
<1> QED
  BY <1>1, <1>2, <1>3, PTL DEF Spec
=============================================================================
