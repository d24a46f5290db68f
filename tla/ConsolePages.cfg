SPECIFICATION Spec
CONSTANTS
    Rows = {r1, r2}
    None = None
    MaxCalls = 2
    MaxOps = 2
    MaxEvents = 1
    Screens = {"sources", "watches", "picker", "jobs", "polled", "servers", "models", "evals", "eval", "sweeps",
               "apikeys", "piirules", "piifunctions", "feedback",
               "collections", "collection", "config", "docview", "builder", "search",
               "profiles", "review", "routetest", "intake",
               "analyze", "history", "labeling", "canvas",
               "pipelines", "pipeline", "playground", "chat",
               "ftjobs", "ftdatasets", "ftmodels", "ftjob", "ftdataset", "ftmodel", "ftlabeling",
               "files"}
CHECK_DEADLOCK FALSE
INVARIANTS SpinnersWaited OneSubmitAtATime OwnWritesShown PanelShowsSelection
           BoxNumbersUnique BoxInsideImage ExamplesContrast
