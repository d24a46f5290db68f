SPECIFICATION FairSpec
CONSTANTS
    Rows = {r1, r2}
    None = None
    MaxCalls = 3
    MaxOps = 1
    MaxEvents = 1
    Screens = {"watches", "jobs", "polled", "servers", "models", "eval", "sweeps", "collection", "explorer", "users",
               "settings", "policy"}
CHECK_DEADLOCK FALSE
INVARIANTS SpinnersWaited OwnWritesShown SwitchBackRestores BadgePredictsServer
PROPERTIES ViewConverges
