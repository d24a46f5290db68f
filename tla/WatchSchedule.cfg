SPECIFICATION FairSpec
CONSTANTS
    Watches = {w1, w2}
    Replicas = {r1}
    Intervals = {1, 2}
    Cap = 3
    Limit = 1
    ErrorTexts = {"error"}
    NoRow = NoRow
    MaxFails = 2
    MaxOps = 4
    MaxCrashes = 1
INVARIANTS WatchTypeOK NotBeforeInterval FailuresTruthful RequestOnlyLostToFailure
PROPERTIES WatchKeepsRunning
