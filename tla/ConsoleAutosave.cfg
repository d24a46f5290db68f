SPECIFICATION Spec
CONSTANTS
    Rows = {r1, r2}
    None = None
    MaxCalls = 2
    MaxOps = 2
    MaxEvents = 0
    Screens = {"labeling"}
CHECK_DEADLOCK FALSE
INVARIANTS EditsReachServer
