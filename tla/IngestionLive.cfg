SPECIFICATION FairSpec
CONSTANTS
    Workers = {w1, w2}
    Clients = {r1}
    Documents = {d1}
    Collections = {c1, c2}
    Hashes = {h1}
    NoHash = NoHash
    None = None
    MaxJobs = 3
    MaxOps = 3
    MaxCfg = 0
    MaxFaults = 0
    Ops = {"register_document", "reindex_document", "reindex_collection", "delete_collection", "resolve_decision"}
    Faults = {}
    Pieces <- MCPieces
CHECK_DEADLOCK FALSE
PROPERTIES QueuedJobSettles DocumentSettles
