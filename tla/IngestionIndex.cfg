SPECIFICATION Spec
CONSTANTS
    Workers = {w1}
    Clients = {r1}
    Documents = {d1, d2}
    Collections = {c1, c2}
    Hashes = {h1}
    NoHash = NoHash
    None = None
    MaxJobs = 3
    MaxOps = 4
    MaxCfg = 1
    MaxFaults = 1
    Ops = {"register_document", "reindex_document", "reindex_collection", "delete_collection", "resolve_decision"}
    Faults = {"worker_crash", "record_lost", "request_crash"}
    Pieces <- MCPieces
CHECK_DEADLOCK FALSE
SYMMETRY Symmetry
INVARIANTS ChunkCountExact FreshIndex NoDuplicateHash
