SPECIFICATION Spec
CONSTANTS
    Workers = {w1, w2}
    Clients = {r1}
    Documents = {d1, d2}
    Collections = {c1, c2}
    Hashes = {h1}
    NoHash = NoHash
    None = None
    MaxJobs = 3
    MaxOps = 3
    MaxCfg = 0
    MaxFaults = 1
    Ops = {"upload_and_ingest", "register_document", "create_document", "reindex_document", "reindex_collection", "update_document", "delete_document", "update_collection", "delete_collection", "resolve_decision"}
    Faults = {"worker_crash", "request_crash", "record_lost", "put_fails"}
    Pieces <- MCPieces
CHECK_DEADLOCK FALSE
SYMMETRY Symmetry
INVARIANTS TypeOK JobOwnedOnce RunningAccounted NoDocumentForgotten
PROPERTIES JobMovesForward ImplementsJobQueue
