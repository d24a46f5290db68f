SPECIFICATION Spec
CONSTANTS
    Workers = {w1, w2}
    Clients = {r1}
    Documents = {d1}
    Collections = {c1}
    Hashes = {h1}
    NoHash = NoHash
    None = None
    MaxJobs = 2
    MaxOps = 2
    MaxCfg = 0
    MaxFaults = 0
    Ops = {"upload_and_ingest", "reindex_document"}
    Faults = {}
    Pieces <- MCPieces
CHECK_DEADLOCK FALSE
INVARIANT ChunkCountExact
