SPECIFICATION Spec
CONSTANTS
    NFiles = 2
    Scanners = {s1}
    Collections = {c1, c2}
    Hashes = {h1, h2, h3}
    None = None
    h1 = h1
    h2 = h2
    h3 = h3
    c1 = c1
    c2 = c2
    MaxVer = 2
    MaxDrops = 3
    MaxPolicy = 2
    MaxFaults = 0
    ListMax = 2
    ScanLimit = 1
    Content <- MCContent
    Route <- MCRoute
    Closable = {c1}
    Faults = {}
CHECK_DEADLOCK FALSE
INVARIANTS NoRouteStands
