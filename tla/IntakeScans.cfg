SPECIFICATION Spec
CONSTANTS
    NFiles = 2
    Scanners = {s1, s2}
    Collections = {c1, c2}
    Hashes = {h1, h2, h3}
    None = None
    h1 = h1
    h2 = h2
    h3 = h3
    c1 = c1
    c2 = c2
    MaxVer = 2
    MaxDrops = 3
    MaxPolicy = 2
    MaxFaults = 1
    ListMax = 2
    ScanLimit = 1
    Content <- MCContent
    Route <- MCRoute
    Closable = {}
    Faults = {"fetch_fails"}
CHECK_DEADLOCK FALSE
SYMMETRY Symmetry
INVARIANTS IntakeTypeOK SeenMeansIngested
