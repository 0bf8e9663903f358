SPECIFICATION Spec
CONSTANTS
    a = a
    b = b
    c = c
    d = d
    e = e
    f = f
    g = g
    NoConn = NoConn
    NoGraph = NoGraph
    Hashes = {1, 2}
    MaxContext = 4
    Job <- MCJob
    Frames <- MCFrames
    Conns = {a, b, c}
    Backend = "JsonCommand"
    Faults = {"manifest", "crash", "reset"}
INVARIANTS
    TypeOK
    ManifestTellsTheTruth
    RefusedIsNeverActive
    CachedBlocksHaveAllLayers
    LockStep
PROPERTIES
    CommitInstallsAll
