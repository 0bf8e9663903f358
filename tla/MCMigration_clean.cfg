SPECIFICATION FairSpec
CONSTANTS
    a = a
    b = b
    c = c
    d = d
    e = e
    f = f
    g = g
    NoConn = NoConn
    NoGraph = NoGraph
    Hashes = {1, 2}
    MaxContext = 4
    Job <- MCJob
    Frames <- MCFrames
    Conns = {b, c, d, e, f}
    Backend = "Mock"
    Faults = {}
PROPERTIES
    CleanRunsCommit
