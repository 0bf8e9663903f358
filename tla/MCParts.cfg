SPECIFICATION Spec
CONSTANTS
    Conns = {p, q}
    NoConn = NoConn
    Hashes = {1, 2}
    MaxContext = 4
    Backend = "JsonCommand"
    Frames <- MCFrames
    Window = 1
    Migrations = {m1, m2, m3}
    Policy <- MCPolicy
    Size <- MCSize
    Last = 5
    HttpFaults = 2
    AcceptFaults = 2
CHECK_DEADLOCK FALSE
INVARIANTS
    DaemonTypeOK
    CachedBlocksAreWhole
    NothingIsMissing
    ActiveCountsLive
    TunnelTypeOK
    TunnelIsFaithful
    CommitIsReported
PROPERTIES
    CommitIsComplete
    TrippedIsFinal
    TunnelsEnd
