SPECIFICATION Spec
CONSTANTS
    Threads = {t1, t2}
    Blocks = {b1, b2, b3}
    Foreign = {b3}
    Layers = {1}
    Size = 2
    SlotCounts = {1, 5}
    Pools <- MCPools
    Requests = 3
    Crashes = 1
    Procs = {p1, p2}
    Hashes = {h1, h2, h3}
    Malformed = {h3}
    AsksAlone = 4
    AsksAtOnce = 3
    Kills = 1
    None = None
    Torn = Torn
    SeqLens = {1, 2, 3, 4, 5}
    Spare <- MCSpare
    HeadCounts = {1, 2, 3}
    Dims = {1, 2}
    BlockSizes = {2, 4}
    TargetTokens = {1, 2, 3, 4}
    SeedLen = 2
    TargetLen = 3
    Wanted = {0, 2, 4, 5}
    Generated <- MCGenerated
    SourceAsks = 5
CHECK_DEADLOCK FALSE
INVARIANTS
    RuntimesTypeOK
    VerifiedIsInPlace
    RegistrationAnswersAreTrue
    ReverseStateBelongsTogether
    RegisteredIsKept
    ExportTellsTheTruth
    TransferIsRight
    ReplyBelongsTogether
    ImportedIsServed
SYMMETRY Sym
