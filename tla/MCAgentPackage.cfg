SPECIFICATION Spec
CONSTANTS
    Damaged = Damaged
    NoTool = NoTool
    Missing = Missing
    Extras <- MCExtras
    LocalOffers <- MCLocalOffers
    DefaultPlace <- MCDefaultPlace
    ForeignNames <- MCForeignNames
    Commands <- MCCommands
    Faults = 1
CHECK_DEADLOCK FALSE
INVARIANTS
    RestoreReportIsTrue
    IntactIsAccepted
    ReplayIsGated
    ResumedIsNotReplayed
    ReturnedGraphIsWhole
