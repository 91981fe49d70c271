SPECIFICATION Spec
CHECK_DEADLOCK FALSE
CONSTANTS
    None = None
    Quotes <- Paths
    SimWidth = 1
    EntryWidth = 2
    GateWidth = 2
    Up = 2
    Down = 2
    HoldBars = 3
    Forward = 1
    MaxTime = 7
    MaxLag = 1
INVARIANTS
    TypeOK
    DecidedByFirstTouch
    WinsAreReal
    TradesDoNotOverlap
PROPERTIES
    HistoryIsStable
