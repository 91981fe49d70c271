SPECIFICATION Spec
CONSTANTS
    Btc = btc
    Eth = eth
    None = None
    Prices <- PricesOfMC
    Width = 2
    Horizon <- HorizonOfMC
    WeakMin = 3
    Strong30d = 20
    RegimeBars = 2
    StrongBull30d = 20
    OffLow = 10
    MaBars = 2
    StartBars = 3
    StartClouds <- CloudsOfMC
    MaxBars = 4
    MaxLag = 2
    MaxVerdicts = 1
INVARIANTS
    TypeOK
    TrackVerdictStands
    RegimeVerdictStands
    NothingWithoutBtc
    RiseNeverWorsensPhase
PROPERTIES
    KnownHistoryIsFixed
CHECK_DEADLOCK FALSE
