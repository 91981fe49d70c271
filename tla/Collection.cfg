SPECIFICATION FairSpec
CONSTANTS
    None = None
    Opens <- Even
    Listed = 0
    Approx = 2
    Limit = 2
    MaxPages = 7
    MaxRetries = 2
    Lookbacks = {3, 6, 11}
    StartTime = 7
    MaxTime = 13
    MaxFaults = 2
INVARIANTS
    TypeOK
    NoGap
    StoredIsClosed
    WithinGuard
PROPERTIES
    CollectionIsComplete
    BackfillRefreshes
    HistoryCatchesUp
    ImplementsHistory
