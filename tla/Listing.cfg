SPECIFICATION Spec
CONSTANTS
    None = None
    Opens <- Even
    Listed = 0
    Approx = 2
    Limit = 2
    MaxPages = 6
    MaxRetries = 2
    Lookbacks = {3, 7}
    StartTime = 5
    MaxTime = 8
    MaxFaults = 0
INVARIANTS
    EarliestIsListing
