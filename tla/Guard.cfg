SPECIFICATION FairSpec
CONSTANTS
    None = None
    Opens <- Even
    Listed = 0
    Approx = 2
    Limit = 2
    MaxPages = 2
    MaxRetries = 2
    Lookbacks = {11}
    StartTime = 13
    MaxTime = 15
    MaxFaults = 0
PROPERTIES
    TruncationIsMadeGood
