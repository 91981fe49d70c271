SPECIFICATION FairSpec
CONSTANTS
    None = None
    Quotes <- Around
    Channels <- Three
    MaxFaults = 2
INVARIANTS
    TypeOK
    FailedRequestsAreLocal
PROPERTIES
    RecordFollowsMarket
    ImplementsNotice
