SPECIFICATION BoardSpec
CONSTANTS
    long = long
    cron = cron
    btc = btc
    None = None
    Markets = {btc}
    Tracks = {long}
    Threads = {cron}
    Scheduler = cron
    Frames <- FramesOfMC
    Width <- WidthOfMC
    EntryFrame <- EntryOn4h
    ClosingFrame = "30m"
    Hold <- HoldOfMC
    Up <- UpOfMC
    Down <- DownOfMC
    Quotes <- Quiet
    Memory = 3
    Reach = 3
    MaxTime = 4
    MaxFaults = 0
INVARIANTS
    ShownUntilDeadline
