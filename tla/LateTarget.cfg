SPECIFICATION PromptSpec
CONSTANTS
    btc = btc
    day = day
    long = long
    cron = cron
    request = request
    None = None
    Markets = {btc}
    Tracks = {day}
    Threads = {cron}
    Scheduler = cron
    Frames <- FramesOfMC
    Width <- Width4
    EntryFrame <- EntryOn4h
    ClosingFrame = "30m"
    Hold <- HoldOfMC
    Up <- UpOfMC
    Down <- DownOfMC
    Quotes <- QuietOrRise
    Memory = 1
    Reach = 3
    MaxTime = 4
    MaxFaults = 0
INVARIANTS
    OutcomeAgreesWithMonitor
