SPECIFICATION Spec
CONSTANTS
    btc = btc
    day = day
    long = long
    cron = cron
    request = request
    None = None
    Markets = {btc}
    Tracks = {day}
    Threads = {cron}
    Scheduler = cron
    Frames <- FramesOfMC
    Width <- Width2
    EntryFrame <- EntryOn4h
    ClosingFrame = "30m"
    Hold <- HoldOfMC
    Up <- UpOfMC
    Down <- DownOfMC
    Quotes <- CalmOrSwing
    Memory = 1
    Reach = 3
    MaxTime = 3
    MaxFaults = 1
INVARIANTS
    AlertedOnceAfterRecord
    FirstTouchIsRecorded
    OutcomeIsGrounded
PROPERTIES
    OutcomeIsFinal
    CountedTradesStand
    ImplementsTradeRecord
