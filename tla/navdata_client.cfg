SPECIFICATION FairSpec
CONSTANTS
    MaxRetries = 1
    InFlight = 2
    MaxSequence = 4
    MaySuspend = TRUE
INVARIANT TypeOK
PROPERTIES InOrder Reconnects WatchdogAcknowledged
