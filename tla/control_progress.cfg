SPECIFICATION FairSpec
CONSTANTS
    c1 = c1
    c2 = c2
    Configs <- TwoConfigs
    NoConfig = NoConfig
    NoSlot = NoSlot
    Requests <- MixedRequests
    RingSize = 2
    QueueSize = 3
    NumRetries = 1
    AtCapacity = 1
    NavCapacity = 1
    TcpCapacity = 2
    PromptAt = FALSE
    Spurious = TRUE
    MayExit = TRUE
    InitialMask = {TRUE, FALSE}
PROPERTIES ThreadStops ParameterAnswered RequestsComplete
