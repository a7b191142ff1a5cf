SPECIFICATION Spec
CONSTANTS
    c1 = c1
    c2 = c2
    Configs <- TwoConfigs
    NoConfig = NoConfig
    NoSlot = NoSlot
    Requests <- ParameterRequests
    RingSize = 3
    QueueSize = 3
    NumRetries = 2
    AtCapacity = 2
    NavCapacity = 2
    TcpCapacity = 0
    PromptAt = TRUE
    Spurious = FALSE
    MayExit = FALSE
    InitialMask = {FALSE}
PROPERTY SuccessMeansReceived
