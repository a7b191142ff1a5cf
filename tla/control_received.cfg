SPECIFICATION Spec
CONSTANTS
    c1 = c1
    c2 = c2
    Configs <- TwoConfigs
    NoConfig = NoConfig
    NoSlot = NoSlot
    Requests <- AllRequests
    RingSize = 3
    QueueSize = 3
    NumRetries = 2
    AtCapacity = 2
    NavCapacity = 1
    TcpCapacity = 2
    PromptAt = TRUE
    Spurious = FALSE
    MayExit = FALSE
    InitialMask = {FALSE}
INVARIANTS TypeOK OneOutstanding
PROPERTIES ImplementsConfigQueue SuccessMeansReceived FileEndsAfterReset
SYMMETRY ConfigSymmetry
