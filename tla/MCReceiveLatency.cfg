SPECIFICATION LatencySpec
CONSTANTS
    TickMod = 4
    MonoMod = 4
    HeartbeatTimeout = 1
    NodeId = 0
    FifoDepth = 2
    TxMailboxes = 1
    MaxLoopMs = 1
    MaxWaitMs = 9
    BusFrames <- MCLatencyFrames
INVARIANTS
    WaitIsBounded
    FreshMeansRecentArrival
PROPERTIES
    SilenceIsReported
    FaultIsPublished
CHECK_DEADLOCK TRUE
