SPECIFICATION Spec
CONSTANTS
    TickMod = 4
    MonoMod = 8
    HeartbeatTimeout = 2
    NodeId = 0
    FifoDepth = 2
    TxMailboxes = 1
    MaxLoopMs = 1
    BusFrames <- MCBusFrames
INVARIANTS
    TypeOK
    HeartbeatRecordsAgree
    MonotonicClockIsUptime
    FreshnessMatchesStamps
    CacheHoldsReports
CHECK_DEADLOCK TRUE
