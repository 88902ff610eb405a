SPECIFICATION Spec
CONSTANTS
    TickMod = 6
    MonoMod = 6
    HeartbeatTimeout = 2
    NodeId = 0
    FifoDepth = 1
    TxMailboxes = 2
    MaxLoopMs = 1
    CommandPeriod = 3
    BusFrames <- MCHealthy
    ArmInputs = {TRUE, FALSE}
    RuntimeInputs = {TRUE, FALSE}
PROPERTY
    CommandNeedsFreshHeartbeat
CHECK_DEADLOCK TRUE
