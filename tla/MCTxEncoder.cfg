SPECIFICATION Spec
CONSTANTS
    TickMod = 6
    MonoMod = 6
    HeartbeatTimeout = 2
    NodeId = 0
    FifoDepth = 1
    TxMailboxes = 2
    MaxLoopMs = 1
    CommandPeriod = 3
    BusFrames <- MCTelemetry
    ArmInputs = {TRUE, FALSE}
    RuntimeInputs = {TRUE, FALSE}
PROPERTY
    CommandNeedsEncoder
CHECK_DEADLOCK TRUE
