SPECIFICATION Spec
CONSTANTS
    TickMod = 5
    MonoMod = 5
    HeartbeatTimeout = 2
    NodeId = 0
    FifoDepth = 2
    TxMailboxes = 1
    MaxLoopMs = 1
    CommandPeriod = 2
    BusFrames <- MCHeartbeats
    ArmInputs = {TRUE, FALSE}
    RuntimeInputs = {TRUE, FALSE}
INVARIANTS
    TypeOK
PROPERTIES
    ImplementsCommandPermission
    CommandHeartbeatAge
    SessionEndsBeforeRollover
    CommandsArePaced
    SilenceRevokes
    FailedAdapterRevokes
    FaultIsLatched
CHECK_DEADLOCK TRUE
