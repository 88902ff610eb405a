SPECIFICATION Spec
CONSTANTS
    TickMod = 9
    HeartbeatTimeout = 3
    MaxUpdateGap = 4
INVARIANTS
    TypeOK
    ArmedIsHealthy
    StateMatchesFlags
    PermissionAgeBound
PROPERTIES
    FaultLatchIsPermanent
    PermissionOnlyByArm
    RetainedOnlyWhileTimely
    NoFalseStale
CHECK_DEADLOCK TRUE
