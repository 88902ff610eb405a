SPECIFICATION Spec
CONSTANTS
    TimeMod = 16
    MaxTimestamp = 5
    MaximumDt = 2
    Turn = 5
    Speeds = {0, 1}
INVARIANTS
    TypeOK
    YawIntegratesElapsedTime
    ValidMeansNewest
PROPERTIES
    ImuOrderIsKept
CHECK_DEADLOCK TRUE
