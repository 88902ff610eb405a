SPECIFICATION Spec
CONSTANTS
    TimeMod = 16
    MaxTimestamp = 5
    MaximumDt = 2
    Turn = 5
    Speeds = {0, 1}
PROPERTY
    PoseIsNewer
CHECK_DEADLOCK TRUE
