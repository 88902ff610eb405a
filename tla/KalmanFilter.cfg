SPECIFICATION Spec
CONSTANTS
    MaxTimestamp = 3
    MaxDefects = 2
INVARIANTS
    TypeOK
    EpochsArePaired
PROPERTIES
    UsableIsKept
CHECK_DEADLOCK TRUE
