SPECIFICATION Spec
CONSTANTS
    MaxHorizon = 4
INVARIANTS
    TypeOK
    OkMeansComplete
    FilledIsSuffix
PROPERTIES
    CallReturns
CHECK_DEADLOCK TRUE
