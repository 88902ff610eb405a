SPECIFICATION Spec
CONSTANTS
    LimitSets <- MCLimitSets
    Requests <- MCRequests
    NodeIds <- MCNodeIds
INVARIANTS
    TypeOK
    WireCarriesRequest
    AuthorityBoundsWire
PROPERTIES
    WireFollowsRequest
CHECK_DEADLOCK TRUE
