\* No fault and no timeout: the request.
SPECIFICATION CooperativeSpec
CONSTANTS
    Cap = 1
    ReqChunks = 2
    RespChunks = 2
    HasTimeout = FALSE
    Faults = {}
PROPERTY RequestReachesTarget
\* A finished transfer stops.
CHECK_DEADLOCK FALSE
