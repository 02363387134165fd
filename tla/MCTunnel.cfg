\* Every fault at every moment, two chunks each way, so that either direction may
\* end first and be cut in the middle.
SPECIFICATION Spec
CONSTANTS
    Cap = 1
    ReqChunks = 2
    RespChunks = 2
    HasTimeout = TRUE
    Faults = {"appReset", "targetReset", "net", "cancel", "dial"}
INVARIANTS
    CleanEndIsComplete
    NoCopyOutlivesCall
PROPERTIES
    ResponseIsChannel
    RequestIsChannel
    UploadEndBoundsCall
    ClosedConnectionIsReleased
    ResponseReachesApp
\* A finished transfer stops.
CHECK_DEADLOCK FALSE
