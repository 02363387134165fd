\* The client's task may be aborted.
SPECIFICATION Spec
CONSTANTS
    Cap = 1
    ReqChunks = 1
    RespChunks = 2
    HasTimeout = TRUE
    Faults = {"cancel"}
PROPERTY AbortedConnectionEnds
\* A finished transfer stops.
CHECK_DEADLOCK FALSE
