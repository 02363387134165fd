\* Descriptors 3 to 5 in use or not; a policy whose backoff reaches its cap and
\* then the deadline.
SPECIFICATION FdPassSpec
CONSTANTS
    TopFd = 7
    MaxAttempts = 4
    InitialBackoff = 2
    MaxBackoff = 3
    TotalTimeout = 13
    MaxLag = 2
INVARIANTS
    FdPassTypeOK
    DeadlineHonoured
    VerdictJustified
    BackoffRespected
    RelayHoldsItsEndOnly
PROPERTIES
    OrphanedRelayEnds
    SshIsNotLeftWaiting
\* In the end every process has ended.
CHECK_DEADLOCK FALSE
