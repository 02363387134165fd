\* Two calls at once, two incoming connections, two services and targets.
SPECIFICATION Spec
CONSTANTS
    Services = {ssh, web}
    Targets = {t1, t2}
    Calls = {call1, call2}
    Conns = {conn1, conn2}
    NoTarget = NoTarget
INVARIANT UnknownOnlyIfRemoved
PROPERTIES
    LoneCallRepairs
    ServedIsAdvertised
