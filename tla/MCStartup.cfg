\* Three daemons over two key files, a forward and a command.
SPECIFICATION Spec
CONSTANTS
    Daemons = {1, 2, 3}
    Forwarders = {f1}
    Commands = {c1}
    KeyFiles = {k1, k2}
    Polls = 1
    Overlap = FALSE
    Disturbed = TRUE
    NoFile = NoFile
    Empty = Empty
INVARIANTS
    ServerIsReachable
    RunsWithItsFilesKey
    IdentityIsUnique
PROPERTIES
    SettledKeyStays
    SomeServerComesUp
\* In the end every process has ended.
CHECK_DEADLOCK FALSE
