\* Two commands of one key file at once, and nothing fails.
SPECIFICATION Spec
CONSTANTS
    Daemons = {1, 2}
    Forwarders = {}
    Commands = {c1, c2}
    KeyFiles = {k1}
    Polls = 3
    Overlap = FALSE
    Disturbed = FALSE
    NoFile = NoFile
    Empty = Empty
INVARIANT ExitMeansNoServer
\* In the end every process has ended.
CHECK_DEADLOCK FALSE
