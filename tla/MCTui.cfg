\* Two services and two forwards to select from, one connection, two restarts.
SPECIFICATION Spec
CONSTANTS
    Services = {1, 2}
    Forwards = {1, 2}
    Connections = {1}
    MaxGen = 2
INVARIANTS
    TypeOK
    LayoutsAgree
    SelectionIsListed
PROPERTY ScreenCatchesUp
\* A TUI that quit stops.
CHECK_DEADLOCK FALSE
