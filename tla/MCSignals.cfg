\* Three clients and two tasks that change the state; a connection holds one unread
\* signal.
SPECIFICATION Spec
CONSTANTS
    Peers = {p1, p2, p3}
    Sources = {s1, s2}
    Room = 1
    MaxQueued = 1
    None = None
INVARIANT SignalOnItsWay
PROPERTIES
    ToldOfEveryChange
    GonePeersAreForgotten
    ClientsAreServed
