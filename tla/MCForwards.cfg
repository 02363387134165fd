\* Two calls at once over one address and three listeners in turn.
SPECIFICATION Spec
CONSTANTS
    Addrs = {a1}
    Calls = {call1, call2}
    Listeners = {l1, l2, l3}
    Conns = {k1, k2}
    MaxOpened = 2
    AcceptErrors = TRUE
    None = None
INVARIANTS
    RegistryIsExact
    EventsCountEntries
    ListedIsNotStopped
    NoOrphanListener
PROPERTIES
    CallsTakeEffectAtOnce
    RemovedForwardEnds
    EveryCallReturns
