\* Two calls at once: what do they leave behind?
SPECIFICATION Spec
CONSTANTS
    Services = {ssh, web}
    Targets = {t1}
    Calls = {call1, call2}
    Conns = {conn1}
    NoTarget = NoTarget
INVARIANT AdvertisedAtRest
