\* A service with two targets, a forward with four bindings; two commands at a time.
SPECIFICATION Spec
CONSTANTS
    Serves = {s1}
    Forwards = {f1}
    plain = plain
    slower = slower
    retyped = retyped
    other = other
    Targets = {t1, t2}
    Bindings <- MCBindings
    Remote <- MCRemote
    Shown <- MCShown
    Commands = {c1, c2}
SYMMETRY Symmetry
INVARIANTS
    PromisedIsKept
    FileNamesEachRuleOnce
    PersistedFlagIsTrue
