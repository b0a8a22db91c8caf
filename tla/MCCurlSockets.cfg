SPECIFICATION Spec
CONSTANTS
    t1 = t1
    t2 = t2
    s1 = s1
    s2 = s2
    c1 = c1
    c2 = c2
    c3 = c3
    Transfers = {t1, t2}
    Sockets = {s1, s2}
    Contexts = {c1, c2, c3}
    MaxSocks = 2
    NoContext = NoContext
    NoTransfer = NoTransfer
SYMMETRY Symmetry
INVARIANTS
    TypeOK
    WaitsWatched
    WatchedKnown
    ContextsOwned
    PollInitSucceeds
