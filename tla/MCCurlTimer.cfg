SPECIFICATION Spec
CONSTANTS
    t1 = t1
    t2 = t2
    Limit = 1
    NoTransfer = NoTransfer
    Transfers = {t1, t2}
    Timeout <- MCTimeout
    ConnectTimeout = 1
    DefaultConnectTimeout = 300
    Ms = 2
    Second = 1
    Waits = {1}
    MaxBusy = 1
    MaxTime = 3
INVARIANTS
    TypeOK
    TimerCovers
    DeadlineKept
    PendingHeld
