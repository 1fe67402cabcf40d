\* Every check method, every kind of timeout.
CONSTANTS
    Methods <- AllMethods
    Inf = Inf
    Timeouts <- MCTimeouts
    Centi = 2
    MaxClock = 5
SPECIFICATION FairSpec
INVARIANTS
    TypeOK
    BoolIsConfirmedOrLate
    BusFaultIsReturned
    TimeoutIsDue
    RoundWithinDeadline
PROPERTIES
    LeftNeverGrows
    FiniteWaitReturns
    HeldLamEndsWait
