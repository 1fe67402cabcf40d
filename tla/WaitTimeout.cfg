\* A LAM check by Q, and the time that runs out on it.
CONSTANTS
    Methods = {"BY_Q"}
    Inf = Inf
    Timeouts <- MCTimeouts
    Centi = 2
    MaxClock = 5
SPECIFICATION Spec
INVARIANTS
    BoolIsConfirmed
