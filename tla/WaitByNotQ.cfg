\* A LAM check by the absence of Q.
CONSTANTS
    Methods = {"BY_NOTQ"}
    Inf = Inf
    Timeouts <- MCTimeouts
    Centi = 2
    MaxClock = 5
SPECIFICATION Spec
INVARIANTS
    NotQConfirms
