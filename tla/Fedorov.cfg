\* Two threads, two modules, and descriptors for both.
CONSTANTS
    Threads = {t1, t2}
    LastModule = 1
    Fds = {3, 4}
    MaxPending = 1
SPECIFICATION Spec
INVARIANTS
    DescriptorIsReady
    NothingLeaks
    CrateIsReached
    MaskIsRestored
    LamIsReal
SYMMETRY Symmetry
\* A process whose assertion fails stops.
CHECK_DEADLOCK FALSE
