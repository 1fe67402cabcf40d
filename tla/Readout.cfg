\* Two modules of two channels; a counter of two-valued words.
CONSTANTS
    Instances = {a, b}
    Nobody = Nobody
    Setups <- Couples
    nChannels = 2
    Words = 2
    MaxPulses = 2
    MaxEvents = 2
    MaxCalls = 3
    PointerEntries = 1
SPECIFICATION Spec
INVARIANTS
    CountsAreKept
    ReadIsClose
    DataIsMine
    ResetIsReal
SYMMETRY Symmetry
\* The callers may stop calling.
CHECK_DEADLOCK FALSE
