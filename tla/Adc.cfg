\* Three channels, a memory of four words.
CONSTANTS
    ChanCount = 3
    Size = 4
    Settings <- Arguments
SPECIFICATION Spec
INVARIANTS
    ReadIsRight
    ReadIsWhole
    LamTellsEnd
