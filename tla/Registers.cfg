SPECIFICATION Spec
CONSTANTS
    Drivers <- AllDrivers
    Data <- OneBit
INVARIANTS
    AnswerTellsFailure
    VerifyIsHonest
    TestRestores
    InitAdopts
    StaysInSync
