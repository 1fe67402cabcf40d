\* Two handlers of one module, which the owner may bind and unbind under them.
CONSTANTS
    Handlers = {h1, h2}
    Checked = TRUE
    Rounds = 1
SPECIFICATION FairSpec
INVARIANTS
    TypeOK
    NoNullModule
    NoUseAfterDestroy
PROPERTIES
    KeepsLife
    DestructorReturns
    CallsBack
\* A null call ends the process.
CHECK_DEADLOCK FALSE
