\* What GetTrueVoltage answers CC_OK to.
CONSTANTS
    Ops = {"GetTrueVoltage"}
    Limit = 2
    PollingLimit = 1
    Size = 2
    Channels = 2
    MaxPending = 1
    MaxBuffer = 3
SPECIFICATION Spec
INVARIANTS
    OkIsRead
