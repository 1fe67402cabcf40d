\* One operation of each shape of loop, with a fair thread.
CONSTANTS
    Ops <- MCShapes
    Limit = 2
    PollingLimit = 1
    Size = 2
    Channels = 2
    MaxPending = 1
    MaxBuffer = 2
SPECIFICATION FairSpec
PROPERTIES
    CallReturns
