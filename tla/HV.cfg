\* Every operation, with answers that may come after their round.
CONSTANTS
    Ops <- AllOps
    Limit = 2
    PollingLimit = 1
    Size = 2
    Channels = 2
    MaxPending = 1
    MaxBuffer = 3
SPECIFICATION Spec
INVARIANTS
    AlarmIsKept
    AlarmIsReal
    SettingIsRead
    AnswerIsMine
    WordsKeepToAnswer
