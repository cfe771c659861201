SPECIFICATION Spec
CONSTANTS
    Port = {0, 1}
    FrameSize = 1
    Level = {0, 1}
    Config <- MCConfig
    SacnTimeout = 2
    MaxDelay = 2
    QuietCap = 8
    StartTime = {1}
    OpenMayFail = FALSE
    Wrap = 16
    Horizon = 13
    InFrame <- MCInFrame
    KeepAlive = 1
    SeqWrap = 1
    Rx = 0
    JoinPort = 0
    External <- MCExternal
    DefaultPriority = 1
    QueueCap = 2
INVARIANTS
    TypeOK
    QueueMoves
    LookAgeBounded
    PassesThrough
PROPERTIES
    ImplementsOutput
    ImplementsInput
