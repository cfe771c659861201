SPECIFICATION FairSpec
CONSTANTS
    Port = {1}
    InFrame <- MCInFrame
    KeepAlive = 3
    MaxDelay = 2
    QuietCap = 7
    SeqWrap = 3
    Wrap = 11
    StartTime = {0, 1, 9}
INVARIANTS
    TypeOK
    ChangeNotSwallowed
    KeepAliveKept
PROPERTIES
    SequenceContiguous
    NetworkCatchesUp
