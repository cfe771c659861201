SPECIFICATION FairSpec
CONSTANTS
    Port = {0, 1}
    FrameSize = 2
    Level = {0, 1}
    Config <- MCOnePortConfig
    SacnPacket <- MCSacnPacket
    ArtnetPacket <- MCArtnetPacket
    ShownetPacket <- MCShownetPacket
    SacnTimeout = 3
    MaxDelay = 2
    QuietCap = 7
    Wrap = 10
    StartTime = {1}
    OpenMayFail = TRUE
INVARIANTS
    TypeOK
    FrameShown
    BlackoutDeadline
PROPERTIES
    BlackoutJustified
    PriorityRespected
    SourceLossGoesDark
