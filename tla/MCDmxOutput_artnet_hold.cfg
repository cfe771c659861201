SPECIFICATION Spec
CONSTANTS
    Port = {0, 1}
    FrameSize = 2
    Level = {0, 1}
    Config <- MCArtnetConfig
    SacnPacket = {}
    ArtnetPacket <- MCArtnetPacket
    ShownetPacket = {}
    SacnTimeout = 3
    MaxDelay = 2
    QuietCap = 8
    Wrap = 12
    StartTime = {1, 9}
    OpenMayFail = FALSE
INVARIANTS
    DarkOnTimeout
