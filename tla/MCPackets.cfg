SPECIFICATION Spec
CONSTANTS
    Byte = {0, 1, 2, 3}
    Marker = 2
    FrameSize = 3
    ShownetRoom = 5
    Frame <- MCFrame
    Number = {0, 1, 2, 5}
    Priority = {1, 2}
    Sequence = {3, 4}
    Encoding <- MCEncoding
INVARIANTS
    OnlyReceivedBytes
    Transparent
    RunsDecoded
