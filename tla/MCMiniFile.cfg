SPECIFICATION FairSpec
CONSTANTS
    Path = {"read", "save", "log"}
    Char = {"a", "b", "n"}
    Newline = "n"
    InitDisk <- MCDisk
    MaxFiles = 2
    BufSize = 2
    Data <- MCData
    Printed <- MCPrinted
    MaxLength <- MCMaxLength
    Size = {3, 4}
    Want = {3}
INVARIANTS
    TypeOK
PROPERTIES
    ImplementsPlain
    CallsReturn
