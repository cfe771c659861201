SPECIFICATION Spec
CONSTANTS
    ReadCap = 10
    Words <- AllWords
    InitFiles <- LongFiles
    StrandFiles <- FewStrandFiles
    Forms <- FewForms
    FlushLines = 6
    PutLimit = 16
    MaxFails = 0
INVARIANTS
    UnknownPreserved
